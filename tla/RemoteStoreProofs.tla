-------------------------- MODULE RemoteStoreProofs --------------------------
(***************************************************************************)
(* Theorems about RemoteStore, for any users, any size of the pipeline and *)
(* any number of writes and faults.  The argument: the ids in every queue  *)
(* ascend and stay below the next one, so that the pipeline is the         *)
(* beginning of the queue; and what is on the wire of the current call is  *)
(* the handshake or, after it, the pipeline itself.                        *)
(***************************************************************************)
EXTENDS RemoteStore, FiniteSetTheorems, SequenceTheorems, WellFoundedInduction, TLAPS

USE PendingAssumption, BoundAssumption

----------------------------------------------------------------------------
(* Batch ids. *)

Ascending(q) == \A i, j \in DOMAIN q : i < j => q[i].id < q[j].id

\* A set of numbers that is not empty has a least one.
LEMMA Least ==
    ASSUME NEW T, T \subseteq Nat, T # {}
    PROVE  \E x \in T : \A y \in T : x <= y
<1> DEFINE R == OpToRel(<, Nat)
<1>1. IsWellFoundedOn(R, Nat)
  BY NatLessThanWellFounded
<1>2. \A x, y \in Nat : y < x => <<y, x>> \in R
  BY DEF OpToRel
<1> HIDE DEF R
<1>3. PICK x \in T : \A y \in T : ~ (<<y, x>> \in R)
  BY <1>1, WFMin
<1>4. ASSUME NEW y \in T
      PROVE  x <= y
  <2>1. x \in Nat /\ y \in Nat /\ ~(y < x)
    BY <1>2, <1>3
  <2> QED BY <2>1
<1> QED BY <1>4

\* A set of numbers with a bound has a greatest one.
LEMMA Greatest ==
    ASSUME NEW S, S \subseteq Nat, S # {}, NEW b \in Nat, \A n \in S : n <= b
    PROVE  \E m \in S : \A n \in S : n <= m
<1> DEFINE T == {k \in Nat : \A n \in S : n <= k}
<1>1. T # {}
  OBVIOUS
<1>2. PICK k \in T : \A j \in T : k <= j
  <2>1. T \subseteq Nat
    OBVIOUS
  <2> HIDE DEF T
  <2> QED BY <1>1, <2>1, Least
<1>3. k \in S
  <2> SUFFICES ASSUME k \notin S
               PROVE  FALSE
    OBVIOUS
  <2>1. \A n \in S : n <= k - 1
    OBVIOUS
  <2>2. k - 1 \in Nat
    <3>1. PICK n \in S : TRUE
      OBVIOUS
    <3> QED BY <2>1, <3>1
  <2>3. k - 1 \in T
    BY <2>1, <2>2
  <2> QED BY <1>2, <2>3
<1> QED BY <1>2, <1>3

\* The id computed from the disk is above every id there.
LEMMA NextIdIsFresh ==
    ASSUME NEW queue \in [Users -> Seq(Batch)], NEW b \in Nat,
           \A u \in Users : \A i \in DOMAIN queue[u] : queue[u][i].id < b
    PROVE  /\ LoadNextBatchId(queue) \in Nat
           /\ \A u \in Users : \A i \in DOMAIN queue[u] :
                queue[u][i].id < LoadNextBatchId(queue)
<1> DEFINE ids == UNION {{queue[u][i].id : i \in DOMAIN queue[u]} : u \in Users}
<1>0. ASSUME NEW u \in Users, NEW i \in DOMAIN queue[u]
      PROVE  queue[u][i].id \in Nat /\ queue[u][i].id <= b
  <2>1. queue[u] \in Seq(Batch) /\ queue[u][i] \in Batch
    OBVIOUS
  <2> QED BY <2>1 DEF Batch
<1>1. \A u \in Users : \A i \in DOMAIN queue[u] : queue[u][i].id \in ids
  OBVIOUS
<1>2. ids \subseteq Nat /\ \A n \in ids : n <= b
  BY <1>0
<1>3. LoadNextBatchId(queue) =
        IF ids = {} THEN 1 ELSE 1 + CHOOSE m \in ids : \A n \in ids : n <= m
  BY DEF LoadNextBatchId
<1> HIDE DEF ids
<1>4. CASE ids = {}
  <2>1. \A u \in Users : DOMAIN queue[u] = {}
    BY <1>1, <1>4
  <2> QED BY <1>3, <1>4, <2>1
<1>5. CASE ids # {}
  <2> DEFINE m == CHOOSE m \in ids : \A n \in ids : n <= m
  <2>1. m \in ids /\ \A n \in ids : n <= m
    BY <1>2, <1>5, Greatest
  <2> HIDE DEF m
  <2>2. LoadNextBatchId(queue) = 1 + m
    BY <1>3, <1>5 DEF m
  <2>3. m \in Nat
    BY <1>2, <2>1
  <2>4. \A n \in ids : n < 1 + m
    BY <1>2, <2>1, <2>3
  <2> QED BY <1>1, <2>2, <2>3, <2>4
<1> QED BY <1>4, <1>5

\* The sequence of length zero is the empty one.
LEMMA NoneIsEmpty ==
    ASSUME NEW S, NEW s \in Seq(S), Len(s) = 0
    PROVE  s = <<>>
BY EmptySeq

\* The types of what is in a sequence of batches.
LEMMA IdsOfSeq ==
    ASSUME NEW q \in Seq(Batch)
    PROVE  \A i \in DOMAIN q : q[i].id \in Nat /\ q[i].op \in Nat \ {0}
<1>1. \A i \in DOMAIN q : q[i] \in Batch
  OBVIOUS
<1> QED BY <1>1 DEF Batch

\* What SubSeq takes out of a sequence.
LEMMA PartOfSeq ==
    ASSUME NEW S, NEW s \in Seq(S), NEW m \in Nat \ {0}, NEW n \in Nat,
           n <= Len(s), m <= n + 1
    PROVE  /\ SubSeq(s, m, n) \in Seq(S)
           /\ Len(SubSeq(s, m, n)) = n - m + 1
           /\ \A i \in 1..Len(SubSeq(s, m, n)) : SubSeq(s, m, n)[i] = s[m + i - 1]
<1>1. \A i \in m..n : s[i] \in S
  OBVIOUS
<1>2. /\ SubSeq(s, m, n) \in Seq(S)
      /\ Len(SubSeq(s, m, n)) = IF m <= n THEN n - m + 1 ELSE 0
      /\ \A i \in 1..n - m + 1 : SubSeq(s, m, n)[i] = s[m + i - 1]
  BY <1>1, SubSeqProperties
<1> QED BY <1>2

\* After the first n batches of a queue come the others.
LEMMA NextBatches ==
    ASSUME NEW q \in Seq(Batch), Ascending(q), NEW n \in Nat, n <= Len(q),
           NEW id, id = IF n = 0 THEN -1 ELSE q[n].id
    PROVE  /\ NextMutationBatches(q, id) \in Seq(Batch)
           /\ Len(NextMutationBatches(q, id)) = Len(q) - n
           /\ \A i \in 1..Len(NextMutationBatches(q, id)) :
                NextMutationBatches(q, id)[i] = q[n + i]
<1> DEFINE S == {i \in DOMAIN q : q[i].id <= id}
<1>1. Len(q) \in Nat /\ \A i \in DOMAIN q : q[i].id \in Nat
  BY IdsOfSeq
<1>2. S = 1..n
  <2>1. CASE n = 0
    BY <1>1, <2>1
  <2>2. CASE n # 0
    <3>1. ASSUME NEW i \in DOMAIN q
          PROVE  q[i].id <= q[n].id <=> i <= n
      <4>1. n \in DOMAIN q /\ i \in Nat /\ n \in Nat
        BY <2>2
      <4>2. CASE i < n
        BY <1>1, <4>1, <4>2 DEF Ascending
      <4>3. CASE n < i
        BY <1>1, <4>1, <4>3 DEF Ascending
      <4>4. CASE i = n
        BY <1>1, <4>1, <4>4
      <4> QED BY <4>1, <4>2, <4>3, <4>4
    <3> QED BY <2>2, <3>1
  <2> QED BY <2>1, <2>2
<1>3. Cardinality(1..n) = n
  BY FS_Interval
<1>4. NextMutationBatches(q, id) = SubSeq(q, 1 + Cardinality(S), Len(q))
  BY Zenon DEF NextMutationBatches
<1> HIDE DEF S
<1>5. NextMutationBatches(q, id) = SubSeq(q, 1 + n, Len(q))
  BY <1>2, <1>3, <1>4
<1>6. 1 + n \in Nat \ {0} /\ 1 + n <= Len(q) + 1
  BY <1>1
<1>7. /\ SubSeq(q, 1 + n, Len(q)) \in Seq(Batch)
      /\ Len(SubSeq(q, 1 + n, Len(q))) = Len(q) - (1 + n) + 1
      /\ \A i \in 1..Len(SubSeq(q, 1 + n, Len(q))) :
           SubSeq(q, 1 + n, Len(q))[i] = q[(1 + n) + i - 1]
  BY <1>1, <1>6, PartOfSeq
<1>8. Len(SubSeq(q, 1 + n, Len(q))) = Len(q) - n
  BY <1>1, <1>7
<1>9. ASSUME NEW i \in 1..Len(SubSeq(q, 1 + n, Len(q)))
      PROVE  SubSeq(q, 1 + n, Len(q))[i] = q[n + i]
  <2>1. (1 + n) + i - 1 = n + i
    BY <1>1, <1>8
  <2> QED BY <1>7, <2>1
<1> QED BY <1>5, <1>7, <1>8, <1>9

\* Removing the first batch of a queue leaves the others.
LEMMA RemoveFirst ==
    ASSUME NEW q \in Seq(Batch), Ascending(q), q # <<>>
    PROVE  /\ RemoveMutationBatch(q, Head(q)) = Tail(q)
           /\ Tail(q) \in Seq(Batch) /\ Ascending(Tail(q))
<1>1. /\ Len(q) \in Nat \ {0} /\ Head(q) = q[1]
      /\ Tail(q) \in Seq(Batch) /\ Len(Tail(q)) = Len(q) - 1
      /\ \A i \in DOMAIN Tail(q) : i + 1 \in DOMAIN q /\ Tail(q)[i] = q[i + 1]
  BY EmptySeq, HeadTailProperties
<1>2. Ascending(Tail(q))
  <2> SUFFICES ASSUME NEW i \in DOMAIN Tail(q), NEW j \in DOMAIN Tail(q), i < j
               PROVE  Tail(q)[i].id < Tail(q)[j].id
    BY DEF Ascending
  <2>1. i \in Nat /\ j \in Nat /\ i + 1 < j + 1
    BY <1>1
  <2> QED BY <1>1, <2>1 DEF Ascending
<1>3. \A i \in DOMAIN q : q[i].id = Head(q).id => i = 1
  <2> SUFFICES ASSUME NEW i \in DOMAIN q, i # 1
               PROVE  q[i].id # q[1].id
    BY <1>1
  <2>1. 1 \in DOMAIN q /\ 1 < i
    BY <1>1
  <2>2. q[1].id < q[i].id /\ q[1].id \in Nat /\ q[i].id \in Nat
    BY <2>1, IdsOfSeq DEF Ascending
  <2> QED BY <2>2
<1>4. (CHOOSE i \in DOMAIN q : q[i].id = Head(q).id) = 1
  <2>1. 1 \in DOMAIN q /\ q[1].id = Head(q).id
    BY <1>1
  <2> QED BY <1>3, <2>1
<1>5. SubSeq(q, 1, 0) \o SubSeq(q, 2, Len(q)) = Tail(q)
  <2>1. SubSeq(q, 1, 0) = <<>>
    BY <1>1, SubSeqEmpty
  <2>2. Tail(q) = SubSeq(q, 2, Len(q))
    BY TailIsSubSeq
  <2> QED BY <1>1, <2>1, <2>2, ConcatEmptySeq
<1>6. RemoveMutationBatch(q, Head(q)) = SubSeq(q, 1, 1 - 1) \o SubSeq(q, 1 + 1, Len(q))
  BY <1>4 DEF RemoveMutationBatch
<1> QED BY <1>1, <1>2, <1>5, <1>6

----------------------------------------------------------------------------
(* The pipeline. *)

\* The pipeline is the beginning of a queue, and not too long.
Begins(pipeline, q) ==
    /\ Len(pipeline) <= MaxPendingWrites
    /\ Len(pipeline) <= Len(q)
    /\ \A i \in DOMAIN pipeline : pipeline[i] = q[i]

\* There is no room left in the pipeline, or nothing left in the queue.
Full(pipeline, q) ==
    Len(pipeline) = MaxPendingWrites \/ Len(pipeline) = Len(q)

\* What FillWritePipeline takes from the queue continues the pipeline, as far
\* as there is room.
LEMMA NewWritesContinue ==
    ASSUME NEW q \in Seq(Batch), Ascending(q), NEW r \in RemoteState,
           Begins(r.pipeline, q)
    PROVE  /\ NewWrites(q, r) \in Seq(Batch)
           /\ r.pipeline \o NewWrites(q, r) \in Seq(Batch)
           /\ Begins(r.pipeline \o NewWrites(q, r), q)
           /\ Full(r.pipeline \o NewWrites(q, r), q)
<1> DEFINE p == r.pipeline
           n == Len(p)
           last == IF p = <<>> THEN -1 ELSE p[Len(p)].id
           rest == NextMutationBatches(q, last)
           room == MaxPendingWrites - Len(p)
           w == NewWrites(q, r)
<1>1. /\ p \in Seq(Batch) /\ n \in Nat /\ n <= Len(q) /\ n <= MaxPendingWrites
      /\ n = 0 <=> p = <<>>
      /\ \A i \in DOMAIN p : p[i] = q[i]
      /\ Len(q) \in Nat
  BY EmptySeq DEF Begins, RemoteState
<1>2. last = IF n = 0 THEN -1 ELSE q[n].id
  BY <1>1
<1>3. /\ rest \in Seq(Batch) /\ Len(rest) = Len(q) - n
      /\ \A i \in 1..Len(rest) : rest[i] = q[n + i]
  <2> HIDE DEF n, last
  <2> QED BY <1>1, <1>2, NextBatches
<1>4. w = IF Len(rest) <= room THEN rest ELSE SubSeq(rest, 1, room)
  BY DEF NewWrites
<1>5. room \in Nat
  BY <1>1
<1>a. n = Len(p) /\ room = MaxPendingWrites - n
  OBVIOUS
<1> HIDE DEF p, n, w, rest, room
<1>6. /\ w \in Seq(Batch) /\ Len(w) <= room /\ Len(w) <= Len(rest)
      /\ Len(w) = room \/ Len(w) = Len(rest)
      /\ \A i \in 1..Len(w) : w[i] = rest[i]
  <2>1. CASE Len(rest) <= room
    BY <1>3, <1>4, <2>1
  <2>2. CASE ~(Len(rest) <= room)
    <3>1. room <= Len(rest) /\ Len(rest) \in Nat /\ 1 <= room + 1
      BY <1>3, <1>5, <2>2
    <3>2. /\ w \in Seq(Batch)
          /\ Len(w) = room - 1 + 1
          /\ \A i \in 1..Len(w) : w[i] = rest[1 + i - 1]
      BY <1>3, <1>4, <1>5, <2>2, <3>1, PartOfSeq
    <3> QED BY <1>5, <3>1, <3>2
  <2> QED BY <2>1, <2>2
<1>7. /\ p \o w \in Seq(Batch) /\ Len(p \o w) = n + Len(w)
      /\ \A i \in 1..Len(p \o w) : (p \o w)[i] = IF i <= n THEN p[i] ELSE w[i - n]
  BY <1>1, <1>6, <1>a, ConcatProperties
<1>8. \A i \in 1..Len(p \o w) : (p \o w)[i] = q[i]
  <2> SUFFICES ASSUME NEW i \in 1..Len(p \o w)
               PROVE  (p \o w)[i] = q[i]
    OBVIOUS
  <2>1. CASE i <= n
    BY <1>1, <1>7, <2>1
  <2>2. CASE i > n
    <3>1. i - n \in 1..Len(w) /\ n + (i - n) = i
      BY <1>1, <1>6, <1>7, <2>2
    <3>2. w[i - n] = rest[i - n] /\ i - n \in 1..Len(rest)
      BY <1>1, <1>3, <1>6, <3>1
    <3>3. w[i - n] = q[i]
      BY <1>3, <3>1, <3>2
    <3> QED BY <1>1, <1>7, <2>2, <3>3
  <2> QED BY <1>1, <2>1, <2>2
<1>9. Len(p \o w) <= MaxPendingWrites /\ Len(p \o w) <= Len(q)
  BY <1>1, <1>3, <1>6, <1>7, <1>a
<1>10. Len(p \o w) = MaxPendingWrites \/ Len(p \o w) = Len(q)
  BY <1>1, <1>3, <1>5, <1>6, <1>7, <1>a
<1> QED BY <1>6, <1>7, <1>8, <1>9, <1>10 DEF Begins, Full, p, w

----------------------------------------------------------------------------
(* The stream.  A handler passes its record through several functions; what *)
(* holds all the way through is Calm.                                       *)

\* A token is awaited just while the stream starts, and nothing is on the wire
\* of a stream that is not open.
Calm(r) ==
    /\ r \in RemoteState
    /\ "current" \in r.tokens <=> r.state = "starting"
    /\ r.idle => r.state = "open" /\ r.pipeline = <<>>
    /\ r.state # "open" => r.sent = <<>> /\ r.replies = <<>> /\ r.status = "none"
    /\ IsStarted(r) /\ ~r.handshake => r.pipeline # <<>>

\* What is on the wire of an open stream: the handshake and its answer, later
\* answers to the first writes of the pipeline, followed by the other writes
\* unless the server has refused one.
Wire(r) ==
    r.state = "open" =>
        IF r.handshake
        THEN /\ \A i \in DOMAIN r.replies : r.replies[i] = r.pipeline[i].op
             /\ IF r.status = "permanent"
                THEN Len(r.pipeline) = Len(r.replies) + 1 + Len(r.sent)
                ELSE /\ Len(r.pipeline) = Len(r.replies) + Len(r.sent)
                     /\ \A i \in DOMAIN r.sent :
                          r.sent[i] = r.pipeline[Len(r.replies) + i]
        ELSE /\ Len(r.replies) + Len(r.sent) <= 1
             /\ \A i \in DOMAIN r.replies : r.replies[i] = 0
             /\ \A i \in DOMAIN r.sent : r.sent[i] = Handshake
             /\ r.status = "permanent" => r.sent = <<>> /\ r.replies = <<>>
             /\ r.status = "none" => r.sent # <<>> \/ r.replies # <<>>

\* A closed stream is calm and silent.
LEMMA CloseCalms ==
    ASSUME NEW r \in RemoteState, NEW graceful \in BOOLEAN
    PROVE  /\ Calm(Close(r, graceful)) /\ Wire(Close(r, graceful))
           /\ Close(r, graceful).state = IF graceful THEN "initial" ELSE "error"
           /\ Close(r, graceful).pipeline = r.pipeline
           /\ Close(r, graceful).handshake = r.handshake
<1>1. <<>> \in Seq(Batch \cup {Handshake}) /\ <<>> \in Seq(Nat)
  BY EmptySeq
<1>2. CASE graceful
  <2>1. Close(r, graceful) \in RemoteState
    BY <1>1, <1>2 DEF Close, RemoteState
  <2> QED BY <1>2, <2>1 DEF Close, Calm, Wire, IsStarted, RemoteState
<1>3. CASE ~graceful
  <2>1. Close(r, graceful) \in RemoteState
    BY <1>1, <1>3 DEF Close, RemoteState
  <2> QED BY <1>3, <2>1 DEF Close, Calm, Wire, IsStarted, RemoteState
<1> QED BY <1>2, <1>3

\* What the concatenation of two sequences contains.
LEMMA Concat ==
    ASSUME NEW S, NEW s \in Seq(S), NEW t \in Seq(S)
    PROVE  /\ s \o t \in Seq(S) /\ Len(s \o t) = Len(s) + Len(t)
           /\ \A i \in 1..Len(s) : (s \o t)[i] = s[i]
           /\ \A i \in 1..Len(t) : (s \o t)[Len(s) + i] = t[i]
<1>1. /\ s \o t \in Seq(S) /\ Len(s \o t) = Len(s) + Len(t)
      /\ \A i \in 1..Len(s) + Len(t) :
           (s \o t)[i] = IF i <= Len(s) THEN s[i] ELSE t[i - Len(s)]
  BY ConcatProperties
<1>2. Len(s) \in Nat /\ Len(t) \in Nat
  OBVIOUS
<1>3. \A i \in 1..Len(s) : (s \o t)[i] = s[i]
  BY <1>1, <1>2
<1>4. ASSUME NEW i \in 1..Len(t)
      PROVE  (s \o t)[Len(s) + i] = t[i]
  <2>1. Len(s) + i \in 1..Len(s) + Len(t) /\ ~(Len(s) + i <= Len(s)) /\ (Len(s) + i) - Len(s) = i
    BY <1>2
  <2> QED BY <1>1, <2>1
<1> QED BY <1>1, <1>3, <1>4

\* New batches are written just after those on the wire.
LEMMA AddKeeps ==
    ASSUME NEW r, Calm(r), Wire(r), NEW b \in Seq(Batch)
    PROVE  LET a == AddToWritePipeline(r, b) IN
           /\ Calm(a) /\ Wire(a)
           /\ a.pipeline = r.pipeline \o b
           /\ a.state = r.state /\ a.handshake = r.handshake
           /\ a.replies = r.replies /\ a.status = r.status
<1> DEFINE a == AddToWritePipeline(r, b)
           p == r.pipeline
<1>1. /\ r \in RemoteState /\ p \in Seq(Batch) /\ r.sent \in Seq(Batch \cup {Handshake})
      /\ b \in Seq(Batch \cup {Handshake}) /\ r.replies \in Seq(Nat)
      /\ r.handshake \in BOOLEAN
  BY DEF Calm, RemoteState
<1>2. /\ p \o b \in Seq(Batch) /\ Len(p \o b) = Len(p) + Len(b)
      /\ \A i \in 1..Len(p) : (p \o b)[i] = p[i]
      /\ \A i \in 1..Len(b) : (p \o b)[Len(p) + i] = b[i]
  BY <1>1, Concat
<1>3. CASE r.state = "open" /\ r.handshake /\ b # <<>>
  <2> DEFINE s == r.sent \o b
  <2>1. /\ s \in Seq(Batch \cup {Handshake}) /\ Len(s) = Len(r.sent) + Len(b)
        /\ \A i \in 1..Len(r.sent) : s[i] = r.sent[i]
        /\ \A i \in 1..Len(b) : s[Len(r.sent) + i] = b[i]
    BY <1>1, Concat
  <2>2. a = [r EXCEPT !.pipeline = p \o b, !.sent = s, !.idle = FALSE]
    BY <1>3, Zenon DEF AddToWritePipeline
  <2> HIDE DEF a, s
  <2>3. /\ a \in RemoteState /\ a.pipeline = p \o b /\ a.sent = s /\ a.idle = FALSE
        /\ a.state = r.state /\ a.handshake = r.handshake /\ a.tokens = r.tokens
        /\ a.replies = r.replies /\ a.status = r.status
    BY <1>1, <1>2, <2>1, <2>2 DEF RemoteState
  <2>4. Calm(a)
    BY <1>3, <2>3 DEF Calm, IsStarted
  <2> DEFINE np == Len(p)
             ns == Len(r.sent)
             nr == Len(r.replies)
             nb == Len(b)
  <2>5. /\ np \in Nat /\ ns \in Nat /\ nr \in Nat /\ nb \in Nat
        /\ DOMAIN r.replies = 1..nr /\ DOMAIN r.sent = 1..ns
        /\ DOMAIN s = 1..Len(s) /\ Len(s) = ns + nb /\ Len(p \o b) = np + nb
    BY <1>1, <1>2, <2>1
  <2>6. /\ \A i \in DOMAIN r.replies : r.replies[i] = p[i].op
        /\ r.status # "permanent" =>
             \A i \in DOMAIN r.sent : r.sent[i] = p[Len(r.replies) + i]
    BY <1>3 DEF Wire
  <2>7. IF r.status = "permanent" THEN np = nr + 1 + ns ELSE np = nr + ns
    BY <1>3 DEF Wire
  <2> HIDE DEF np, ns, nr, nb, p
  <2>8. nr <= np
    BY <2>5, <2>7
  <2>9. ASSUME NEW i \in DOMAIN r.replies
        PROVE  r.replies[i] = (p \o b)[i].op
    <3>1. i \in 1..np
      BY <2>5, <2>8
    <3> QED BY <1>2, <2>6, <3>1 DEF np
  <2>10. ASSUME r.status # "permanent", NEW i \in DOMAIN s
         PROVE  s[i] = (p \o b)[nr + i]
    <3>1. CASE i <= ns
      <4>1. i \in DOMAIN r.sent /\ i \in 1..ns /\ nr + i \in 1..np
        BY <2>5, <2>7, <2>10, <3>1
      <4>2. s[i] = r.sent[i] /\ r.sent[i] = p[nr + i]
        BY <2>1, <2>6, <2>10, <4>1 DEF nr, ns
      <4>3. (p \o b)[nr + i] = p[nr + i]
        BY <1>2, <4>1 DEF np
      <4> QED BY <4>2, <4>3
    <3>2. CASE ~(i <= ns)
      <4>1. i - ns \in 1..nb /\ ns + (i - ns) = i /\ np + (i - ns) = nr + i
        BY <2>5, <2>7, <2>10, <3>2
      <4>2. s[ns + (i - ns)] = b[i - ns]
        BY <2>1, <4>1 DEF ns, nb
      <4>3. (p \o b)[np + (i - ns)] = b[i - ns]
        BY <1>2, <4>1 DEF np, nb
      <4> QED BY <4>1, <4>2, <4>3
    <3> QED BY <3>1, <3>2
  <2>11. Wire(a)
    <3>1. CASE r.status = "permanent"
      <4>1. Len(p \o b) = nr + 1 + Len(s)
        BY <2>5, <2>7, <3>1
      <4> QED BY <1>3, <2>3, <2>9, <3>1, <4>1 DEF Wire, nr
    <3>2. CASE r.status # "permanent"
      <4>1. Len(p \o b) = nr + Len(s)
        BY <2>5, <2>7, <3>2
      <4> QED BY <1>3, <2>3, <2>9, <2>10, <3>2, <4>1 DEF Wire, nr
    <3> QED BY <3>1, <3>2
  <2> QED BY <2>3, <2>4, <2>11 DEF a, p
<1>4. CASE ~(r.state = "open" /\ r.handshake /\ b # <<>>)
  <2>1. a = [r EXCEPT !.pipeline = p \o b]
    BY <1>4, Zenon DEF AddToWritePipeline
  <2> HIDE DEF a
  <2>2. /\ a \in RemoteState /\ a.pipeline = p \o b /\ a.sent = r.sent /\ a.idle = r.idle
        /\ a.state = r.state /\ a.handshake = r.handshake /\ a.tokens = r.tokens
        /\ a.replies = r.replies /\ a.status = r.status
    BY <1>1, <1>2, <2>1 DEF RemoteState
  <2>3. b = <<>> => p \o b = p
    BY <1>1, ConcatEmptySeq
  <2>4. p # <<>> => p \o b # <<>>
    <3>1. Len(p) \in Nat /\ Len(b) \in Nat /\ (p # <<>> => Len(p) > 0)
      BY <1>1, EmptySeq
    <3> QED BY <1>2, <3>1
  <2>5. Calm(a)
    BY <1>4, <2>2, <2>3, <2>4 DEF Calm, IsStarted
  <2>6. Wire(a)
    <3>1. CASE b = <<>>
      <4>1. a.pipeline = r.pipeline
        BY <2>2, <2>3, <3>1
      <4> QED BY <2>2, <4>1 DEF Wire
    <3>2. CASE b # <<>>
      <4>1. r.state = "open" => ~r.handshake
        BY <1>4, <3>2
      <4> QED BY <2>2, <4>1 DEF Wire
    <3> QED BY <3>1, <3>2
  <2> QED BY <2>2, <2>5, <2>6 DEF a
<1> QED BY <1>3, <1>4

\* The idle timer and a start of the stream change neither the pipeline nor
\* what is on the wire.
LEMMA MarkIdleKeeps ==
    ASSUME NEW r, Calm(r), Wire(r)
    PROVE  LET a == MarkIdle(r) IN
           /\ Calm(a) /\ Wire(a)
           /\ a.pipeline = r.pipeline /\ a.state = r.state
           /\ a.handshake = r.handshake /\ a.replies = r.replies /\ a.status = r.status
<1> DEFINE a == MarkIdle(r)
           i == r.idle \/ (r.pipeline = <<>> /\ r.state = "open")
<1>1. r \in RemoteState /\ i \in BOOLEAN
  BY DEF Calm
<1>2. a = [r EXCEPT !.idle = i]
  BY Zenon DEF MarkIdle
<1>3. i => r.state = "open" /\ r.pipeline = <<>>
  BY DEF Calm
<1> HIDE DEF a, i
<1>4. /\ a \in RemoteState /\ a.idle = i /\ a.pipeline = r.pipeline /\ a.sent = r.sent
      /\ a.state = r.state /\ a.handshake = r.handshake /\ a.tokens = r.tokens
      /\ a.replies = r.replies /\ a.status = r.status
  BY <1>1, <1>2 DEF RemoteState
<1>5. Calm(a) /\ Wire(a)
  BY <1>3, <1>4 DEF Calm, Wire, IsStarted
<1> QED BY <1>4, <1>5 DEF a

\* Start leads from a stopped stream to one that waits for its token or delay.
LEMMA StartKeeps ==
    ASSUME NEW r, Calm(r), Wire(r), ~IsStarted(r), r.pipeline # <<>>
    PROVE  LET a == Start(r) IN
           /\ Calm(a) /\ Wire(a) /\ IsStarted(a) /\ a.state # "open"
           /\ a.pipeline = r.pipeline
           /\ a.handshake = r.handshake /\ a.replies = r.replies /\ a.status = r.status
<1> DEFINE a == Start(r)
<1>1. r \in RemoteState
  BY DEF Calm
<1>2. CASE r.state = "error"
  <2>1. a = [r EXCEPT !.state = "backoff"]
    BY <1>2, Zenon DEF Start
  <2> HIDE DEF a
  <2>2. /\ a \in RemoteState /\ a.state = "backoff"
        /\ a.idle = r.idle /\ a.pipeline = r.pipeline /\ a.sent = r.sent
        /\ a.handshake = r.handshake /\ a.tokens = r.tokens
        /\ a.replies = r.replies /\ a.status = r.status
    BY <1>1, <2>1 DEF RemoteState
  <2>3. Calm(a) /\ Wire(a) /\ IsStarted(a)
    BY <1>2, <2>2 DEF Calm, Wire, IsStarted
  <2> QED BY <2>2, <2>3 DEF a
<1>3. CASE r.state # "error"
  <2>1. a = [r EXCEPT !.state = "starting", !.tokens = @ \cup {"current"}]
    BY <1>3, Zenon DEF Start
  <2> HIDE DEF a
  <2>2. /\ a \in RemoteState /\ a.state = "starting"
        /\ a.idle = r.idle /\ a.pipeline = r.pipeline /\ a.sent = r.sent
        /\ a.handshake = r.handshake /\ a.tokens = r.tokens \cup {"current"}
        /\ a.replies = r.replies /\ a.status = r.status
    BY <1>1, <2>1 DEF RemoteState
  <2>3. Calm(a) /\ Wire(a) /\ IsStarted(a)
    BY <1>3, <2>2 DEF Calm, Wire, IsStarted
  <2> QED BY <2>2, <2>3 DEF a
<1> QED BY <1>2, <1>3

\* After it the stream is started if there is something to write.
LEMMA StartIfNeededKeeps ==
    ASSUME NEW r, Calm(r), Wire(r)
    PROVE  LET a == StartIfNeeded(r) IN
           /\ Calm(a) /\ Wire(a)
           /\ a.pipeline # <<>> => IsStarted(a)
           /\ ~IsStarted(r) => a.state # "open" /\ (IsStarted(a) => a.pipeline # <<>>)
           /\ IsStarted(r) => a = r
           /\ a.pipeline = r.pipeline
           /\ a.handshake = r.handshake /\ a.replies = r.replies /\ a.status = r.status
<1>1. CASE ~IsStarted(r) /\ r.pipeline # <<>>
  BY <1>1, StartKeeps DEF StartIfNeeded
<1>2. CASE ~(~IsStarted(r) /\ r.pipeline # <<>>)
  BY <1>2 DEF StartIfNeeded, IsStarted
<1> QED BY <1>1, <1>2

\* FillWritePipeline ends with a stream that runs if there is something to
\* write, and a pipeline that begins the queue.
LEMMA FillKeeps ==
    ASSUME NEW r, Calm(r), Wire(r), NEW q \in Seq(Batch), Ascending(q),
           Begins(r.pipeline, q)
    PROVE  LET a == FillWritePipeline(q, r) IN
           /\ Calm(a) /\ Wire(a) /\ Begins(a.pipeline, q) /\ Full(a.pipeline, q)
           /\ a.pipeline # <<>> => IsStarted(a)
           /\ ~IsStarted(r) => a.state # "open" /\ (IsStarted(a) => a.pipeline # <<>>)
           /\ IsStarted(r) => a.state = r.state
           /\ a.handshake = r.handshake /\ a.replies = r.replies /\ a.status = r.status
           /\ \A i \in DOMAIN r.pipeline : i \in DOMAIN a.pipeline
                                           /\ a.pipeline[i] = r.pipeline[i]
<1> DEFINE b == NewWrites(q, r)
           r1 == AddToWritePipeline(r, b)
           r2 == MarkIdle(r1)
           a == StartIfNeeded(r2)
<1>1. r \in RemoteState /\ r.pipeline \in Seq(Batch)
  BY DEF Calm, RemoteState
<1>2. b \in Seq(Batch) /\ Begins(r.pipeline \o b, q) /\ Full(r.pipeline \o b, q)
  BY <1>1, NewWritesContinue
<1>3. FillWritePipeline(q, r) = a
  BY Zenon DEF FillWritePipeline
<1> HIDE DEF b
<1>4. /\ Calm(r1) /\ Wire(r1) /\ r1.pipeline = r.pipeline \o b
      /\ r1.state = r.state /\ r1.handshake = r.handshake
      /\ r1.replies = r.replies /\ r1.status = r.status
  BY <1>2, AddKeeps
<1> HIDE DEF r1
<1>5. /\ Calm(r2) /\ Wire(r2) /\ r2.pipeline = r1.pipeline
      /\ r2.state = r1.state /\ r2.handshake = r1.handshake
      /\ r2.replies = r1.replies /\ r2.status = r1.status
  BY <1>4, MarkIdleKeeps
<1> HIDE DEF r2
<1>6. /\ Calm(a) /\ Wire(a)
      /\ a.pipeline # <<>> => IsStarted(a)
      /\ ~IsStarted(r2) => a.state # "open" /\ (IsStarted(a) => a.pipeline # <<>>)
      /\ IsStarted(r2) => a = r2
      /\ a.pipeline = r2.pipeline /\ a.handshake = r2.handshake
      /\ a.replies = r2.replies /\ a.status = r2.status
  BY <1>5, StartIfNeededKeeps
<1> HIDE DEF a
<1>7. IsStarted(r2) <=> IsStarted(r)
  BY <1>4, <1>5 DEF IsStarted
<1>8. \A i \in DOMAIN r.pipeline : i \in DOMAIN (r.pipeline \o b)
                                   /\ (r.pipeline \o b)[i] = r.pipeline[i]
  <2>1. /\ Len(r.pipeline \o b) = Len(r.pipeline) + Len(b)
        /\ r.pipeline \o b \in Seq(Batch)
        /\ \A i \in 1..Len(r.pipeline) : (r.pipeline \o b)[i] = r.pipeline[i]
    BY <1>1, <1>2, Concat
  <2>2. Len(r.pipeline) \in Nat /\ Len(b) \in Nat
    BY <1>1, <1>2
  <2> QED BY <1>1, <2>1, <2>2
<1> QED BY <1>2, <1>3, <1>4, <1>5, <1>6, <1>7, <1>8

\* What holds of RemoteStore between two handlers.
RemoteInv(r) ==
    /\ Calm(r)
    /\ Wire(r)
    /\ r.handshake => r.state = "open"
    /\ r.pipeline # <<>> => IsStarted(r)

\* A stream that is calm, is not open and runs only for a reason may drop its
\* flag, which is what the end of a call does.
LEMMA HandshakeOverEnds ==
    ASSUME NEW r, Calm(r), r.state # "open",
           IsStarted(r) <=> r.pipeline # <<>>
    PROVE  LET a == HandshakeOver(r) IN
           /\ RemoteInv(a) /\ ~a.handshake
           /\ a.pipeline = r.pipeline /\ a.state = r.state /\ a.replies = <<>>
<1> DEFINE a == HandshakeOver(r)
<1>1. a = [r EXCEPT !.handshake = FALSE] /\ r \in RemoteState
  BY Zenon DEF HandshakeOver, Calm
<1> HIDE DEF a
<1>2. /\ a \in RemoteState /\ a.handshake = FALSE
      /\ a.state = r.state /\ a.idle = r.idle /\ a.pipeline = r.pipeline
      /\ a.sent = r.sent /\ a.tokens = r.tokens
      /\ a.replies = r.replies /\ a.status = r.status
  BY <1>1 DEF RemoteState
<1>3. Calm(a)
  BY <1>2 DEF Calm, IsStarted
<1>4. Wire(a) /\ (a.pipeline # <<>> => IsStarted(a)) /\ a.replies = <<>>
  BY <1>2 DEF Calm, Wire, IsStarted
<1> QED BY <1>2, <1>3, <1>4 DEF RemoteInv, a

\* A graceful stop leaves nothing of the call.
LEMMA StopKeeps ==
    ASSUME NEW r, RemoteInv(r)
    PROVE  LET a == Stop(r) IN
           /\ Calm(a) /\ Wire(a) /\ ~a.handshake /\ ~IsStarted(a)
           /\ a.pipeline = r.pipeline
<1>1. r \in RemoteState /\ Calm(r) /\ Wire(r)
  BY DEF RemoteInv, Calm
<1>2. CASE IsStarted(r)
  <2> DEFINE c == Close(r, TRUE)
             a == HandshakeOver(c)
  <2>1. Stop(r) = a
    BY <1>2 DEF Stop
  <2>2. Calm(c) /\ c.state = "initial" /\ c.pipeline = r.pipeline
    BY <1>1, CloseCalms
  <2>3. a = [c EXCEPT !.handshake = FALSE] /\ c \in RemoteState
    BY <2>2, Zenon DEF HandshakeOver, Calm
  <2> HIDE DEF a, c
  <2>4. /\ a \in RemoteState /\ a.handshake = FALSE
        /\ a.state = c.state /\ a.idle = c.idle /\ a.pipeline = c.pipeline
        /\ a.sent = c.sent /\ a.tokens = c.tokens
        /\ a.replies = c.replies /\ a.status = c.status
    BY <2>3 DEF RemoteState
  <2>5. Calm(a) /\ Wire(a) /\ ~IsStarted(a)
    BY <2>2, <2>4 DEF Calm, Wire, IsStarted
  <2> QED BY <2>1, <2>2, <2>4, <2>5
<1>3. CASE ~IsStarted(r)
  BY <1>1, <1>3 DEF Stop, RemoteInv, IsStarted
<1> QED BY <1>2, <1>3

\* A restart of the network begins again with the given queue.
LEMMA RestartKeeps ==
    ASSUME NEW r, RemoteInv(r), NEW q \in Seq(Batch), Ascending(q)
    PROVE  LET a == RestartNetwork(q, r) IN
           /\ RemoteInv(a) /\ Begins(a.pipeline, q) /\ Full(a.pipeline, q)
           /\ ~a.handshake /\ a.replies = <<>>
<1> DEFINE b == Stop(r)
           c == [b EXCEPT !.pipeline = <<>>]
           d == InhibitBackoff(c)
           a == FillWritePipeline(q, d)
<1>1. RestartNetwork(q, r) = a
  BY Zenon DEF RestartNetwork
<1>2. Calm(b) /\ ~b.handshake /\ ~IsStarted(b)
  BY StopKeeps
<1> HIDE DEF b
<1>3. /\ b \in RemoteState /\ "current" \notin b.tokens /\ ~b.idle
      /\ b.sent = <<>> /\ b.replies = <<>> /\ b.status = "none"
  BY <1>2 DEF Calm, IsStarted
<1>4. <<>> \in Seq(Batch) /\ Len(<<>>) = 0
  BY EmptySeq
<1>5. c \in RemoteState /\ c.pipeline = <<>> /\ c.handshake = b.handshake
      /\ c.tokens = b.tokens /\ c.idle = b.idle
      /\ c.sent = b.sent /\ c.replies = b.replies /\ c.status = b.status
  BY <1>3, <1>4 DEF RemoteState
<1>6. d = [c EXCEPT !.state = "initial"]
  BY Zenon DEF InhibitBackoff
<1> HIDE DEF c, d
<1>7. /\ d \in RemoteState /\ d.state = "initial" /\ d.pipeline = <<>>
      /\ d.handshake = b.handshake /\ d.tokens = b.tokens /\ d.idle = b.idle
      /\ d.sent = b.sent /\ d.replies = b.replies /\ d.status = b.status
  BY <1>5, <1>6 DEF RemoteState
<1>8. Calm(d) /\ Wire(d) /\ ~IsStarted(d)
  BY <1>3, <1>7 DEF Calm, Wire, IsStarted
<1>9. Begins(d.pipeline, q)
  BY <1>4, <1>7 DEF Begins
<1>10. /\ Calm(a) /\ Wire(a) /\ Begins(a.pipeline, q) /\ Full(a.pipeline, q)
       /\ a.pipeline # <<>> => IsStarted(a)
       /\ a.handshake = d.handshake /\ a.replies = d.replies
  BY <1>8, <1>9, FillKeeps
<1> HIDE DEF a
<1> QED BY <1>1, <1>2, <1>3, <1>7, <1>10 DEF RemoteInv

\* So does a new process.
LEMMA ReopenKeeps ==
    ASSUME NEW q \in Seq(Batch), Ascending(q)
    PROVE  LET a == FillWritePipeline(q, Disconnected) IN
           /\ RemoteInv(a) /\ Begins(a.pipeline, q) /\ Full(a.pipeline, q)
           /\ ~a.handshake /\ a.replies = <<>>
<1> DEFINE d == Disconnected
           a == FillWritePipeline(q, d)
<1>1. <<>> \in Seq(Batch) /\ <<>> \in Seq(Batch \cup {Handshake}) /\ <<>> \in Seq(Nat)
      /\ Len(<<>>) = 0
  BY EmptySeq
<1>2. /\ d \in RemoteState /\ d.pipeline = <<>> /\ ~d.handshake /\ d.replies = <<>>
      /\ Calm(d) /\ Wire(d)
  BY <1>1 DEF Disconnected, RemoteState, Calm, Wire, IsStarted
<1>3. Begins(d.pipeline, q)
  BY <1>1, <1>2 DEF Begins
<1> HIDE DEF d
<1>4. /\ Calm(a) /\ Wire(a) /\ Begins(a.pipeline, q) /\ Full(a.pipeline, q)
      /\ a.pipeline # <<>> => IsStarted(a)
      /\ a.handshake = d.handshake /\ a.replies = d.replies
  BY <1>2, <1>3, FillKeeps
<1> HIDE DEF a
<1> QED BY <1>2, <1>4 DEF RemoteInv, a, d

----------------------------------------------------------------------------
(* The handlers that leave the disk and the pipeline alone. *)

\* The call opens with nothing but the handshake on it.
LEMMA TokenArrivesKeeps ==
    ASSUME RemoteInv(remote), TokenArrives
    PROVE  RemoteInv(remote') /\ remote'.pipeline = remote.pipeline /\ ~remote'.handshake
<1>1. /\ remote \in RemoteState /\ remote.state = "starting" /\ ~remote.handshake
      /\ remote.pipeline # <<>> /\ remote.replies = <<>> /\ remote.status = "none"
      /\ ~remote.idle
  BY DEF RemoteInv, Calm, IsStarted, TokenArrives
<1>2. /\ <<Handshake>> \in Seq(Batch \cup {Handshake})
      /\ DOMAIN <<Handshake>> = 1..1 /\ <<Handshake>>[1] = Handshake
      /\ Len(<<Handshake>>) = 1 /\ Len(<<>>) = 0 /\ DOMAIN <<>> = {}
  BY EmptySeq
<1>3. remote' = [remote EXCEPT !.tokens = @ \ {"current"},
                               !.state = "open", !.sent = <<Handshake>>]
  BY DEF TokenArrives
<1>4. /\ remote' \in RemoteState /\ remote'.state = "open"
      /\ remote'.tokens = remote.tokens \ {"current"}
      /\ remote'.sent = <<Handshake>> /\ remote'.pipeline = remote.pipeline
      /\ remote'.handshake = remote.handshake /\ remote'.idle = remote.idle
      /\ remote'.replies = remote.replies /\ remote'.status = remote.status
  BY <1>1, <1>2, <1>3 DEF RemoteState
<1>5. Calm(remote')
  BY <1>1, <1>4 DEF Calm, IsStarted
<1>6. Wire(remote')
  BY <1>1, <1>2, <1>4 DEF Wire
<1> QED BY <1>1, <1>4, <1>5, <1>6 DEF RemoteInv, IsStarted

\* A token that comes too late changes nothing else.
LEMMA StaleTokenArrivesKeeps ==
    ASSUME RemoteInv(remote), StaleTokenArrives
    PROVE  /\ RemoteInv(remote') /\ remote'.pipeline = remote.pipeline
           /\ remote'.handshake = remote.handshake /\ remote'.replies = remote.replies
           /\ remote'.status = remote.status
<1>1. remote \in RemoteState
  BY DEF RemoteInv, Calm
<1>2. remote' = [remote EXCEPT !.tokens = @ \ {"stale"}]
  BY DEF StaleTokenArrives
<1>3. /\ remote' \in RemoteState /\ remote'.state = remote.state
      /\ remote'.tokens = remote.tokens \ {"stale"}
      /\ remote'.sent = remote.sent /\ remote'.pipeline = remote.pipeline
      /\ remote'.handshake = remote.handshake /\ remote'.idle = remote.idle
      /\ remote'.replies = remote.replies /\ remote'.status = remote.status
  BY <1>1, <1>2 DEF RemoteState
<1>4. Calm(remote')
  BY <1>3 DEF RemoteInv, Calm, IsStarted
<1>5. Wire(remote')
  BY <1>3 DEF RemoteInv, Wire
<1> QED BY <1>3, <1>4, <1>5 DEF RemoteInv, IsStarted

\* The whole pipeline is written when the handshake is answered.
LEMMA HandshakeCompleteKeeps ==
    ASSUME RemoteInv(remote), OnWriteStreamHandshakeComplete
    PROVE  /\ RemoteInv(remote') /\ remote'.pipeline = remote.pipeline
           /\ remote'.replies = <<>> /\ remote'.status # "permanent"
<1>1. /\ remote \in RemoteState /\ remote.state = "open" /\ ~remote.handshake
      /\ remote.replies # <<>> /\ remote.pipeline # <<>>
      /\ remote.pipeline \in Seq(Batch) /\ remote.replies \in Seq(Nat)
      /\ remote.sent \in Seq(Batch \cup {Handshake})
      /\ ~remote.idle
  BY DEF RemoteInv, Calm, RemoteState, OnWriteStreamHandshakeComplete, IsStarted
<1>2. /\ Len(remote.replies) + Len(remote.sent) <= 1 /\ remote.status # "permanent"
  BY <1>1 DEF RemoteInv, Wire
<1>3. /\ Len(remote.replies) \in Nat \ {0} /\ Len(remote.sent) \in Nat
      /\ Tail(remote.replies) \in Seq(Nat)
      /\ Len(Tail(remote.replies)) = Len(remote.replies) - 1
      /\ Len(remote.pipeline) \in Nat
  BY <1>1, EmptySeq, HeadTailProperties
<1>4. Len(remote.sent) = 0 /\ Len(Tail(remote.replies)) = 0
  <2> DEFINE n == Len(remote.replies)
             m == Len(remote.sent)
             k == Len(Tail(remote.replies))
  <2>1. n + m <= 1 /\ n \in Nat \ {0} /\ m \in Nat /\ k = n - 1
    BY <1>2, <1>3, Zenon
  <2> HIDE DEF n, m, k
  <2>2. m = 0 /\ k = 0
    BY <2>1
  <2> QED BY <2>2 DEF m, k
<1>5. remote.sent = <<>> /\ Tail(remote.replies) = <<>>
  <2>1. remote.sent = <<>>
    BY <1>1, <1>4, NoneIsEmpty
  <2> DEFINE t == Tail(remote.replies)
  <2>2. t \in Seq(Nat) /\ Len(t) = 0
    BY <1>3, <1>4
  <2> HIDE DEF t
  <2>3. t = <<>>
    BY <2>2, NoneIsEmpty
  <2> QED BY <2>1, <2>3 DEF t
<1>6. remote.sent \o remote.pipeline = remote.pipeline
  BY <1>1, <1>5, ConcatEmptySeq
<1>7. remote.pipeline \in Seq(Batch \cup {Handshake})
  BY <1>1
<1>8. remote' = [remote EXCEPT !.replies = <<>>, !.handshake = TRUE,
                               !.sent = remote.pipeline,
                               !.idle = FALSE]
  <2>1. remote' = [remote EXCEPT !.replies = Tail(remote.replies), !.handshake = TRUE,
                                 !.sent = remote.sent \o remote.pipeline,
                                 !.idle = remote.idle /\ remote.pipeline = <<>>]
    BY Zenon DEF OnWriteStreamHandshakeComplete
  <2>2. (remote.idle /\ remote.pipeline = <<>>) = FALSE
    BY <1>1
  <2> QED BY <1>5, <1>6, <2>1, <2>2, Zenon
<1>9. <<>> \in Seq(Nat) /\ Len(<<>>) = 0 /\ DOMAIN <<>> = {}
  BY EmptySeq
<1>10. /\ remote' \in RemoteState /\ remote'.state = remote.state
       /\ remote'.tokens = remote.tokens /\ remote'.sent = remote.pipeline
       /\ remote'.pipeline = remote.pipeline /\ remote'.handshake = TRUE
       /\ remote'.idle = FALSE
       /\ remote'.replies = <<>> /\ remote'.status = remote.status
  BY <1>1, <1>7, <1>8, <1>9 DEF RemoteState
<1>11. Calm(remote')
  BY <1>1, <1>10 DEF RemoteInv, Calm, IsStarted
<1>12. Wire(remote')
  BY <1>1, <1>2, <1>3, <1>9, <1>10 DEF Wire
<1> QED BY <1>1, <1>2, <1>10, <1>11, <1>12 DEF RemoteInv, IsStarted

\* After the end of a call the stream starts again for what is left to write.
LEMMA StreamFinishKeeps ==
    ASSUME RemoteInv(remote), OnStreamFinish
    PROVE  RemoteInv(remote') /\ remote'.pipeline = remote.pipeline /\ ~remote'.handshake
<1> DEFINE c == Close(remote, FALSE)
           a == StartIfNeeded(c)
<1>1. Calm(c) /\ Wire(c) /\ c.state = "error" /\ c.pipeline = remote.pipeline
  BY CloseCalms DEF RemoteInv, Calm
<1>2. remote' = HandshakeOver(a)
  BY DEF OnStreamFinish
<1> HIDE DEF c
<1>3. Calm(a) /\ a.state # "open" /\ (IsStarted(a) <=> a.pipeline # <<>>)
      /\ a.pipeline = c.pipeline
  BY <1>1, StartIfNeededKeeps DEF IsStarted
<1> HIDE DEF a
<1> QED BY <1>1, <1>2, <1>3, HandshakeOverEnds

\* So it does after the token could not be had.
LEMMA TokenFailsKeeps ==
    ASSUME RemoteInv(remote), TokenFails
    PROVE  RemoteInv(remote') /\ remote'.pipeline = remote.pipeline /\ ~remote'.handshake
<1> DEFINE b == [remote EXCEPT !.tokens = @ \ {"current"}]
           c == Close(b, FALSE)
           a == StartIfNeeded(c)
<1>1. remote \in RemoteState /\ remote.state = "starting" /\ ~remote.handshake
  BY DEF RemoteInv, Calm, TokenFails
<1>2. b \in RemoteState /\ b.pipeline = remote.pipeline /\ b.handshake = remote.handshake
  BY <1>1 DEF RemoteState
<1>3. remote' = a
  BY DEF TokenFails
<1> HIDE DEF b
<1>4. /\ Calm(c) /\ Wire(c) /\ c.state = "error" /\ c.pipeline = b.pipeline
      /\ c.handshake = b.handshake
  BY <1>2, CloseCalms
<1> HIDE DEF c
<1>5. /\ Calm(a) /\ Wire(a) /\ (a.pipeline # <<>> => IsStarted(a))
      /\ a.pipeline = c.pipeline /\ a.handshake = c.handshake
  BY <1>4, StartIfNeededKeeps DEF IsStarted
<1> HIDE DEF a
<1> QED BY <1>1, <1>2, <1>3, <1>4, <1>5 DEF RemoteInv

\* The end of the delay asks for a new token.
LEMMA BackoffElapsesKeeps ==
    ASSUME RemoteInv(remote), BackoffElapses
    PROVE  RemoteInv(remote') /\ remote'.pipeline = remote.pipeline /\ ~remote'.handshake
<1> DEFINE b == [remote EXCEPT !.state = "initial"]
<1>1. /\ remote \in RemoteState /\ remote.state = "backoff" /\ ~remote.handshake
      /\ remote.pipeline # <<>> /\ remote.sent = <<>> /\ remote.replies = <<>>
      /\ remote.status = "none" /\ ~remote.idle /\ "current" \notin remote.tokens
  BY DEF RemoteInv, Calm, BackoffElapses, IsStarted
<1>2. /\ b \in RemoteState /\ b.state = "initial" /\ b.pipeline = remote.pipeline
      /\ b.handshake = remote.handshake /\ b.tokens = remote.tokens /\ b.idle = remote.idle
      /\ b.sent = remote.sent /\ b.replies = remote.replies /\ b.status = remote.status
  BY <1>1 DEF RemoteState
<1>3. remote' = Start(b)
  BY DEF BackoffElapses
<1> HIDE DEF b
<1>4. Calm(b) /\ Wire(b) /\ ~IsStarted(b) /\ b.pipeline # <<>>
  BY <1>1, <1>2 DEF Calm, Wire, IsStarted
<1>5. /\ Calm(remote') /\ Wire(remote') /\ IsStarted(remote')
      /\ remote'.pipeline = b.pipeline /\ remote'.handshake = b.handshake
  BY <1>3, <1>4, StartKeeps
<1> QED BY <1>1, <1>2, <1>5 DEF RemoteInv

\* The idle timer stops a stream that has nothing to write.
LEMMA IdleTimeoutKeeps ==
    ASSUME RemoteInv(remote), IdleTimeout
    PROVE  RemoteInv(remote') /\ remote'.pipeline = remote.pipeline /\ ~remote'.handshake
<1>1. remote.pipeline = <<>> /\ remote' = Stop(remote)
  BY DEF RemoteInv, Calm, IdleTimeout
<1> QED BY <1>1, StopKeeps DEF RemoteInv

----------------------------------------------------------------------------
(* The server. *)

\* The head and the tail of a sequence, element by element.
LEMMA HeadTail ==
    ASSUME NEW S, NEW s \in Seq(S), s # <<>>
    PROVE  /\ Len(s) \in Nat \ {0} /\ Head(s) = s[1] /\ Head(s) \in S
           /\ Tail(s) \in Seq(S) /\ Len(Tail(s)) = Len(s) - 1
           /\ \A i \in 1..Len(Tail(s)) : i + 1 \in 1..Len(s) /\ Tail(s)[i] = s[i + 1]
<1>1. /\ Len(s) \in Nat \ {0} /\ Head(s) = s[1] /\ Head(s) \in S
      /\ Tail(s) \in Seq(S) /\ Len(Tail(s)) = Len(s) - 1
      /\ \A i \in 1..Len(Tail(s)) : Tail(s)[i] = s[i + 1]
  BY EmptySeq, HeadTailProperties
<1>2. \A i \in 1..Len(Tail(s)) : i + 1 \in 1..Len(s)
  <2> DEFINE n == Len(s)
             k == Len(Tail(s))
  <2>1. n \in Nat \ {0} /\ k = n - 1
    BY <1>1
  <2> HIDE DEF n, k
  <2>2. \A i \in 1..k : i + 1 \in 1..n
    BY <2>1
  <2> QED BY <2>2 DEF n, k
<1> QED BY <1>1, <1>2

\* What the server has before it: the handshake, or the first write of the
\* pipeline that is not answered.
LEMMA NextSent ==
    ASSUME RemoteInv(remote), remote.sent # <<>>, remote.status = "none"
    PROVE  /\ remote.state = "open"
           /\ Len(remote.sent) \in Nat \ {0} /\ Len(remote.replies) \in Nat
           /\ Tail(remote.sent) \in Seq(Batch \cup {Handshake})
           /\ Len(Tail(remote.sent)) = Len(remote.sent) - 1
           /\ ~remote.handshake =>
                /\ Head(remote.sent) = Handshake
                /\ remote.replies = <<>> /\ Tail(remote.sent) = <<>>
           /\ remote.handshake =>
                /\ Len(remote.pipeline) = Len(remote.replies) + Len(remote.sent)
                /\ Len(remote.replies) + 1 \in DOMAIN remote.pipeline
                /\ Head(remote.sent) = remote.pipeline[Len(remote.replies) + 1]
                /\ \A i \in DOMAIN Tail(remote.sent) :
                     Tail(remote.sent)[i] = remote.pipeline[Len(remote.replies) + 1 + i]
<1> DEFINE p == remote.pipeline
           s == remote.sent
           r == remote.replies
<1>1. /\ p \in Seq(Batch) /\ s \in Seq(Batch \cup {Handshake}) /\ r \in Seq(Nat)
      /\ remote.handshake \in BOOLEAN /\ remote.state = "open"
  BY DEF RemoteInv, Calm, RemoteState
<1>2. IF remote.handshake
      THEN Len(p) = Len(r) + Len(s) /\ \A i \in DOMAIN s : s[i] = p[Len(r) + i]
      ELSE Len(r) + Len(s) <= 1 /\ \A i \in DOMAIN s : s[i] = Handshake
  BY <1>1 DEF RemoteInv, Wire
<1>3. s # <<>>
  OBVIOUS
<1> HIDE DEF p, s, r
<1>4. /\ Len(s) \in Nat \ {0} /\ Head(s) = s[1]
      /\ Tail(s) \in Seq(Batch \cup {Handshake}) /\ Len(Tail(s)) = Len(s) - 1
      /\ \A i \in 1..Len(Tail(s)) : i + 1 \in 1..Len(s) /\ Tail(s)[i] = s[i + 1]
  BY <1>1, <1>3, HeadTail
<1>5. /\ Len(r) \in Nat /\ Len(p) \in Nat /\ DOMAIN s = 1..Len(s) /\ DOMAIN p = 1..Len(p)
      /\ DOMAIN Tail(s) = 1..Len(Tail(s))
  BY <1>1, <1>4
<1> DEFINE nr == Len(r)
           ns == Len(s)
           np == Len(p)
           nt == Len(Tail(s))
<1>6. ns \in Nat \ {0} /\ nr \in Nat /\ np \in Nat /\ nt = ns - 1 /\ 1 \in DOMAIN s
  BY <1>4, <1>5
<1>7. CASE remote.handshake
  <2>1. np = nr + ns
    BY <1>2, <1>7
  <2> HIDE DEF nr, ns, np, nt
  <2>2. nr + 1 \in 1..np
    BY <1>6, <2>1
  <2>3. Head(s) = p[nr + 1]
    BY <1>2, <1>4, <1>6, <1>7 DEF nr
  <2>4. ASSUME NEW i \in DOMAIN Tail(s)
        PROVE  Tail(s)[i] = p[nr + 1 + i]
    <3>1. i + 1 \in DOMAIN s /\ Tail(s)[i] = s[i + 1]
      BY <1>4, <1>5
    <3>2. s[i + 1] = p[nr + (i + 1)]
      BY <1>2, <1>7, <3>1 DEF nr
    <3>3. i \in Nat
      BY <1>5
    <3>4. nr + (i + 1) = nr + 1 + i
      BY <1>6, <3>3
    <3> QED BY <3>1, <3>2, <3>4
  <2>5. np = Len(p) /\ nr = Len(r) /\ ns = Len(s)
    BY DEF np, nr, ns
  <2>6. nr + 1 \in DOMAIN p
    BY <1>5, <2>2, <2>5
  <2> QED BY <1>1, <1>4, <1>5, <1>7, <2>1, <2>3, <2>4, <2>5, <2>6 DEF p, s, r
<1>8. CASE ~remote.handshake
  <2>1. nr + ns <= 1
    BY <1>2, <1>8
  <2>2. Head(s) = Handshake
    BY <1>2, <1>4, <1>6, <1>8
  <2> HIDE DEF nr, ns, np, nt
  <2>3. nr = 0 /\ nt = 0
    BY <1>6, <2>1
  <2>4. r = <<>>
    BY <1>1, <2>3, NoneIsEmpty DEF nr
  <2>5. Tail(s) = <<>>
    <3> DEFINE t == Tail(s)
    <3>1. t \in Seq(Batch \cup {Handshake}) /\ Len(t) = 0
      BY <1>4, <2>3 DEF nt
    <3> HIDE DEF t
    <3>2. t = <<>>
      BY <3>1, NoneIsEmpty
    <3> QED BY <3>2 DEF t
  <2> QED BY <1>1, <1>4, <1>5, <1>8, <2>2, <2>4, <2>5 DEF p, s, r
<1> QED BY <1>7, <1>8

\* The server moves the next message from the wire to the answers.
LEMMA ServerTakesKeeps ==
    ASSUME RemoteInv(remote), ServerTakes
    PROVE  /\ RemoteInv(remote') /\ remote'.pipeline = remote.pipeline
           /\ remote'.handshake = remote.handshake
           /\ remote'.status = remote.status
           /\ remote'.replies = Append(remote.replies, Head(remote.sent).op)
<1> DEFINE o == Head(remote.sent).op
           t == Tail(remote.sent)
           n == Append(remote.replies, o)
<1>1. /\ remote.sent # <<>> /\ remote.status = "none"
      /\ remote' = [remote EXCEPT !.sent = t, !.replies = n]
  BY DEF ServerTakes
<1>2. /\ remote \in RemoteState /\ remote.replies \in Seq(Nat)
      /\ remote.sent \in Seq(Batch \cup {Handshake}) /\ remote.handshake \in BOOLEAN
      /\ remote.pipeline \in Seq(Batch)
  BY DEF RemoteInv, Calm, RemoteState
<1>3. /\ remote.state = "open"
      /\ Len(remote.sent) \in Nat \ {0} /\ Len(remote.replies) \in Nat
      /\ t \in Seq(Batch \cup {Handshake}) /\ Len(t) = Len(remote.sent) - 1
      /\ ~remote.handshake =>
           Head(remote.sent) = Handshake /\ remote.replies = <<>> /\ t = <<>>
      /\ remote.handshake =>
           /\ Len(remote.pipeline) = Len(remote.replies) + Len(remote.sent)
           /\ Len(remote.replies) + 1 \in DOMAIN remote.pipeline
           /\ Head(remote.sent) = remote.pipeline[Len(remote.replies) + 1]
           /\ \A i \in DOMAIN t : t[i] = remote.pipeline[Len(remote.replies) + 1 + i]
  BY <1>1, NextSent
<1>4. o \in Nat
  <2>1. Head(remote.sent) \in Batch \cup {Handshake}
    BY <1>1, <1>2, HeadTail
  <2> QED BY <2>1 DEF Batch, Handshake
<1>5. /\ n \in Seq(Nat) /\ Len(n) = Len(remote.replies) + 1
      /\ n[Len(remote.replies) + 1] = o
      /\ \A i \in 1..Len(remote.replies) : n[i] = remote.replies[i]
  BY <1>2, <1>4, AppendProperties
<1> HIDE DEF t, n
<1>6. /\ remote' \in RemoteState /\ remote'.state = "open"
      /\ remote'.tokens = remote.tokens /\ remote'.sent = t
      /\ remote'.pipeline = remote.pipeline /\ remote'.handshake = remote.handshake
      /\ remote'.idle = remote.idle
      /\ remote'.replies = n /\ remote'.status = "none"
  BY <1>1, <1>2, <1>3, <1>5 DEF RemoteState
<1>7. Calm(remote')
  BY <1>3, <1>6 DEF RemoteInv, Calm, IsStarted
<1>8. Wire(remote')
  <2>1. CASE remote.handshake
    <3>1. \A i \in DOMAIN remote.replies : remote.replies[i] = remote.pipeline[i].op
      BY <1>3, <2>1 DEF RemoteInv, Wire
    <3>2. ASSUME NEW i \in DOMAIN n
          PROVE  n[i] = remote.pipeline[i].op
      <4>1. i \in 1..Len(remote.replies) \/ i = Len(remote.replies) + 1
        BY <1>3, <1>5
      <4>2. CASE i \in 1..Len(remote.replies)
        <5>1. i \in DOMAIN remote.replies
          BY <1>2, <4>2
        <5> QED BY <1>5, <3>1, <4>2, <5>1
      <4>3. CASE i = Len(remote.replies) + 1
        BY <1>3, <1>5, <2>1, <4>3
      <4> QED BY <4>1, <4>2, <4>3
    <3>3. Len(remote.pipeline) = Len(n) + Len(t)
      <4> DEFINE nr == Len(remote.replies)
                 ns == Len(remote.sent)
      <4>1. nr \in Nat /\ ns \in Nat /\ Len(remote.pipeline) = nr + ns
            /\ Len(n) = nr + 1 /\ Len(t) = ns - 1
        BY <1>3, <1>5, <2>1
      <4> HIDE DEF nr, ns
      <4> QED BY <4>1
    <3>4. \A i \in DOMAIN t : t[i] = remote.pipeline[Len(n) + i]
      BY <1>3, <1>5, <2>1
    <3> QED BY <1>6, <2>1, <3>2, <3>3, <3>4 DEF Wire
  <2>2. CASE ~remote.handshake
    <3>1. o = 0
      BY <1>3, <2>2 DEF Handshake
    <3>2. Len(t) = 0 /\ DOMAIN t = {} /\ Len(remote.replies) = 0
      <4>1. Len(<<>>) = 0 /\ DOMAIN <<>> = {}
        BY EmptySeq
      <4> QED BY <1>3, <2>2, <4>1
    <3>3. Len(n) = 1 /\ n[1] = 0 /\ DOMAIN n = 1..1
      BY <1>5, <3>1, <3>2
    <3>4. n # <<>>
      BY <3>3, EmptySeq
    <3> QED BY <1>6, <2>2, <3>2, <3>3, <3>4 DEF Wire
  <2> QED BY <1>2, <2>1, <2>2
<1> QED BY <1>1, <1>3, <1>6, <1>7, <1>8 DEF RemoteInv, IsStarted, n

\* A refusal takes a message off the wire and ends the call.
LEMMA ServerRefusesKeeps ==
    ASSUME RemoteInv(remote), ServerRefuses
    PROVE  /\ RemoteInv(remote') /\ remote'.pipeline = remote.pipeline
           /\ remote'.handshake = remote.handshake
           /\ remote'.replies = remote.replies
<1> DEFINE t == Tail(remote.sent)
<1>1. /\ remote.sent # <<>> /\ remote.status = "none"
      /\ remote' = [remote EXCEPT !.sent = t, !.status = "permanent"]
  BY DEF ServerRefuses
<1>2. remote \in RemoteState /\ remote.handshake \in BOOLEAN
  BY DEF RemoteInv, Calm, RemoteState
<1>3. /\ remote.state = "open"
      /\ Len(remote.sent) \in Nat \ {0} /\ Len(remote.replies) \in Nat
      /\ t \in Seq(Batch \cup {Handshake}) /\ Len(t) = Len(remote.sent) - 1
      /\ ~remote.handshake => remote.replies = <<>> /\ t = <<>>
      /\ remote.handshake => Len(remote.pipeline) = Len(remote.replies) + Len(remote.sent)
  BY <1>1, NextSent
<1> HIDE DEF t
<1>4. /\ remote' \in RemoteState /\ remote'.state = "open"
      /\ remote'.tokens = remote.tokens /\ remote'.sent = t
      /\ remote'.pipeline = remote.pipeline /\ remote'.handshake = remote.handshake
      /\ remote'.idle = remote.idle
      /\ remote'.replies = remote.replies /\ remote'.status = "permanent"
  BY <1>1, <1>2, <1>3 DEF RemoteState
<1>5. Calm(remote')
  BY <1>3, <1>4 DEF RemoteInv, Calm, IsStarted
<1>6. Wire(remote')
  <2>1. CASE remote.handshake
    <3>1. \A i \in DOMAIN remote.replies : remote.replies[i] = remote.pipeline[i].op
      BY <1>3, <2>1 DEF RemoteInv, Wire
    <3>2. Len(remote.pipeline) = Len(remote.replies) + 1 + Len(t)
      <4> DEFINE nr == Len(remote.replies)
                 ns == Len(remote.sent)
      <4>1. nr \in Nat /\ ns \in Nat /\ Len(remote.pipeline) = nr + ns /\ Len(t) = ns - 1
        BY <1>3, <2>1
      <4> HIDE DEF nr, ns
      <4>2. Len(remote.pipeline) = nr + 1 + Len(t)
        BY <4>1
      <4> QED BY <4>2 DEF nr
    <3> QED BY <1>4, <2>1, <3>1, <3>2 DEF Wire
  <2>2. CASE ~remote.handshake
    <3>1. Len(<<>>) = 0 /\ DOMAIN <<>> = {}
      BY EmptySeq
    <3> QED BY <1>3, <1>4, <2>2, <3>1 DEF Wire
  <2> QED BY <1>2, <2>1, <2>2
<1> QED BY <1>3, <1>4, <1>5, <1>6 DEF RemoteInv, IsStarted

\* A broken connection touches nothing that is on it.
LEMMA ConnectionFailsKeeps ==
    ASSUME RemoteInv(remote), ConnectionFails
    PROVE  /\ RemoteInv(remote') /\ remote'.pipeline = remote.pipeline
           /\ remote'.handshake = remote.handshake
           /\ remote'.replies = remote.replies
           /\ remote'.status # "permanent"
<1>1. /\ remote \in RemoteState /\ remote.state = "open" /\ remote.status = "none"
      /\ remote' = [remote EXCEPT !.status = "transient"]
  BY DEF ConnectionFails, RemoteInv, Calm
<1>2. /\ remote' \in RemoteState /\ remote'.state = "open"
      /\ remote'.tokens = remote.tokens /\ remote'.sent = remote.sent
      /\ remote'.pipeline = remote.pipeline /\ remote'.handshake = remote.handshake
      /\ remote'.idle = remote.idle
      /\ remote'.replies = remote.replies /\ remote'.status = "transient"
  BY <1>1 DEF RemoteState
<1>3. Calm(remote')
  BY <1>1, <1>2 DEF RemoteInv, Calm, IsStarted
<1>4. Wire(remote')
  <2>1. Wire(remote) /\ remote.handshake \in BOOLEAN
    BY DEF RemoteInv, Calm, RemoteState
  <2>2. CASE remote.handshake
    <3>1. /\ \A i \in DOMAIN remote.replies : remote.replies[i] = remote.pipeline[i].op
          /\ Len(remote.pipeline) = Len(remote.replies) + Len(remote.sent)
          /\ \A i \in DOMAIN remote.sent :
               remote.sent[i] = remote.pipeline[Len(remote.replies) + i]
      BY <1>1, <2>1, <2>2 DEF Wire
    <3>2. remote'.handshake /\ ~(remote'.status = "permanent")
      BY <1>2, <2>2
    <3>3. /\ \A i \in DOMAIN remote'.replies : remote'.replies[i] = remote'.pipeline[i].op
          /\ Len(remote'.pipeline) = Len(remote'.replies) + Len(remote'.sent)
          /\ \A i \in DOMAIN remote'.sent :
               remote'.sent[i] = remote'.pipeline[Len(remote'.replies) + i]
      BY <1>2, <3>1, Zenon
    <3> QED BY <3>2, <3>3, Zenon DEF Wire
  <2>3. CASE ~remote.handshake
    BY <1>1, <1>2, <2>1, <2>3 DEF Wire
  <2> QED BY <2>1, <2>2, <2>3
<1> QED BY <1>1, <1>2, <1>3, <1>4 DEF RemoteInv, IsStarted

----------------------------------------------------------------------------
(* The disk. *)

\* The ids of a queue ascend and are below the next one; every batch is a
\* write that was made; and a caller who waits waits for a batch on disk.
Disk ==
    /\ \A u \in Users : Ascending(mutationQueue[u])
    /\ \A u \in Users : \A i \in DOMAIN mutationQueue[u] :
         /\ mutationQueue[u][i].id < nextBatchId
         /\ mutationQueue[u][i].op \in DOMAIN author
    /\ \A u \in Users : \A c \in mutationCallbacks[u] :
         \E i \in DOMAIN mutationQueue[u] : mutationQueue[u][i] = c
    /\ Len(told) = Len(author)

Inv ==
    /\ TypeOK
    /\ Disk
    /\ RemoteInv(remote)
    /\ Begins(remote.pipeline, mutationQueue[currentUser])
    /\ Full(remote.pipeline, mutationQueue[currentUser])

\* The queue of the current user, and what is left of it and of the pipeline
\* without the first batch.
LEMMA FirstOfPipeline ==
    ASSUME Inv, remote.pipeline # <<>>
    PROVE  LET q == mutationQueue[currentUser] IN
           /\ q \in Seq(Batch) /\ q # <<>> /\ Head(remote.pipeline) = Head(q)
           /\ Head(q) \in Batch
           /\ RemoveMutationBatch(q, Head(remote.pipeline)) = Tail(q)
           /\ Tail(q) \in Seq(Batch) /\ Ascending(Tail(q))
           /\ Tail(remote.pipeline) \in Seq(Batch)
           /\ Begins(Tail(remote.pipeline), Tail(q))
<1> DEFINE q == mutationQueue[currentUser]
           p == remote.pipeline
<1>1. /\ q \in Seq(Batch) /\ p \in Seq(Batch) /\ p # <<>> /\ Ascending(q)
      /\ Begins(p, q) /\ Len(q) \in Nat
  BY DEF Inv, TypeOK, Disk, RemoteState
<1> HIDE DEF p, q
<1>2. /\ Len(p) \in Nat \ {0} /\ Head(p) = p[1] /\ Tail(p) \in Seq(Batch)
      /\ Len(Tail(p)) = Len(p) - 1
      /\ \A i \in 1..Len(Tail(p)) : i + 1 \in 1..Len(p) /\ Tail(p)[i] = p[i + 1]
  BY <1>1, HeadTail
<1>3. q # <<>> /\ 1 \in DOMAIN p /\ p[1] = q[1]
  <2>1. Len(q) # 0 /\ 1 \in DOMAIN p
    BY <1>1, <1>2 DEF Begins
  <2>2. q # <<>>
    BY <2>1, EmptySeq
  <2> QED BY <1>1, <2>1, <2>2 DEF Begins
<1>4. /\ Len(q) \in Nat \ {0} /\ Head(q) = q[1] /\ Head(q) \in Batch /\ Tail(q) \in Seq(Batch)
      /\ Len(Tail(q)) = Len(q) - 1
      /\ \A i \in 1..Len(Tail(q)) : i + 1 \in 1..Len(q) /\ Tail(q)[i] = q[i + 1]
  BY <1>1, <1>3, HeadTail
<1>5. RemoveMutationBatch(q, Head(q)) = Tail(q) /\ Ascending(Tail(q))
  BY <1>1, <1>3, RemoveFirst
<1>6. Begins(Tail(p), Tail(q))
  <2> DEFINE np == Len(p)
             nq == Len(q)
             tp == Len(Tail(p))
             tq == Len(Tail(q))
  <2>1. np \in Nat \ {0} /\ nq \in Nat \ {0} /\ tp = np - 1 /\ tq = nq - 1
        /\ np <= MaxPendingWrites /\ np <= nq
    BY <1>1, <1>2, <1>4 DEF Begins
  <2> HIDE DEF np, nq, tp, tq
  <2>2. tp <= MaxPendingWrites /\ tp <= tq /\ \A i \in 1..tp : i \in 1..tq
    BY <2>1
  <2>3. DOMAIN Tail(p) = 1..tp /\ DOMAIN p = 1..np
    BY <1>1, <1>2 DEF tp, np
  <2>4. ASSUME NEW i \in 1..tp
        PROVE  Tail(p)[i] = Tail(q)[i]
    <3>1. Tail(p)[i] = p[i + 1] /\ i + 1 \in DOMAIN p
      BY <1>2, <2>3 DEF tp, np
    <3>2. Tail(q)[i] = q[i + 1]
      BY <1>4, <2>2 DEF tq
    <3>3. p[i + 1] = q[i + 1]
      BY <1>1, <3>1 DEF Begins
    <3> QED BY <3>1, <3>2, <3>3
  <2> QED BY <2>2, <2>3, <2>4 DEF Begins, tp, tq
<1> QED BY <1>1, <1>2, <1>3, <1>4, <1>5, <1>6 DEF p, q

\* The disk without the first batch of the current user and its caller.
LEMMA DiskAfterFirst ==
    ASSUME Inv, remote.pipeline # <<>>,
           mutationQueue' = [mutationQueue EXCEPT ![currentUser] =
                               RemoveMutationBatch(mutationQueue[currentUser],
                                                   Head(remote.pipeline))],
           NEW outcome \in {"ok", "error"},
           NotifyUser(Head(remote.pipeline), outcome),
           UNCHANGED <<currentUser, nextBatchId, author, log, refused, faults>>
    PROVE  /\ Disk' /\ mutationQueue' \in [Users -> Seq(Batch)]
           /\ mutationQueue'[currentUser'] = Tail(mutationQueue[currentUser])
           /\ mutationCallbacks' \in [Users -> SUBSET Batch]
           /\ told' \in Seq({"nothing", "ok", "error"})
<1> DEFINE q == mutationQueue[currentUser]
           t == Tail(q)
           b == Head(q)
           waiting == {c \in mutationCallbacks[currentUser] : c.id = b.id}
<1>1. /\ q \in Seq(Batch) /\ q # <<>> /\ b = Head(remote.pipeline) /\ b \in Batch
      /\ t \in Seq(Batch) /\ Ascending(t)
      /\ mutationQueue' = [mutationQueue EXCEPT ![currentUser] = t]
  BY FirstOfPipeline
<1>2. /\ currentUser \in Users /\ mutationQueue \in [Users -> Seq(Batch)]
      /\ mutationCallbacks \in [Users -> SUBSET Batch]
      /\ told \in Seq({"nothing", "ok", "error"}) /\ nextBatchId \in Nat
  BY DEF Inv, TypeOK
<1>3. /\ mutationCallbacks' = [mutationCallbacks EXCEPT ![currentUser] = @ \ waiting]
      /\ told' = [w \in DOMAIN told |->
                    IF \E c \in waiting : c.op = w THEN outcome ELSE told[w]]
  BY <1>1, Zenon DEF NotifyUser
<1>4. Len(t) \in Nat /\ b = q[1]
      /\ \A i \in DOMAIN t : i + 1 \in DOMAIN q /\ t[i] = q[i + 1]
  BY <1>1, HeadTail
<1>5. told' \in Seq({"nothing", "ok", "error"}) /\ Len(told') = Len(told)
  <2> HIDE DEF waiting
  <2>1. DOMAIN told = 1..Len(told) /\ Len(told) \in Nat
    BY <1>2
  <2>2. \A w \in 1..Len(told) : told'[w] \in {"nothing", "ok", "error"}
    BY <1>2, <1>3, <2>1
  <2>3. told' = [w \in 1..Len(told) |-> told'[w]]
    BY <1>3, <2>1
  <2> QED BY <2>1, <2>2, <2>3
<1>6. ASSUME NEW u \in Users, NEW i \in DOMAIN mutationQueue'[u]
      PROVE  /\ mutationQueue'[u][i].id < nextBatchId
             /\ mutationQueue'[u][i].op \in DOMAIN author
  <2> HIDE DEF q, t, b, waiting
  <2>1. CASE u = currentUser
    <3>1. mutationQueue'[u][i] = q[i + 1] /\ i + 1 \in DOMAIN q
      BY <1>1, <1>2, <1>4, <1>6, <2>1
    <3> QED BY <1>2, <2>1, <3>1 DEF Inv, Disk, q
  <2>2. CASE u # currentUser
    BY <1>1, <1>2, <1>6, <2>2 DEF Inv, Disk
  <2> QED BY <2>1, <2>2
<1>7. ASSUME NEW u \in Users, NEW c \in mutationCallbacks'[u]
      PROVE  \E i \in DOMAIN mutationQueue'[u] : mutationQueue'[u][i] = c
  <2>1. CASE u = currentUser
    <3>1. c \in mutationCallbacks[currentUser] /\ c.id # b.id
      BY <1>2, <1>3, <1>7, <2>1
    <3>2. PICK i \in DOMAIN q : q[i] = c
      BY <1>2, <3>1 DEF Inv, Disk
    <3>3. i # 1 /\ i \in 1..Len(q) /\ Len(q) \in Nat \ {0} /\ Len(t) = Len(q) - 1
      BY <1>1, <1>4, <3>1, <3>2, HeadTail
    <3>4. i - 1 \in 1..Len(t) /\ (i - 1) + 1 = i
      <4> DEFINE n == Len(q)
                 k == Len(t)
      <4>1. i # 1 /\ i \in 1..n /\ n \in Nat \ {0} /\ k = n - 1
        BY <3>3
      <4> HIDE DEF n, k
      <4>2. i - 1 \in 1..k /\ (i - 1) + 1 = i
        BY <4>1
      <4> QED BY <4>2 DEF k
    <3>5. i - 1 \in DOMAIN t /\ t[i - 1] = c
      <4> HIDE DEF t, q
      <4>1. DOMAIN t = 1..Len(t)
        BY <1>1
      <4> QED BY <1>4, <3>2, <3>4, <4>1
    <3>6. mutationQueue'[u] = t
      BY <1>1, <1>2, <2>1
    <3> QED BY <3>5, <3>6
  <2>2. CASE u # currentUser
    BY <1>1, <1>2, <1>3, <1>7, <2>2 DEF Inv, Disk
  <2> QED BY <2>1, <2>2
<1> HIDE DEF q, t, b, waiting
<1>8. mutationQueue' \in [Users -> Seq(Batch)] /\ mutationQueue'[currentUser] = t
  BY <1>1, <1>2
<1>9. \A u \in Users : Ascending(mutationQueue'[u])
  <2> SUFFICES ASSUME NEW u \in Users
               PROVE  Ascending(mutationQueue'[u])
    OBVIOUS
  <2>1. CASE u = currentUser
    BY <1>1, <1>8, <2>1
  <2>2. CASE u # currentUser
    BY <1>1, <1>2, <2>2 DEF Inv, Disk
  <2> QED BY <2>1, <2>2
<1>10. mutationCallbacks' \in [Users -> SUBSET Batch]
  BY <1>2, <1>3
<1>11. Disk'
  <2>1. \A u \in Users : Ascending(mutationQueue[u])'
    BY <1>9 DEF Ascending
  <2>2. Len(told') = Len(author')
    BY <1>5 DEF Inv, Disk
  <2> QED BY <1>6, <1>7, <2>1, <2>2 DEF Disk
<1> QED BY <1>5, <1>8, <1>10, <1>11 DEF t, q

\* A new write has the highest id, so it goes to the end of its user's queue.
LEMMA WriteMutationsKeeps ==
    ASSUME Inv, WriteMutations
    PROVE  /\ Inv'
           /\ remote'.handshake = remote.handshake /\ remote'.replies = remote.replies
           /\ remote'.status = remote.status
           /\ \A i \in DOMAIN remote.pipeline :
                i \in DOMAIN remote'.pipeline /\ remote'.pipeline[i] = remote.pipeline[i]
<1> DEFINE op == Len(author) + 1
           b == [id |-> nextBatchId, op |-> op]
           q == mutationQueue[currentUser]
           n == Append(q, b)
<1>1. /\ mutationQueue' = [mutationQueue EXCEPT ![currentUser] = n]
      /\ nextBatchId' = nextBatchId + 1
      /\ mutationCallbacks' =
           [mutationCallbacks EXCEPT ![currentUser] =
              IF \E c \in @ : c.id = b.id THEN @ ELSE @ \cup {b}]
      /\ remote' = FillWritePipeline(n, remote)
      /\ author' = Append(author, currentUser)
      /\ told' = Append(told, "nothing")
      /\ UNCHANGED <<currentUser, log, refused, faults>>
  BY Zenon DEF WriteMutations
<1>2. /\ currentUser \in Users /\ mutationQueue \in [Users -> Seq(Batch)]
      /\ mutationCallbacks \in [Users -> SUBSET Batch]
      /\ told \in Seq({"nothing", "ok", "error"}) /\ nextBatchId \in Nat
      /\ author \in Seq(Users) /\ q \in Seq(Batch) /\ Ascending(q)
      /\ Begins(remote.pipeline, q) /\ Len(told) = Len(author)
  BY DEF Inv, TypeOK, Disk
<1>3. b \in Batch /\ b.id = nextBatchId /\ b.op = op
  BY <1>2 DEF Batch
<1>4. /\ Len(author) \in Nat /\ Len(author') = op /\ author' \in Seq(Users)
      /\ DOMAIN author = 1..Len(author) /\ DOMAIN author' = 1..op
      /\ told' \in Seq({"nothing", "ok", "error"}) /\ Len(told') = op
  <2>1. /\ Len(author) \in Nat /\ Len(author') = op /\ author' \in Seq(Users)
        /\ DOMAIN author = 1..Len(author)
    BY <1>1, <1>2, AppendProperties
  <2>2. told' \in Seq({"nothing", "ok", "error"}) /\ Len(told') = op
    BY <1>1, <1>2, AppendProperties
  <2>3. DOMAIN author' = 1..op
    BY <2>1
  <2> QED BY <2>1, <2>2, <2>3
<1> HIDE DEF op, b
<1>5. /\ n \in Seq(Batch) /\ Len(n) = Len(q) + 1 /\ n[Len(q) + 1] = b
      /\ \A i \in 1..Len(q) : n[i] = q[i]
      /\ Len(q) \in Nat /\ DOMAIN q = 1..Len(q) /\ DOMAIN n = 1..Len(q) + 1
  BY <1>2, <1>3, AppendProperties
<1>6. \A i \in DOMAIN q : q[i].id < nextBatchId /\ q[i].id \in Nat /\ q[i].op \in DOMAIN author
  BY <1>2, IdsOfSeq DEF Inv, Disk
<1> HIDE DEF q, n
<1>7. Ascending(n)
  <2> SUFFICES ASSUME NEW i \in DOMAIN n, NEW j \in DOMAIN n, i < j
               PROVE  n[i].id < n[j].id
    BY DEF Ascending
  <2>1. i \in DOMAIN q /\ n[i] = q[i]
    BY <1>5
  <2>2. CASE j \in DOMAIN q
    BY <1>2, <1>5, <2>1, <2>2 DEF Ascending
  <2>3. CASE j = Len(q) + 1
    BY <1>3, <1>5, <1>6, <2>1, <2>3
  <2> QED BY <1>5, <2>2, <2>3
<1>8. Begins(remote.pipeline, n)
  <2>1. remote.pipeline \in Seq(Batch)
    BY DEF Inv, RemoteInv, Calm, RemoteState
  <2>2. Len(remote.pipeline) \in Nat /\ DOMAIN remote.pipeline = 1..Len(remote.pipeline)
    BY <2>1
  <2> QED BY <1>2, <1>5, <2>2 DEF Begins
<1>9. /\ Calm(remote') /\ Wire(remote')
      /\ Begins(remote'.pipeline, n) /\ Full(remote'.pipeline, n)
      /\ remote'.pipeline # <<>> => IsStarted(remote')
      /\ IsStarted(remote) => remote'.state = remote.state
      /\ remote'.handshake = remote.handshake /\ remote'.replies = remote.replies
      /\ remote'.status = remote.status
      /\ \A i \in DOMAIN remote.pipeline :
           i \in DOMAIN remote'.pipeline /\ remote'.pipeline[i] = remote.pipeline[i]
  BY <1>1, <1>5, <1>7, <1>8, FillKeeps DEF Inv, RemoteInv
<1>10. RemoteInv(remote')
  BY <1>9 DEF Inv, RemoteInv, IsStarted
<1>11. /\ mutationQueue' \in [Users -> Seq(Batch)] /\ mutationQueue'[currentUser'] = n
       /\ mutationCallbacks' \in [Users -> SUBSET Batch]
  <2>1. mutationQueue' \in [Users -> Seq(Batch)] /\ mutationQueue'[currentUser'] = n
    BY <1>1, <1>2, <1>5
  <2>2. \/ mutationCallbacks' = mutationCallbacks
        \/ mutationCallbacks' =
             [mutationCallbacks EXCEPT ![currentUser] = mutationCallbacks[currentUser] \cup {b}]
    BY <1>1, <1>2
  <2> QED BY <1>2, <1>3, <2>1, <2>2
<1>12. TypeOK'
  <2>1. refused' \subseteq DOMAIN author'
    BY <1>1, <1>4 DEF Inv, TypeOK
  <2>2. nextBatchId' \in Nat /\ currentUser' \in Users /\ log' \in Seq(Nat) /\ faults' \in Nat
    BY <1>1 DEF Inv, TypeOK
  <2>3. remote' \in RemoteState
    BY <1>9 DEF Calm
  <2> QED BY <1>4, <1>11, <2>1, <2>2, <2>3 DEF TypeOK
<1>13. Disk'
  <2>1. \A u \in Users : Ascending(mutationQueue'[u])
    <3> SUFFICES ASSUME NEW u \in Users
                 PROVE  Ascending(mutationQueue'[u])
      OBVIOUS
    <3>1. CASE u = currentUser
      BY <1>1, <1>7, <1>11, <3>1
    <3>2. CASE u # currentUser
      BY <1>1, <1>2, <3>2 DEF Inv, Disk
    <3> QED BY <3>1, <3>2
  <2>2. ASSUME NEW u \in Users, NEW i \in DOMAIN mutationQueue'[u]
        PROVE  /\ mutationQueue'[u][i].id < nextBatchId'
               /\ mutationQueue'[u][i].op \in DOMAIN author'
    <3>1. CASE u = currentUser
      <4>1. mutationQueue'[u] = n
        BY <1>1, <1>11, <3>1
      <4>2. CASE i \in DOMAIN q
        <5>1. n[i] = q[i]
          BY <1>5, <4>2
        <5>2. q[i].id < nextBatchId' /\ q[i].op \in DOMAIN author
          BY <1>1, <1>2, <1>6, <4>2
        <5>3. DOMAIN author \subseteq DOMAIN author'
          BY <1>4 DEF op
        <5> QED BY <4>1, <5>1, <5>2, <5>3
      <4>3. CASE i = Len(q) + 1
        <5>1. n[i] = b /\ op \in 1..op
          BY <1>4, <1>5, <4>3 DEF op
        <5> QED BY <1>1, <1>2, <1>3, <1>4, <4>1, <5>1
      <4> QED BY <1>5, <2>2, <4>1, <4>2, <4>3
    <3>2. CASE u # currentUser
      <4>1. mutationQueue'[u] = mutationQueue[u]
        BY <1>1, <1>2, <3>2
      <4>2. /\ mutationQueue[u][i].id < nextBatchId /\ mutationQueue[u][i].op \in DOMAIN author
            /\ mutationQueue[u][i].id \in Nat
        BY <1>2, <2>2, <4>1, IdsOfSeq DEF Inv, Disk
      <4>3. DOMAIN author \subseteq DOMAIN author'
        BY <1>4 DEF op
      <4>4. mutationQueue[u][i].id < nextBatchId'
        BY <1>1, <1>2, <4>2
      <4> QED BY <4>1, <4>2, <4>3, <4>4
    <3> QED BY <3>1, <3>2
  <2>3. ASSUME NEW u \in Users, NEW c \in mutationCallbacks'[u]
        PROVE  \E i \in DOMAIN mutationQueue'[u] : mutationQueue'[u][i] = c
    <3>1. CASE u = currentUser
      <4>1. mutationQueue'[u] = n
        BY <1>1, <1>11, <3>1
      <4>2. c \in mutationCallbacks[u] \/ c = b
        BY <1>1, <1>2, <2>3, <3>1
      <4>3. CASE c \in mutationCallbacks[u]
        <5>1. PICK i \in DOMAIN q : q[i] = c
          BY <3>1, <4>3 DEF Inv, Disk, q
        <5> QED BY <1>5, <4>1, <5>1
      <4>4. CASE c = b
        BY <1>5, <4>1, <4>4
      <4> QED BY <4>2, <4>3, <4>4
    <3>2. CASE u # currentUser
      BY <1>1, <1>2, <2>3, <3>2 DEF Inv, Disk
    <3> QED BY <3>1, <3>2
  <2>4. \A u \in Users : Ascending(mutationQueue[u])'
    BY <2>1 DEF Ascending
  <2>5. Len(told') = Len(author')
    BY <1>4
  <2> QED BY <2>2, <2>3, <2>4, <2>5 DEF Disk
<1> QED BY <1>9, <1>10, <1>11, <1>12, <1>13 DEF Inv, Begins, Full

\* After the handshake there is a write for every answer.
LEMMA AnswerHasWrite ==
    ASSUME RemoteInv(remote), remote.handshake, remote.replies # <<>>
    PROVE  /\ remote.state = "open" /\ remote.pipeline # <<>>
           /\ Head(remote.replies) = Head(remote.pipeline).op
           /\ remote.pipeline \in Seq(Batch) /\ remote.replies \in Seq(Nat)
<1> DEFINE p == remote.pipeline
           r == remote.replies
           np == Len(p)
           nr == Len(r)
           ns == Len(remote.sent)
<1>1. /\ p \in Seq(Batch) /\ r \in Seq(Nat) /\ remote.state = "open"
      /\ remote.sent \in Seq(Batch \cup {Handshake})
  BY DEF RemoteInv, Calm, RemoteState
<1>2. /\ \A i \in DOMAIN r : r[i] = p[i].op
      /\ np = nr + 1 + ns \/ np = nr + ns
  BY <1>1 DEF RemoteInv, Wire
<1>3. nr \in Nat \ {0} /\ ns \in Nat /\ np \in Nat /\ Head(r) = r[1] /\ 1 \in DOMAIN r
  BY <1>1, HeadTail
<1> HIDE DEF p, r, np, nr, ns
<1>4. np \in Nat \ {0}
  BY <1>2, <1>3
<1>5. p # <<>>
  BY <1>1, <1>4, EmptySeq DEF np
<1>6. Head(p) = p[1]
  BY <1>1, <1>5, HeadTail
<1> QED BY <1>1, <1>2, <1>3, <1>5, <1>6 DEF p, r

\* The stream after the first answer and the first write are taken off.
LEMMA WireWithoutFirst ==
    ASSUME RemoteInv(remote), remote.handshake, remote.replies # <<>>,
           NEW a, a = [remote EXCEPT !.replies = Tail(remote.replies),
                                     !.pipeline = Tail(remote.pipeline)]
    PROVE  /\ Calm(a) /\ Wire(a) /\ a.handshake /\ a.state = "open"
           /\ a.pipeline = Tail(remote.pipeline) /\ a.replies = Tail(remote.replies)
           /\ a.status = remote.status
<1> DEFINE p == remote.pipeline
           r == remote.replies
           s == remote.sent
           np == Len(p)
           nr == Len(r)
           ns == Len(s)
           tp == Len(Tail(p))
           tr == Len(Tail(r))
<1>1. /\ remote \in RemoteState /\ remote.state = "open" /\ p # <<>> /\ ~remote.idle
      /\ p \in Seq(Batch) /\ r \in Seq(Nat) /\ s \in Seq(Batch \cup {Handshake})
      /\ "current" \notin remote.tokens
  <2>1. p # <<>>
    BY AnswerHasWrite
  <2> QED BY <2>1 DEF RemoteInv, Calm, RemoteState
<1>2. /\ \A i \in DOMAIN r : r[i] = p[i].op
      /\ remote.status # "permanent" => \A i \in DOMAIN s : s[i] = p[nr + i]
  BY <1>1 DEF RemoteInv, Wire
<1>3. IF remote.status = "permanent" THEN np = nr + 1 + ns ELSE np = nr + ns
  BY <1>1 DEF RemoteInv, Wire
<1>4. /\ np \in Nat \ {0} /\ Tail(p) \in Seq(Batch) /\ tp = np - 1
      /\ \A i \in 1..tp : Tail(p)[i] = p[i + 1]
  BY <1>1, HeadTail
<1>5. /\ nr \in Nat \ {0} /\ Tail(r) \in Seq(Nat) /\ tr = nr - 1
      /\ \A i \in 1..tr : i + 1 \in DOMAIN r /\ Tail(r)[i] = r[i + 1]
      /\ DOMAIN Tail(r) = 1..tr
  BY <1>1, HeadTail
<1>6. ns \in Nat /\ DOMAIN s = 1..ns
  BY <1>1
<1>7. /\ a \in RemoteState /\ a.state = "open" /\ a.handshake = remote.handshake
      /\ a.idle = remote.idle /\ a.tokens = remote.tokens /\ a.sent = s
      /\ a.pipeline = Tail(p) /\ a.replies = Tail(r) /\ a.status = remote.status
  BY <1>1, <1>4, <1>5 DEF RemoteState
<1> HIDE DEF p, r, s, np, nr, ns, tp, tr
<1>8. Calm(a)
  BY <1>1, <1>7 DEF Calm, IsStarted
<1>a. /\ np \in Nat \ {0} /\ nr \in Nat \ {0} /\ ns \in Nat
      /\ tp = np - 1 /\ tr = nr - 1
  BY <1>4, <1>5, <1>6
<1>b. tp \in Nat /\ tr \in Nat /\ nr <= np
  <2>1. CASE remote.status = "permanent"
    <3>1. np = nr + 1 + ns
      BY <1>3, <2>1
    <3> QED BY <1>a, <3>1
  <2>2. CASE remote.status # "permanent"
    <3>1. np = nr + ns
      BY <1>3, <2>2
    <3> QED BY <1>a, <3>1
  <2> QED BY <2>1, <2>2
<1>9. /\ remote.status = "permanent" => tp = tr + 1 + ns
      /\ remote.status # "permanent" => tp = tr + ns
  <2>1. CASE remote.status = "permanent"
    <3>1. np = nr + 1 + ns
      BY <1>3, <2>1
    <3>2. tp = tr + 1 + ns
      BY <1>a, <3>1
    <3> QED BY <2>1, <3>2
  <2>2. CASE remote.status # "permanent"
    <3>1. np = nr + ns
      BY <1>3, <2>2
    <3>2. tp = tr + ns
      BY <1>a, <3>1
    <3> QED BY <2>2, <3>2
  <2> QED BY <2>1, <2>2
<1>10. ASSUME NEW i \in DOMAIN Tail(r)
       PROVE  Tail(r)[i] = Tail(p)[i].op
  <2>1. i \in 1..tp
    <3>1. i \in 1..tr
      BY <1>5
    <3> QED BY <1>a, <1>b, <3>1
  <2>2. Tail(r)[i] = r[i + 1] /\ i + 1 \in DOMAIN r
    BY <1>5
  <2> QED BY <1>2, <1>4, <2>1, <2>2
<1>11. ASSUME remote.status # "permanent", NEW i \in DOMAIN s
       PROVE  s[i] = Tail(p)[tr + i]
  <2>1. tr + i \in 1..tp /\ (tr + i) + 1 = nr + i
    <3>1. tp = tr + ns
      BY <1>9, <1>11
    <3>2. i \in 1..ns
      BY <1>6
    <3> QED BY <1>a, <1>b, <3>1, <3>2
  <2>2. Tail(p)[tr + i] = p[(tr + i) + 1]
    BY <1>4, <2>1
  <2> QED BY <1>2, <1>11, <2>1, <2>2
<1>12. Wire(a)
  <2>1. CASE remote.status = "permanent"
    <3>1. Len(a.pipeline) = Len(a.replies) + 1 + Len(a.sent)
      BY <1>7, <1>9, <2>1 DEF tp, tr, ns
    <3> QED BY <1>7, <1>10, <2>1, <3>1 DEF Wire
  <2>2. CASE remote.status # "permanent"
    <3>1. Len(a.pipeline) = Len(a.replies) + Len(a.sent)
      BY <1>7, <1>9, <2>2 DEF tp, tr, ns
    <3>2. \A i \in DOMAIN a.sent : a.sent[i] = a.pipeline[Len(a.replies) + i]
      BY <1>7, <1>11, <2>2 DEF tr
    <3> QED BY <1>7, <1>10, <2>2, <3>1, <3>2 DEF Wire
  <2> QED BY <2>1, <2>2
<1> QED BY <1>7, <1>8, <1>12 DEF p, r

\* The pipeline of the new remote store begins the queue, which is the old one
\* without its first batch, and otherwise everything has its type.
LEMMA MutationResultKeeps ==
    ASSUME Inv, OnWriteStreamMutationResult
    PROVE  /\ Inv'
           /\ remote'.handshake /\ remote'.replies = Tail(remote.replies)
           /\ remote'.status = remote.status
           /\ \A i \in DOMAIN Tail(remote.pipeline) :
                remote'.pipeline[i] = Tail(remote.pipeline)[i]
           /\ mutationQueue' =
                [mutationQueue EXCEPT ![currentUser] = Tail(mutationQueue[currentUser])]
<1> DEFINE q == RemoveMutationBatch(mutationQueue[currentUser], Head(remote.pipeline))
           a == [remote EXCEPT !.replies = Tail(remote.replies),
                               !.pipeline = Tail(remote.pipeline)]
<1>1. /\ remote.replies # <<>> /\ remote.handshake /\ RemoteInv(remote)
      /\ mutationQueue' = [mutationQueue EXCEPT ![currentUser] = q]
      /\ NotifyUser(Head(remote.pipeline), "ok")
      /\ remote' = FillWritePipeline(q, a)
      /\ UNCHANGED <<currentUser, nextBatchId, author, log, refused, faults>>
  BY Zenon DEF OnWriteStreamMutationResult, Inv
<1>2. remote.pipeline # <<>>
  BY <1>1, AnswerHasWrite
<1>3. /\ q = Tail(mutationQueue[currentUser]) /\ q \in Seq(Batch) /\ Ascending(q)
      /\ Begins(Tail(remote.pipeline), q)
  BY <1>2, FirstOfPipeline
<1>4. /\ Disk' /\ mutationQueue' \in [Users -> Seq(Batch)]
      /\ mutationQueue'[currentUser'] = Tail(mutationQueue[currentUser])
      /\ mutationCallbacks' \in [Users -> SUBSET Batch]
      /\ told' \in Seq({"nothing", "ok", "error"})
  BY <1>1, <1>2, DiskAfterFirst
<1>5. /\ Calm(a) /\ Wire(a) /\ a.handshake /\ a.state = "open"
      /\ a.pipeline = Tail(remote.pipeline) /\ a.replies = Tail(remote.replies)
      /\ a.status = remote.status
  BY <1>1, WireWithoutFirst
<1> HIDE DEF a, q
<1>6. /\ Calm(remote') /\ Wire(remote')
      /\ Begins(remote'.pipeline, q) /\ Full(remote'.pipeline, q)
      /\ remote'.pipeline # <<>> => IsStarted(remote')
      /\ remote'.state = a.state
      /\ remote'.handshake = a.handshake /\ remote'.replies = a.replies
      /\ remote'.status = a.status
      /\ \A i \in DOMAIN a.pipeline : remote'.pipeline[i] = a.pipeline[i]
  <2>1. IsStarted(a) /\ Begins(a.pipeline, q)
    BY <1>3, <1>5 DEF IsStarted
  <2> DEFINE f == FillWritePipeline(q, a)
  <2>2. /\ Calm(f) /\ Wire(f) /\ Begins(f.pipeline, q) /\ Full(f.pipeline, q)
        /\ f.pipeline # <<>> => IsStarted(f)
        /\ IsStarted(a) => f.state = a.state
        /\ f.handshake = a.handshake /\ f.replies = a.replies /\ f.status = a.status
        /\ \A i \in DOMAIN a.pipeline : i \in DOMAIN f.pipeline
                                        /\ f.pipeline[i] = a.pipeline[i]
    <3>1. Calm(a) /\ Wire(a) /\ q \in Seq(Batch) /\ Ascending(q)
      BY <1>3, <1>5
    <3> QED BY <2>1, <3>1, FillKeeps
  <2> HIDE DEF f
  <2>3. remote' = f
    BY <1>1 DEF f
  <2> QED BY <2>1, <2>2, <2>3
<1>7. RemoteInv(remote')
  BY <1>5, <1>6 DEF RemoteInv
<1>8. TypeOK'
  <2>1. remote' \in RemoteState
    BY <1>6 DEF Calm
  <2>2. /\ currentUser' \in Users /\ nextBatchId' \in Nat /\ author' \in Seq(Users)
        /\ log' \in Seq(Nat) /\ refused' \subseteq DOMAIN author' /\ faults' \in Nat
    BY <1>1 DEF Inv, TypeOK
  <2> QED BY <1>4, <2>1, <2>2 DEF TypeOK
<1>9. /\ Begins(remote'.pipeline, mutationQueue'[currentUser'])
      /\ Full(remote'.pipeline, mutationQueue'[currentUser'])
  BY <1>3, <1>4, <1>6
<1>10. Inv'
  BY <1>4, <1>7, <1>8, <1>9 DEF Inv, Begins, Full
<1> QED BY <1>1, <1>3, <1>5, <1>6, <1>10

\* The refused write leaves the disk and the pipeline, and the stream restarts.
LEMMA WriteErrorKeeps ==
    ASSUME Inv, HandleWriteError
    PROVE  /\ Inv' /\ ~remote'.handshake
           /\ mutationQueue' =
                [mutationQueue EXCEPT ![currentUser] = Tail(mutationQueue[currentUser])]
<1> DEFINE q == RemoveMutationBatch(mutationQueue[currentUser], Head(remote.pipeline))
           c == Close(remote, FALSE)
           d == [c EXCEPT !.pipeline = Tail(c.pipeline)]
           e == InhibitBackoff(d)
           f == FillWritePipeline(q, e)
<1>1. /\ remote.pipeline # <<>> /\ RemoteInv(remote) /\ remote \in RemoteState
      /\ mutationQueue' = [mutationQueue EXCEPT ![currentUser] = q]
      /\ NotifyUser(Head(remote.pipeline), "error")
      /\ remote' = HandshakeOver(f)
      /\ UNCHANGED <<currentUser, nextBatchId, author, log, refused, faults>>
  <2>1. RemoteInv(remote) /\ remote \in RemoteState
    BY DEF Inv, RemoteInv, Calm
  <2> QED BY <2>1, Zenon DEF HandleWriteError, RejectsWrite
<1>2. /\ q = Tail(mutationQueue[currentUser]) /\ q \in Seq(Batch) /\ Ascending(q)
      /\ Begins(Tail(remote.pipeline), q) /\ Tail(remote.pipeline) \in Seq(Batch)
  BY <1>1, FirstOfPipeline
<1>3. /\ Disk' /\ mutationQueue' \in [Users -> Seq(Batch)]
      /\ mutationQueue'[currentUser'] = Tail(mutationQueue[currentUser])
      /\ mutationCallbacks' \in [Users -> SUBSET Batch]
      /\ told' \in Seq({"nothing", "ok", "error"})
  BY <1>1, DiskAfterFirst
<1>4. Calm(c) /\ c.state = "error" /\ c.pipeline = remote.pipeline
  BY <1>1, CloseCalms
<1> HIDE DEF c
<1>5. /\ c \in RemoteState /\ "current" \notin c.tokens /\ ~c.idle
      /\ c.sent = <<>> /\ c.replies = <<>> /\ c.status = "none"
  BY <1>4 DEF Calm
<1>6. /\ d \in RemoteState /\ d.state = c.state /\ d.pipeline = Tail(remote.pipeline)
      /\ d.handshake = c.handshake /\ d.tokens = c.tokens /\ d.idle = c.idle
      /\ d.sent = c.sent /\ d.replies = c.replies /\ d.status = c.status
  BY <1>2, <1>4, <1>5 DEF RemoteState
<1>7. e = [d EXCEPT !.state = "initial"]
  BY Zenon DEF InhibitBackoff
<1> HIDE DEF d, e
<1>8. /\ e \in RemoteState /\ e.state = "initial" /\ e.pipeline = Tail(remote.pipeline)
      /\ e.handshake = d.handshake /\ e.tokens = d.tokens /\ e.idle = d.idle
      /\ e.sent = d.sent /\ e.replies = d.replies /\ e.status = d.status
  BY <1>6, <1>7 DEF RemoteState
<1>9. Calm(e) /\ Wire(e) /\ ~IsStarted(e)
  BY <1>5, <1>6, <1>8 DEF Calm, Wire, IsStarted
<1>10. q \in Seq(Batch) /\ Ascending(q) /\ Begins(e.pipeline, q)
  BY <1>2, <1>8
<1> HIDE DEF q
<1>11. /\ Calm(f) /\ Begins(f.pipeline, q) /\ Full(f.pipeline, q) /\ f.state # "open"
       /\ IsStarted(f) <=> f.pipeline # <<>>
  BY <1>9, <1>10, FillKeeps
<1> HIDE DEF f
<1>12. /\ RemoteInv(remote') /\ ~remote'.handshake /\ remote'.pipeline = f.pipeline
  BY <1>1, <1>11, HandshakeOverEnds
<1>13. TypeOK'
  BY <1>1, <1>3, <1>12 DEF Inv, TypeOK, RemoteInv, Calm
<1> QED BY <1>1, <1>2, <1>3, <1>11, <1>12, <1>13 DEF Inv, Begins, Full

----------------------------------------------------------------------------
(* The invariant. *)

\* A handler that leaves the disk, the callers and the pipeline alone.
LEMMA OnlyRemote ==
    ASSUME Inv, RemoteInv(remote'), remote'.pipeline = remote.pipeline,
           UNCHANGED <<storeVars, author, told>>,
           log' \in Seq(Nat), refused' \subseteq DOMAIN author, faults' \in Nat
    PROVE  Inv'
<1>1. /\ mutationQueue' = mutationQueue /\ currentUser' = currentUser
      /\ nextBatchId' = nextBatchId /\ mutationCallbacks' = mutationCallbacks
      /\ author' = author /\ told' = told
  BY DEF storeVars
<1>2. TypeOK'
  BY <1>1 DEF Inv, TypeOK, RemoteInv, Calm
<1>3. Disk'
  BY <1>1 DEF Inv, Disk, Ascending
<1>4. /\ Begins(remote.pipeline, mutationQueue[currentUser])'
      /\ Full(remote.pipeline, mutationQueue[currentUser])'
  BY <1>1 DEF Inv, Begins, Full
<1> QED BY <1>2, <1>3, <1>4 DEF Inv

\* The next id read from the disk is right for any queue there.
LEMMA NextIdFromDisk ==
    ASSUME Inv
    PROVE  /\ LoadNextBatchId(mutationQueue) \in Nat
           /\ \A u \in Users : \A i \in DOMAIN mutationQueue[u] :
                mutationQueue[u][i].id < LoadNextBatchId(mutationQueue)
BY NextIdIsFresh DEF Inv, TypeOK, Disk

\* A restart keeps what is on disk and forgets the callers.
LEMMA ReopenKeepsInv ==
    ASSUME Inv, NEW u \in Users, Reopen(mutationQueue, u),
           UNCHANGED <<mutationQueue, author, log, refused>>,
           told' \in Seq({"nothing", "ok", "error"}), Len(told') = Len(told)
    PROVE  Inv' /\ ~remote'.handshake
<1>1. /\ currentUser' = u /\ nextBatchId' = LoadNextBatchId(mutationQueue)
      /\ mutationCallbacks' = [v \in Users |-> {}]
      /\ remote' = FillWritePipeline(mutationQueue[u], Disconnected)
      /\ faults' = faults + 1
  BY DEF Reopen
<1>2. mutationQueue[u] \in Seq(Batch) /\ Ascending(mutationQueue[u])
  BY DEF Inv, TypeOK, Disk
<1>3. /\ RemoteInv(remote') /\ ~remote'.handshake
      /\ Begins(remote'.pipeline, mutationQueue[u]) /\ Full(remote'.pipeline, mutationQueue[u])
  BY <1>1, <1>2, ReopenKeeps
<1>4. /\ nextBatchId' \in Nat
      /\ \A v \in Users : \A i \in DOMAIN mutationQueue[v] :
           mutationQueue[v][i].id < nextBatchId'
  BY <1>1, NextIdFromDisk
<1>5. remote' \in RemoteState
  BY <1>3 DEF RemoteInv, Calm
<1>6. TypeOK'
  <2>1. mutationCallbacks' \in [Users -> SUBSET Batch] /\ faults' \in Nat
    BY <1>1 DEF Inv, TypeOK
  <2> QED BY <1>1, <1>4, <1>5, <2>1 DEF Inv, TypeOK
<1>7. Disk'
  BY <1>1, <1>4 DEF Inv, Disk, Ascending
<1>8. /\ Begins(remote.pipeline, mutationQueue[currentUser])'
      /\ Full(remote.pipeline, mutationQueue[currentUser])'
  BY <1>1, <1>3 DEF Begins, Full
<1> QED BY <1>3, <1>6, <1>7, <1>8 DEF Inv

\* A process that ends and starts again keeps the invariant.
LEMMA DiesKeeps ==
    ASSUME Inv, Dies
    PROVE  Inv' /\ ~remote'.handshake
<1>1. PICK u \in Users : Reopen(mutationQueue, u)
  BY DEF Dies
<1>2. UNCHANGED <<mutationQueue, author, log, refused, told>>
  BY DEF Dies, histVars
<1> QED BY <1>1, <1>2, ReopenKeepsInv DEF Inv, TypeOK

\* So does one that ends while it acknowledges a batch.
LEMMA DiesAcknowledgingKeeps ==
    ASSUME Inv, DiesAcknowledging
    PROVE  Inv' /\ ~remote'.handshake
<1> DEFINE waiting == {c \in mutationCallbacks[currentUser] :
                         c.id = Head(remote.pipeline).id}
<1>1. PICK u \in Users : Reopen(mutationQueue, u)
  BY DEF DiesAcknowledging
<1>2. /\ UNCHANGED <<mutationQueue, author, log, refused>>
      /\ told' = [w \in DOMAIN told |->
                    IF \E c \in waiting : c.op = w THEN "ok" ELSE told[w]]
  BY Zenon DEF DiesAcknowledging
<1> HIDE DEF waiting
<1>3. told \in Seq({"nothing", "ok", "error"}) /\ DOMAIN told = 1..Len(told) /\ Len(told) \in Nat
  BY DEF Inv, TypeOK
<1>4. \A w \in 1..Len(told) : told'[w] \in {"nothing", "ok", "error"}
  BY <1>2, <1>3
<1>5. told' = [w \in 1..Len(told) |-> told'[w]]
  BY <1>2, <1>3
<1>6. told' \in Seq({"nothing", "ok", "error"}) /\ Len(told') = Len(told)
  BY <1>3, <1>4, <1>5
<1> QED BY <1>1, <1>2, <1>6, ReopenKeepsInv

\* The pipeline is refilled from the queue of the same user.
LEMMA ConnectivityChangesKeeps ==
    ASSUME Inv, ConnectivityChanges
    PROVE  Inv' /\ ~remote'.handshake
<1> DEFINE q == mutationQueue[currentUser]
<1>1. /\ remote' = RestartNetwork(q, remote) /\ faults' = faults + 1
      /\ UNCHANGED <<mutationQueue, currentUser, nextBatchId, mutationCallbacks,
                     author, told, refused, log>>
  BY DEF ConnectivityChanges, storeVars, histVars
<1>2. q \in Seq(Batch) /\ Ascending(q) /\ RemoteInv(remote)
  BY DEF Inv, TypeOK, Disk
<1> HIDE DEF q
<1>3. /\ RemoteInv(remote') /\ ~remote'.handshake
      /\ Begins(remote'.pipeline, q) /\ Full(remote'.pipeline, q)
  BY <1>1, <1>2, RestartKeeps
<1>4. TypeOK'
  BY <1>1, <1>3 DEF Inv, TypeOK, RemoteInv, Calm
<1>5. Disk'
  BY <1>1 DEF Inv, Disk, Ascending
<1>6. /\ Begins(remote.pipeline, mutationQueue[currentUser])'
      /\ Full(remote.pipeline, mutationQueue[currentUser])'
  BY <1>1, <1>3 DEF Begins, Full, q
<1> QED BY <1>3, <1>4, <1>5, <1>6 DEF Inv

\* The pipeline is refilled from the queue of the user who signs in.
LEMMA CredentialChangeKeeps ==
    ASSUME Inv, NEW u \in Users, HandleCredentialChange(u)
    PROVE  Inv' /\ ~remote'.handshake
<1> DEFINE q == mutationQueue[u]
<1>1. /\ remote' = RestartNetwork(q, remote) /\ faults' = faults + 1
      /\ currentUser' = u
      /\ nextBatchId' = IF u = currentUser THEN nextBatchId
                                           ELSE LoadNextBatchId(mutationQueue)
      /\ UNCHANGED <<mutationQueue, mutationCallbacks, author, told, refused, log>>
  BY DEF HandleCredentialChange, histVars
<1>2. q \in Seq(Batch) /\ Ascending(q) /\ RemoteInv(remote)
  BY DEF Inv, TypeOK, Disk
<1> HIDE DEF q
<1>3. /\ RemoteInv(remote') /\ ~remote'.handshake
      /\ Begins(remote'.pipeline, q) /\ Full(remote'.pipeline, q)
  BY <1>1, <1>2, RestartKeeps
<1>4. /\ nextBatchId' \in Nat
      /\ \A v \in Users : \A i \in DOMAIN mutationQueue[v] :
           mutationQueue[v][i].id < nextBatchId'
  BY <1>1, NextIdFromDisk DEF Inv, TypeOK, Disk
<1>5. remote' \in RemoteState
  BY <1>3 DEF RemoteInv, Calm
<1>6. TypeOK'
  BY <1>1, <1>4, <1>5 DEF Inv, TypeOK
<1>7. Disk'
  BY <1>1, <1>4 DEF Inv, Disk, Ascending
<1>8. /\ Begins(remote.pipeline, mutationQueue[currentUser])'
      /\ Full(remote.pipeline, mutationQueue[currentUser])'
  BY <1>1, <1>3 DEF Begins, Full, q
<1> QED BY <1>3, <1>6, <1>7, <1>8 DEF Inv

\* What the server takes next is a number; a write it refuses is a write made.
LEMMA ServerKeepsInv ==
    ASSUME Inv, ServerTakes \/ ServerRefuses
    PROVE  Inv'
<1>1. RemoteInv(remote) /\ remote.sent # <<>> /\ remote.status = "none"
  BY DEF Inv, ServerTakes, ServerRefuses
<1>2. /\ remote.handshake =>
           /\ Len(remote.replies) + 1 \in DOMAIN remote.pipeline
           /\ Head(remote.sent) = remote.pipeline[Len(remote.replies) + 1]
      /\ ~remote.handshake => Head(remote.sent) = Handshake
  BY <1>1, NextSent
<1>3. /\ Head(remote.sent).op \in Nat
      /\ Head(remote.sent).op = 0 \/ Head(remote.sent).op \in DOMAIN author
  <2>1. CASE remote.handshake
    <3> DEFINE i == Len(remote.replies) + 1
               q == mutationQueue[currentUser]
    <3>1. i \in DOMAIN remote.pipeline /\ Head(remote.sent) = remote.pipeline[i]
      BY <1>2, <2>1
    <3>2. q \in Seq(Batch) /\ remote.pipeline \in Seq(Batch)
      BY DEF Inv, TypeOK, RemoteState
    <3>3. i \in DOMAIN q /\ remote.pipeline[i] = q[i]
      <4> HIDE DEF i, q
      <4>1. /\ Len(remote.pipeline) \in Nat /\ Len(q) \in Nat /\ DOMAIN q = 1..Len(q)
            /\ DOMAIN remote.pipeline = 1..Len(remote.pipeline)
            /\ Len(remote.pipeline) <= Len(q) /\ remote.pipeline[i] = q[i]
        BY <3>1, <3>2 DEF Inv, Begins, q
      <4> QED BY <3>1, <4>1
    <3> HIDE DEF i
    <3>4. q[i].op \in DOMAIN author
      BY <3>3 DEF Inv, TypeOK, Disk
    <3>5. q[i].op \in Nat
      BY <3>2, <3>3, IdsOfSeq
    <3> QED BY <3>1, <3>3, <3>4, <3>5
  <2>2. CASE ~remote.handshake
    BY <1>2, <2>2 DEF Handshake
  <2> QED BY <2>1, <2>2
<1>4. CASE ServerTakes
  <2>1. /\ UNCHANGED <<storeVars, author, told, refused, faults>>
        /\ log' = log \/ log' = Append(log, Head(remote.sent).op)
    BY <1>4 DEF ServerTakes, histVars
  <2>2. log' \in Seq(Nat)
    <3>1. log \in Seq(Nat)
      BY DEF Inv, TypeOK
    <3> QED BY <1>3, <2>1, <3>1, AppendProperties
  <2>3. RemoteInv(remote') /\ remote'.pipeline = remote.pipeline
    BY <1>1, <1>4, ServerTakesKeeps
  <2>4. refused' \subseteq DOMAIN author /\ faults' \in Nat
    BY <2>1 DEF Inv, TypeOK
  <2> QED BY <2>1, <2>2, <2>3, <2>4, OnlyRemote
<1>5. CASE ServerRefuses
  <2>1. /\ UNCHANGED <<storeVars, author, told, log>>
        /\ \/ refused' = refused
           \/ Head(remote.sent).op # 0 /\ refused' = refused \cup {Head(remote.sent).op}
        /\ faults' = faults \/ faults' = faults + 1
    BY <1>5 DEF ServerRefuses
  <2>2. RemoteInv(remote') /\ remote'.pipeline = remote.pipeline
    BY <1>1, <1>5, ServerRefusesKeeps
  <2>3. refused' \subseteq DOMAIN author /\ faults' \in Nat /\ log' \in Seq(Nat)
    BY <1>3, <2>1 DEF Inv, TypeOK
  <2> QED BY <2>1, <2>2, <2>3, OnlyRemote
<1> QED BY <1>4, <1>5

\* At first nothing is on disk and nothing is connected.
LEMMA InitHolds == Init => Inv
<1> SUFFICES ASSUME Init
             PROVE  Inv
  OBVIOUS
<1>1. <<>> \in Seq(Batch) /\ Len(<<>>) = 0 /\ DOMAIN <<>> = {} /\ <<>> \in Seq(Nat)
      /\ <<>> \in Seq(Batch \cup {Handshake})
      /\ <<>> \in Seq(Users) /\ <<>> \in Seq({"nothing", "ok", "error"})
  BY EmptySeq
<1>2. /\ RemoteInv(remote)
      /\ Begins(remote.pipeline, mutationQueue[currentUser])
      /\ Full(remote.pipeline, mutationQueue[currentUser])
  BY <1>1 DEF Init, Disconnected, RemoteInv, Calm, Wire, RemoteState, IsStarted, Begins, Full
<1>3. TypeOK
  BY <1>1, <1>2 DEF Init, TypeOK, RemoteInv, Calm
<1>4. Disk
  BY <1>1 DEF Init, Disk, Ascending
<1> QED BY <1>2, <1>3, <1>4 DEF Inv

\* The invariant is inductive.
LEMMA NextKeeps ==
    ASSUME Inv, [Next]_vars
    PROVE  Inv'
<1>1. RemoteInv(remote)
  BY DEF Inv
<1>2. TypeOK
  BY DEF Inv
<1>3. CASE WriteMutations
  BY <1>3, WriteMutationsKeeps
<1>4. CASE OnWriteStreamMutationResult
  BY <1>4, MutationResultKeeps
<1>5. CASE HandleWriteError
  BY <1>5, WriteErrorKeeps
<1>6. CASE TokenArrives
  <2>1. UNCHANGED <<storeVars, author, told, log, refused, faults>>
    BY <1>6 DEF TokenArrives, histVars
  <2> QED BY <1>1, <1>2, <1>6, <2>1, TokenArrivesKeeps, OnlyRemote DEF TypeOK
<1>7. CASE StaleTokenArrives
  <2>1. UNCHANGED <<storeVars, author, told, log, refused, faults>>
    BY <1>7 DEF StaleTokenArrives, histVars
  <2> QED BY <1>1, <1>2, <1>7, <2>1, StaleTokenArrivesKeeps, OnlyRemote DEF TypeOK
<1>8. CASE OnWriteStreamHandshakeComplete
  <2>1. UNCHANGED <<storeVars, author, told, log, refused, faults>>
    BY <1>8 DEF OnWriteStreamHandshakeComplete, histVars
  <2> QED BY <1>1, <1>2, <1>8, <2>1, HandshakeCompleteKeeps, OnlyRemote DEF TypeOK
<1>9. CASE OnStreamFinish
  <2>1. UNCHANGED <<storeVars, author, told, log, refused, faults>>
    BY <1>9 DEF OnStreamFinish, histVars
  <2> QED BY <1>1, <1>2, <1>9, <2>1, StreamFinishKeeps, OnlyRemote DEF TypeOK
<1>10. CASE BackoffElapses
  <2>1. UNCHANGED <<storeVars, author, told, log, refused, faults>>
    BY <1>10 DEF BackoffElapses, histVars
  <2> QED BY <1>1, <1>2, <1>10, <2>1, BackoffElapsesKeeps, OnlyRemote DEF TypeOK
<1>11. CASE IdleTimeout
  <2>1. UNCHANGED <<storeVars, author, told, log, refused, faults>>
    BY <1>11 DEF IdleTimeout, histVars
  <2> QED BY <1>1, <1>2, <1>11, <2>1, IdleTimeoutKeeps, OnlyRemote DEF TypeOK
<1>12. CASE TokenFails
  <2>1. UNCHANGED <<storeVars, author, told, log, refused>> /\ faults' = faults + 1
    BY <1>12 DEF TokenFails, histVars
  <2> QED BY <1>1, <1>2, <1>12, <2>1, TokenFailsKeeps, OnlyRemote DEF TypeOK
<1>13. CASE ConnectionFails
  <2>1. UNCHANGED <<storeVars, author, told, log, refused>> /\ faults' = faults + 1
    BY <1>13 DEF ConnectionFails, histVars
  <2> QED BY <1>1, <1>2, <1>13, <2>1, ConnectionFailsKeeps, OnlyRemote DEF TypeOK
<1>14. CASE Dies \/ DiesAcknowledging
  BY <1>14, DiesKeeps, DiesAcknowledgingKeeps
<1>15. CASE ConnectivityChanges
  BY <1>15, ConnectivityChangesKeeps
<1>16. CASE \E u \in Users : HandleCredentialChange(u)
  BY <1>16, CredentialChangeKeeps
<1>17. CASE ServerTakes \/ ServerRefuses
  BY <1>17, ServerKeepsInv
<1>18. CASE UNCHANGED vars
  <2>1. UNCHANGED <<storeVars, author, told, log, refused, faults, remote>>
    BY <1>18 DEF vars, histVars
  <2> QED BY <1>1, <1>2, <2>1, OnlyRemote DEF TypeOK
<1> QED BY <1>3, <1>4, <1>5, <1>6, <1>7, <1>8, <1>9, <1>10, <1>11, <1>12, <1>13,
           <1>14, <1>15, <1>16, <1>17, <1>18 DEF Next, Handler

\* The invariant holds in every reachable state.
THEOREM InvHolds == Spec => []Inv
BY InitHolds, NextKeeps, PTL DEF Spec

\* Every variable keeps its type: in particular a refused write is one the app
\* has made, and the record of the stream never leaves its states.
THEOREM TypeCorrect == Spec => []TypeOK
<1>1. Inv => TypeOK
  BY DEF Inv
<1> QED BY <1>1, InvHolds, PTL

\* The pipeline is the beginning of the queue of the user who is signed in,
\* through every restart, change of user and error.
THEOREM PipelineIsOfTheUserHolds == Spec => []PipelineIsOfTheUser
<1>1. Inv => PipelineIsOfTheUser
  BY DEF Inv, Begins, PipelineIsOfTheUser
<1> QED BY <1>1, InvHolds, PTL

\* There is a write for every answer, in the same place.
LEMMA AnswersMatchInv == ASSUME Inv PROVE AnswersMatch
<1> SUFFICES ASSUME remote.handshake
             PROVE  /\ Len(remote.replies) <= Len(remote.pipeline)
                    /\ \A i \in DOMAIN remote.replies :
                         remote.replies[i] = remote.pipeline[i].op
  BY DEF AnswersMatch
<1>1. /\ remote.state = "open" /\ Len(remote.replies) \in Nat /\ Len(remote.sent) \in Nat
  BY DEF Inv, RemoteInv, Calm, RemoteState
<1>2. \/ Len(remote.pipeline) = Len(remote.replies) + 1 + Len(remote.sent)
      \/ Len(remote.pipeline) = Len(remote.replies) + Len(remote.sent)
  BY <1>1 DEF Inv, RemoteInv, Wire
<1>3. \A i \in DOMAIN remote.replies : remote.replies[i] = remote.pipeline[i].op
  BY <1>1 DEF Inv, RemoteInv, Wire
<1>4. Len(remote.replies) <= Len(remote.pipeline)
  <2> DEFINE np == Len(remote.pipeline)
             nr == Len(remote.replies)
             ns == Len(remote.sent)
  <2>1. nr \in Nat /\ ns \in Nat /\ (np = nr + 1 + ns \/ np = nr + ns)
    BY <1>1, <1>2
  <2> HIDE DEF np, nr, ns
  <2>2. nr <= np
    BY <2>1
  <2> QED BY <2>2 DEF np, nr
<1> QED BY <1>3, <1>4

\* Every answer that is read after the handshake is for the write it is taken
\* for, however many connections there were before.
THEOREM AnswersMatchHolds == Spec => []AnswersMatch
BY AnswersMatchInv, InvHolds, PTL

\* No assertion of the stream can fail: it is started whenever there is
\* something to write, and idle only when there is not.
THEOREM StreamAssertionsHolds == Spec => []StreamAssertions
<1>1. Inv => StreamAssertions
  BY DEF Inv, RemoteInv, Calm, StreamAssertions
<1> QED BY <1>1, InvHolds, PTL

\* A queue that is not empty keeps the pipeline, and with it the stream, busy.
LEMMA InvKeepsMoving == ASSUME Inv PROVE WritesKeepMoving
<1> SUFFICES ASSUME mutationQueue[currentUser] # <<>>
             PROVE  \/ "current" \in remote.tokens
                    \/ remote.state = "backoff"
                    \/ remote.sent # <<>> \/ remote.replies # <<>>
                    \/ remote.status # "none"
  BY DEF WritesKeepMoving
<1>1. remote.pipeline # <<>>
  <2> DEFINE q == mutationQueue[currentUser]
             nq == Len(q)
             np == Len(remote.pipeline)
  <2>1. q \in Seq(Batch) /\ remote.pipeline \in Seq(Batch) /\ q # <<>>
    BY DEF Inv, TypeOK, RemoteState
  <2>2. nq \in Nat \ {0} /\ (np = MaxPendingWrites \/ np = nq)
    BY <2>1, HeadTail DEF Inv, Full
  <2> HIDE DEF q, nq, np
  <2>3. np # 0
    BY <2>2
  <2>4. Len(<<>>) = 0
    BY EmptySeq
  <2> QED BY <2>3, <2>4 DEF np
<1>2. RemoteInv(remote) /\ remote.state \in {"starting", "open", "backoff"}
  BY <1>1 DEF Inv, RemoteInv, IsStarted
<1>3. CASE remote.state = "starting"
  BY <1>2, <1>3 DEF RemoteInv, Calm
<1>4. CASE remote.state = "backoff"
  BY <1>4
<1>5. CASE remote.state = "open" /\ remote.status = "none"
  <2>1. Wire(remote) /\ remote.handshake \in BOOLEAN
    BY <1>2 DEF RemoteInv, Calm, RemoteState
  <2>2. CASE ~remote.handshake
    BY <1>5, <2>1, <2>2 DEF Wire
  <2>3. CASE remote.handshake
    <3>1. Len(remote.pipeline) = Len(remote.replies) + Len(remote.sent)
      BY <1>5, <2>1, <2>3 DEF Wire
    <3>2. Len(<<>>) = 0 /\ remote.pipeline \in Seq(Batch)
      BY <1>2, EmptySeq DEF RemoteInv, Calm, RemoteState
    <3>3. remote.sent = <<>> /\ remote.replies = <<>> => Len(remote.pipeline) = 0
      BY <3>1, <3>2
    <3> QED BY <1>1, <3>2, <3>3, NoneIsEmpty
  <2> QED BY <2>1, <2>2, <2>3
<1> QED BY <1>2, <1>3, <1>4, <1>5

\* As long as the user who is signed in has a write on disk the network is at
\* work on it, whatever has failed: no handler leaves the pipeline empty and
\* the stream at rest.
THEOREM WritesKeepMovingHolds == Spec => []WritesKeepMoving
BY InvKeepsMoving, InvHolds, PTL

----------------------------------------------------------------------------
(* The refinement: what WriteQueue sees of the state. *)

pendingOps == [u \in Users |-> Ops(mutationQueue[u])]

unreadReplies == [u \in Users |-> IF u = currentUser /\ remote.handshake
                                  THEN Len(remote.replies) ELSE 0]

\* Ops of a queue is a sequence of the same length.
LEMMA OpsOfSeq ==
    ASSUME NEW q \in Seq(Batch)
    PROVE  /\ Ops(q) \in Seq(Nat \ {0}) /\ Len(Ops(q)) = Len(q)
           /\ DOMAIN Ops(q) = DOMAIN q
           /\ \A i \in DOMAIN q : Ops(q)[i] = q[i].op
<1>1. Len(q) \in Nat /\ DOMAIN q = 1..Len(q)
  OBVIOUS
<1>2. Ops(q) = [i \in 1..Len(q) |-> q[i].op] /\ \A i \in 1..Len(q) : q[i].op \in Nat \ {0}
  BY <1>1, IdsOfSeq DEF Ops
<1> QED BY <1>1, <1>2

\* Two sequences with the same elements are the same.
LEMMA SameSeq ==
    ASSUME NEW S, NEW s \in Seq(S), NEW t \in Seq(S), Len(s) = Len(t),
           \A i \in 1..Len(s) : s[i] = t[i]
    PROVE  s = t
BY SeqEqual

\* A step that keeps the disk and forgets what is unread.
LEMMA Forgets ==
    ASSUME Inv, UNCHANGED <<mutationQueue, log>>,
           ~remote'.handshake \/ remote'.replies = <<>>
    PROVE  Queue!BeginAgain(currentUser)
<1>1. Len(<<>>) = 0
  BY EmptySeq
<1>2. unreadReplies' = [u \in Users |-> 0]
  BY <1>1 DEF unreadReplies
<1>3. unreadReplies' = [unreadReplies EXCEPT ![currentUser] = 0]
  BY <1>2 DEF unreadReplies
<1>4. pendingOps' = pendingOps
  BY DEF pendingOps
<1> QED BY <1>3, <1>4 DEF Queue!BeginAgain, unreadReplies, pendingOps

\* A step that neither touches the disk nor reads or adds an answer.
LEMMA Stutters ==
    ASSUME UNCHANGED <<mutationQueue, currentUser, log>>,
           remote'.handshake = remote.handshake, remote'.replies = remote.replies
    PROVE  UNCHANGED <<pendingOps, log, unreadReplies>>
BY DEF pendingOps, unreadReplies

\* A step of any user's queue.
LEMMA QueueStep ==
    ASSUME NEW u \in Users,
           \/ Queue!Commit(u) \/ Queue!Settle(u) \/ Queue!Refuse(u)
           \/ Queue!BeginAgain(u)
    PROVE  Queue!Next
BY DEF Queue!Next, Queue!Commit, Queue!Settle, Queue!Refuse, Queue!BeginAgain

\* A call of the app puts its write at the end of the user's queue.
LEMMA WriteIsIssued ==
    ASSUME Inv, WriteMutations
    PROVE  \E w \in 1..MaxWrites : Queue!Issue(currentUser, w)
<1> DEFINE op == Len(author) + 1
           b == [id |-> nextBatchId, op |-> op]
           q == mutationQueue[currentUser]
           n == Append(q, b)
<1>1. /\ mutationQueue' = [mutationQueue EXCEPT ![currentUser] = n]
      /\ Len(author) < MaxWrites
      /\ UNCHANGED <<currentUser, log>>
  BY Zenon DEF WriteMutations
<1>2. /\ remote'.handshake = remote.handshake /\ remote'.replies = remote.replies
  BY WriteMutationsKeeps
<1>3. /\ q \in Seq(Batch) /\ mutationQueue \in [Users -> Seq(Batch)] /\ currentUser \in Users
      /\ Len(author) \in Nat /\ nextBatchId \in Nat
  BY DEF Inv, TypeOK
<1>4. op \in 1..MaxWrites /\ op \in Nat \ {0} /\ b \in Batch /\ b.op = op
  BY <1>1, <1>3 DEF Batch
<1> HIDE DEF op, b
<1>5. /\ n \in Seq(Batch) /\ Len(n) = Len(q) + 1 /\ n[Len(q) + 1] = b
      /\ \A i \in 1..Len(q) : n[i] = q[i]
      /\ Len(q) \in Nat /\ DOMAIN q = 1..Len(q) /\ DOMAIN n = 1..Len(q) + 1
  BY <1>3, <1>4, AppendProperties
<1> HIDE DEF q, n
<1>6. Ops(n) = Append(Ops(q), op)
  <2>1. /\ Ops(n) \in Seq(Nat \ {0}) /\ Len(Ops(n)) = Len(q) + 1
        /\ \A i \in DOMAIN n : Ops(n)[i] = n[i].op
    BY <1>5, OpsOfSeq
  <2>2. /\ Ops(q) \in Seq(Nat \ {0}) /\ Len(Ops(q)) = Len(q)
        /\ \A i \in DOMAIN q : Ops(q)[i] = q[i].op
    BY <1>3, OpsOfSeq
  <2>3. /\ Append(Ops(q), op) \in Seq(Nat \ {0}) /\ Len(Append(Ops(q), op)) = Len(q) + 1
        /\ \A i \in 1..Len(q) : Append(Ops(q), op)[i] = Ops(q)[i]
        /\ Append(Ops(q), op)[Len(q) + 1] = op
    BY <1>4, <2>2, AppendProperties
  <2>4. ASSUME NEW i \in 1..Len(q) + 1
        PROVE  Ops(n)[i] = Append(Ops(q), op)[i]
    <3>1. CASE i = Len(q) + 1
      BY <1>4, <1>5, <2>1, <2>3, <3>1
    <3>2. CASE i # Len(q) + 1
      <4>1. i \in DOMAIN q
        BY <1>5, <3>2
      <4> QED BY <1>5, <2>1, <2>2, <2>3, <4>1
    <3> QED BY <3>1, <3>2
  <2> QED BY <2>1, <2>3, <2>4, SameSeq
<1>7. pendingOps' = [pendingOps EXCEPT ![currentUser] = Append(pendingOps[currentUser], op)]
  BY <1>1, <1>3, <1>6 DEF pendingOps, q
<1>8. UNCHANGED <<log, unreadReplies>>
  BY <1>1, <1>2 DEF unreadReplies
<1>9. Queue!Issue(currentUser, op)
  BY <1>7, <1>8 DEF Queue!Issue, pendingOps, unreadReplies
<1> QED BY <1>4, <1>9

\* The queue of the current user without its first write.
LEMMA FirstLeaves ==
    ASSUME Inv, remote.pipeline # <<>>,
           mutationQueue' =
             [mutationQueue EXCEPT ![currentUser] = Tail(mutationQueue[currentUser])]
    PROVE  /\ pendingOps[currentUser] # <<>>
           /\ pendingOps' =
                [pendingOps EXCEPT ![currentUser] = Tail(pendingOps[currentUser])]
<1> DEFINE q == mutationQueue[currentUser]
<1>1. q \in Seq(Batch) /\ q # <<>>
  BY FirstOfPipeline
<1>2. mutationQueue \in [Users -> Seq(Batch)] /\ currentUser \in Users
  BY DEF Inv, TypeOK
<1> HIDE DEF q
<1>3. /\ Tail(q) \in Seq(Batch) /\ Len(q) \in Nat \ {0} /\ Len(Tail(q)) = Len(q) - 1
      /\ \A i \in 1..Len(Tail(q)) : i + 1 \in 1..Len(q) /\ Tail(q)[i] = q[i + 1]
  BY <1>1, HeadTail
<1>4. /\ Ops(q) \in Seq(Nat \ {0}) /\ Len(Ops(q)) = Len(q)
      /\ \A i \in 1..Len(q) : Ops(q)[i] = q[i].op
  BY <1>1, OpsOfSeq
<1>5. /\ Ops(Tail(q)) \in Seq(Nat \ {0}) /\ Len(Ops(Tail(q))) = Len(Tail(q))
      /\ \A i \in 1..Len(Tail(q)) : Ops(Tail(q))[i] = Tail(q)[i].op
  <2> DEFINE t == Tail(q)
  <2>1. t \in Seq(Batch)
    BY <1>3
  <2> HIDE DEF t
  <2>2. DOMAIN t = 1..Len(t)
    BY <2>1
  <2>3. /\ Ops(t) \in Seq(Nat \ {0}) /\ Len(Ops(t)) = Len(t)
        /\ \A i \in DOMAIN t : Ops(t)[i] = t[i].op
    BY <2>1, OpsOfSeq
  <2>4. \A i \in 1..Len(t) : Ops(t)[i] = t[i].op
    BY <2>2, <2>3
  <2> QED BY <2>3, <2>4, Zenon DEF t
<1>6. Ops(q) # <<>>
  BY <1>3, <1>4, EmptySeq
<1>7. /\ Tail(Ops(q)) \in Seq(Nat \ {0}) /\ Len(Tail(Ops(q))) = Len(Ops(q)) - 1
      /\ \A i \in 1..Len(Tail(Ops(q))) : Tail(Ops(q))[i] = Ops(q)[i + 1]
  BY <1>4, <1>6, HeadTail
<1>8. Ops(Tail(q)) = Tail(Ops(q))
  <2>1. Len(Ops(Tail(q))) = Len(Tail(q)) /\ Len(Tail(Ops(q))) = Len(Tail(q))
    BY <1>3, <1>4, <1>5, <1>7
  <2>2. ASSUME NEW i \in 1..Len(Tail(q))
        PROVE  Ops(Tail(q))[i] = Tail(Ops(q))[i]
    <3>1. Ops(Tail(q))[i] = q[i + 1].op /\ i + 1 \in 1..Len(q)
      BY <1>3, <1>5
    <3>2. Tail(Ops(q))[i] = Ops(q)[i + 1]
      BY <1>7, <2>1
    <3> QED BY <1>4, <3>1, <3>2
  <2> QED BY <1>5, <1>7, <2>1, <2>2, SameSeq
<1>9. pendingOps[currentUser] = Ops(q)
  BY <1>2 DEF pendingOps, q
<1>10. pendingOps' = [pendingOps EXCEPT ![currentUser] = Ops(Tail(q))]
  BY <1>2 DEF pendingOps, q
<1> QED BY <1>6, <1>8, <1>9, <1>10

\* An answer settles the first write of the queue.
LEMMA AnswerSettles ==
    ASSUME Inv, OnWriteStreamMutationResult
    PROVE  Queue!Next
<1>1. remote.replies # <<>> /\ remote.handshake /\ RemoteInv(remote)
  BY DEF Inv, OnWriteStreamMutationResult
<1>2. remote.pipeline # <<>> /\ remote.replies \in Seq(Nat)
  BY <1>1, AnswerHasWrite
<1>3. /\ remote'.handshake /\ remote'.replies = Tail(remote.replies)
      /\ mutationQueue' =
           [mutationQueue EXCEPT ![currentUser] = Tail(mutationQueue[currentUser])]
  BY MutationResultKeeps
<1>4. UNCHANGED <<currentUser, log>>
  BY DEF OnWriteStreamMutationResult
<1>5. currentUser \in Users
  BY DEF Inv, TypeOK
<1>6. Len(remote.replies) \in Nat \ {0} /\ Len(remote'.replies) = Len(remote.replies) - 1
  BY <1>1, <1>2, <1>3, HeadTail
<1>7. unreadReplies[currentUser] = Len(remote.replies)
  BY <1>1, <1>5 DEF unreadReplies
<1>8. unreadReplies' = [unreadReplies EXCEPT ![currentUser] = unreadReplies[currentUser] - 1]
  BY <1>1, <1>3, <1>4, <1>5, <1>6 DEF unreadReplies
<1>9. unreadReplies[currentUser] > 0
  BY <1>6, <1>7
<1>10. /\ pendingOps[currentUser] # <<>>
       /\ pendingOps' =
            [pendingOps EXCEPT ![currentUser] = Tail(pendingOps[currentUser])]
  BY <1>2, <1>3, FirstLeaves
<1>11. PICK u \in Users : u = currentUser
  BY <1>5
<1>12. Queue!Settle(u)
  BY <1>4, <1>8, <1>9, <1>10, <1>11 DEF Queue!Settle, pendingOps, unreadReplies
<1> QED BY <1>12, QueueStep

\* A permanent error drops the first write of the queue.
LEMMA ErrorRefuses ==
    ASSUME Inv, HandleWriteError
    PROVE  Queue!Next
<1>1. remote.pipeline # <<>>
  BY DEF HandleWriteError, RejectsWrite
<1>2. /\ ~remote'.handshake
      /\ mutationQueue' =
           [mutationQueue EXCEPT ![currentUser] = Tail(mutationQueue[currentUser])]
  BY WriteErrorKeeps
<1>3. UNCHANGED log
  BY DEF HandleWriteError
<1>4. unreadReplies' = [unreadReplies EXCEPT ![currentUser] = 0]
  BY <1>2 DEF unreadReplies
<1>5. /\ pendingOps[currentUser] # <<>>
      /\ pendingOps' =
           [pendingOps EXCEPT ![currentUser] = Tail(pendingOps[currentUser])]
  BY <1>1, <1>2, FirstLeaves
<1>6. PICK u \in Users : u = currentUser
  BY DEF Inv, TypeOK
<1>7. Queue!Refuse(u)
  BY <1>3, <1>4, <1>5, <1>6 DEF Queue!Refuse, pendingOps, unreadReplies
<1> QED BY <1>7, QueueStep

\* After the handshake the server commits the next pending write.
LEMMA ServerCommits ==
    ASSUME Inv, ServerTakes, remote.handshake
    PROVE  Queue!Next
<1> DEFINE q == mutationQueue[currentUser]
           k == Len(remote.replies)
<1>1. /\ RemoteInv(remote) /\ remote.sent # <<>> /\ remote.status = "none"
      /\ UNCHANGED <<mutationQueue, currentUser>>
      /\ log' = IF Head(remote.sent).op = 0 THEN log ELSE Append(log, Head(remote.sent).op)
  BY DEF Inv, ServerTakes, storeVars
<1>2. /\ k \in Nat /\ k + 1 \in DOMAIN remote.pipeline
      /\ Head(remote.sent) = remote.pipeline[k + 1]
  BY <1>1, NextSent
<1>3. /\ q \in Seq(Batch) /\ remote.pipeline \in Seq(Batch) /\ currentUser \in Users
      /\ remote.replies \in Seq(Nat)
  BY DEF Inv, TypeOK, RemoteState
<1>4. /\ remote'.handshake /\ remote'.replies = Append(remote.replies, Head(remote.sent).op)
  BY <1>1, ServerTakesKeeps
<1>5. Len(q) \in Nat /\ k + 1 \in DOMAIN q /\ Head(remote.sent) = q[k + 1]
  <2>1. /\ Len(remote.pipeline) \in Nat /\ DOMAIN remote.pipeline = 1..Len(remote.pipeline)
        /\ Len(q) \in Nat /\ DOMAIN q = 1..Len(q)
    BY <1>3
  <2>2. Len(remote.pipeline) <= Len(q) /\ remote.pipeline[k + 1] = q[k + 1]
    BY <1>2 DEF Inv, Begins
  <2> HIDE DEF q, k
  <2> QED BY <1>2, <2>1, <2>2
<1>6. /\ Len(Ops(q)) = Len(q) /\ Ops(q)[k + 1] = Head(remote.sent).op
      /\ Head(remote.sent).op \in Nat \ {0}
  BY <1>3, <1>5, OpsOfSeq, IdsOfSeq
<1>7. pendingOps[currentUser] = Ops(q) /\ pendingOps' = pendingOps
  BY <1>1, <1>3 DEF pendingOps
<1>8. unreadReplies[currentUser] = k
  BY <1>3 DEF unreadReplies
<1>9. Len(remote'.replies) = k + 1
  BY <1>3, <1>4, <1>6, AppendProperties
<1>10. unreadReplies' = [unreadReplies EXCEPT ![currentUser] = unreadReplies[currentUser] + 1]
  BY <1>1, <1>3, <1>4, <1>8, <1>9 DEF unreadReplies
<1>11. k < Len(q)
  <2>1. DOMAIN q = 1..Len(q)
    BY <1>3
  <2> HIDE DEF q, k
  <2> QED BY <1>2, <1>5, <2>1
<1>12. log' = Append(log, Ops(q)[k + 1])
  BY <1>1, <1>6
<1> HIDE DEF q, k
<1>13. PICK u \in Users : u = currentUser
  BY DEF Inv, TypeOK
<1>14. Queue!Commit(u)
  BY <1>6, <1>7, <1>8, <1>10, <1>11, <1>12, <1>13
     DEF Queue!Commit, pendingOps, unreadReplies
<1> QED BY <1>14, QueueStep

\* Every step is a step of the queues or changes nothing they show.
LEMMA NextRefines ==
    ASSUME Inv, [Next]_vars
    PROVE  Queue!Next \/ UNCHANGED <<pendingOps, log, unreadReplies>>
<1>0. RemoteInv(remote) /\ currentUser \in Users
  BY DEF Inv, TypeOK
<1>1. Queue!BeginAgain(currentUser) => Queue!Next
  BY <1>0 DEF Queue!Next, Queue!BeginAgain
<1>3. CASE WriteMutations
  BY <1>0, <1>3, WriteIsIssued DEF Queue!Next
<1>4. CASE OnWriteStreamMutationResult
  BY <1>0, <1>4, AnswerSettles
<1>5. CASE HandleWriteError
  BY <1>0, <1>5, ErrorRefuses
<1>6. CASE TokenArrives
  <2>1. UNCHANGED <<mutationQueue, log>>
    BY <1>6 DEF TokenArrives, storeVars
  <2> QED BY <1>0, <1>1, <1>6, <2>1, TokenArrivesKeeps, Forgets
<1>7. CASE StaleTokenArrives
  <2>1. UNCHANGED <<mutationQueue, currentUser, log>>
    BY <1>7 DEF StaleTokenArrives, storeVars
  <2> QED BY <1>0, <1>7, <2>1, StaleTokenArrivesKeeps, Stutters
<1>8. CASE OnWriteStreamHandshakeComplete
  <2>1. UNCHANGED <<mutationQueue, log>>
    BY <1>8 DEF OnWriteStreamHandshakeComplete, storeVars
  <2> QED BY <1>0, <1>1, <1>8, <2>1, HandshakeCompleteKeeps, Forgets
<1>9. CASE OnStreamFinish
  <2>1. UNCHANGED <<mutationQueue, log>>
    BY <1>9 DEF OnStreamFinish, storeVars
  <2> QED BY <1>0, <1>1, <1>9, <2>1, StreamFinishKeeps, Forgets
<1>10. CASE BackoffElapses
  <2>1. UNCHANGED <<mutationQueue, log>>
    BY <1>10 DEF BackoffElapses, storeVars
  <2> QED BY <1>0, <1>1, <1>10, <2>1, BackoffElapsesKeeps, Forgets
<1>11. CASE IdleTimeout
  <2>1. UNCHANGED <<mutationQueue, log>>
    BY <1>11 DEF IdleTimeout, storeVars
  <2> QED BY <1>0, <1>1, <1>11, <2>1, IdleTimeoutKeeps, Forgets
<1>12. CASE TokenFails
  <2>1. UNCHANGED <<mutationQueue, log>>
    BY <1>12 DEF TokenFails, storeVars
  <2> QED BY <1>0, <1>1, <1>12, <2>1, TokenFailsKeeps, Forgets
<1>13. CASE ConnectionFails
  <2>1. UNCHANGED <<mutationQueue, currentUser, log>>
    BY <1>13 DEF ConnectionFails, storeVars
  <2> QED BY <1>0, <1>13, <2>1, ConnectionFailsKeeps, Stutters
<1>14. CASE Dies \/ DiesAcknowledging
  <2>1. UNCHANGED <<mutationQueue, log>>
    BY <1>14 DEF Dies, DiesAcknowledging
  <2> QED BY <1>1, <1>14, <2>1, DiesKeeps, DiesAcknowledgingKeeps, Forgets
<1>15. CASE ConnectivityChanges
  <2>1. UNCHANGED <<mutationQueue, log>>
    BY <1>15 DEF ConnectivityChanges, storeVars
  <2> QED BY <1>1, <1>15, <2>1, ConnectivityChangesKeeps, Forgets
<1>16. CASE \E u \in Users : HandleCredentialChange(u)
  <2>1. UNCHANGED <<mutationQueue, log>>
    BY <1>16 DEF HandleCredentialChange
  <2> QED BY <1>1, <1>16, <2>1, CredentialChangeKeeps, Forgets
<1>17. CASE ServerTakes
  <2>1. CASE remote.handshake
    BY <1>0, <1>17, <2>1, ServerCommits
  <2>2. CASE ~remote.handshake
    <3>1. remote.sent # <<>> /\ remote.status = "none" /\ UNCHANGED mutationQueue
          /\ log' = IF Head(remote.sent).op = 0 THEN log
                    ELSE Append(log, Head(remote.sent).op)
      BY <1>17 DEF ServerTakes, storeVars
    <3>2. Head(remote.sent) = Handshake
      BY <1>0, <2>2, <3>1, NextSent
    <3>3. UNCHANGED log
      BY <3>1, <3>2 DEF Handshake
    <3>4. ~remote'.handshake
      BY <1>0, <1>17, <2>2, ServerTakesKeeps
    <3> QED BY <1>1, <3>1, <3>3, <3>4, Forgets
  <2> QED BY <2>1, <2>2
<1>18. CASE ServerRefuses
  <2>1. UNCHANGED <<mutationQueue, currentUser, log>>
    BY <1>18 DEF ServerRefuses, storeVars
  <2> QED BY <1>0, <1>18, <2>1, ServerRefusesKeeps, Stutters
<1>19. CASE UNCHANGED vars
  <2>1. UNCHANGED <<mutationQueue, currentUser, log, remote>>
    BY <1>19 DEF vars, storeVars
  <2> QED BY <2>1, Stutters
<1> QED BY <1>3, <1>4, <1>5, <1>6, <1>7, <1>8, <1>9, <1>10, <1>11, <1>12, <1>13,
           <1>14, <1>15, <1>16, <1>17, <1>18, <1>19 DEF Next, Handler

\* The write path of the SDK implements one queue per user whose front the
\* server commits, at least once and in order: no step, crash or change of user
\* shows anything else.
THEOREM ImplementsWriteQueueHolds == Spec => ImplementsWriteQueue
<1>1. Init => Queue!Init
  <2> SUFFICES ASSUME Init
               PROVE  Queue!Init
    OBVIOUS
  <2>1. Ops(<<>>) = <<>>
    BY EmptySeq DEF Ops
  <2> QED BY <2>1 DEF Init, Disconnected, Queue!Init
<1>2. Inv /\ [Next]_vars => [Queue!Next]_<<pendingOps, log, unreadReplies>>
  BY NextRefines
<1>3. Inv /\ [Next]_vars =>
        [Queue!Next]_<<[u \in Users |-> Ops(mutationQueue[u])], log,
                       [u \in Users |-> IF u = currentUser /\ remote.handshake
                                        THEN Len(remote.replies) ELSE 0]>>
  BY <1>2 DEF pendingOps, unreadReplies
<1> QED BY <1>1, <1>3, InvHolds, PTL DEF Spec, ImplementsWriteQueue, Queue!Spec

----------------------------------------------------------------------------
(* The fate of a write. *)

\* Each queue holds its user's writes in the order they were made, and with a
\* write all later ones of the user; only writes that were made are committed.
Made ==
    /\ \A u \in Users : \A i \in DOMAIN mutationQueue[u] :
         author[mutationQueue[u][i].op] = u
    /\ \A u \in Users : \A i, j \in DOMAIN mutationQueue[u] :
         i < j => mutationQueue[u][i].op < mutationQueue[u][j].op
    /\ \A u \in Users : \A i \in DOMAIN mutationQueue[u] : \A w \in DOMAIN author :
         author[w] = u /\ w > mutationQueue[u][i].op => Pending(w)
    /\ \A i \in DOMAIN log : log[i] \in DOMAIN author

\* The answers under way are those to the last commits, and a permanent error
\* is the refusal of the write after them.
Recent ==
    remote.handshake =>
        /\ Len(remote.replies) <= Len(log)
        /\ \A i \in DOMAIN remote.replies :
             log[Len(log) - Len(remote.replies) + i] = remote.replies[i]
        /\ remote.status = "permanent" =>
             remote.pipeline[Len(remote.replies) + 1].op \in refused

Fate == Made /\ Recent /\ NoWriteIsLost /\ LaterWritesWin

\* Pending and Committed, of given queues and a given log.
Held(queues, by, w) ==
    \E i \in DOMAIN queues[by[w]] : queues[by[w]][i].op = w

InLog(l, w) == \E i \in DOMAIN l : l[i] = w

\* A step that is about none of the writes.
LEMMA QuietKeepsFate ==
    ASSUME Fate, UNCHANGED <<mutationQueue, author, told, log, refused>>,
           \/ ~remote'.handshake
           \/ remote'.replies = <<>> /\ remote'.status # "permanent"
           \/ /\ remote'.handshake = remote.handshake
              /\ remote'.replies = remote.replies
              /\ remote'.pipeline = remote.pipeline
              /\ remote'.status = remote.status \/ remote'.status # "permanent",
           log \in Seq(Nat)
    PROVE  Fate'
<1>1. Made'
  BY DEF Fate, Made, Pending
<1>2. Recent'
  <2>1. CASE ~remote'.handshake
    BY <2>1 DEF Recent
  <2>2. CASE remote'.replies = <<>> /\ remote'.status # "permanent"
    <3>1. Len(<<>>) = 0 /\ DOMAIN <<>> = {} /\ Len(log') \in Nat
      BY EmptySeq
    <3> QED BY <2>2, <3>1 DEF Recent
  <2>3. CASE /\ remote'.handshake = remote.handshake
             /\ remote'.replies = remote.replies
             /\ remote'.pipeline = remote.pipeline
             /\ remote'.status = remote.status \/ remote'.status # "permanent"
    BY <2>3 DEF Fate, Recent
  <2> QED BY <2>1, <2>2, <2>3
<1>3. NoWriteIsLost'
  BY DEF Fate, NoWriteIsLost, Pending, Committed
<1>4. LaterWritesWin'
  BY DEF Fate, LaterWritesWin, Pending
<1> QED BY <1>1, <1>2, <1>3, <1>4 DEF Fate

\* The types that the proofs about the fate of writes need.
LEMMA TypesOfFate ==
    ASSUME Inv
    PROVE  /\ mutationQueue \in [Users -> Seq(Batch)] /\ currentUser \in Users
           /\ author \in Seq(Users) /\ log \in Seq(Nat) /\ refused \subseteq DOMAIN author
           /\ Len(author) \in Nat /\ DOMAIN author = 1..Len(author)
           /\ Len(log) \in Nat /\ DOMAIN log = 1..Len(log)
           /\ DOMAIN told = DOMAIN author
           /\ \A u \in Users : mutationQueue[u] \in Seq(Batch)
BY DEF Inv, TypeOK, Disk

\* The write that was refused is in the pipeline, after the answered ones.
LEMMA RefusedInPipeline ==
    ASSUME Inv, remote.handshake, remote.status = "permanent"
    PROVE  /\ Len(remote.replies) \in Nat
           /\ Len(remote.replies) + 1 \in DOMAIN remote.pipeline
<1> DEFINE np == Len(remote.pipeline)
           nr == Len(remote.replies)
           ns == Len(remote.sent)
<1>1. /\ nr \in Nat /\ ns \in Nat /\ np \in Nat /\ DOMAIN remote.pipeline = 1..np
      /\ remote.state = "open"
  BY DEF Inv, RemoteInv, Calm, RemoteState
<1>2. np = nr + 1 + ns
  BY <1>1 DEF Inv, RemoteInv, Wire
<1> HIDE DEF np, nr, ns
<1>3. nr + 1 \in 1..np
  BY <1>1, <1>2
<1> QED BY <1>1, <1>3 DEF nr

\* A new write is pending, and later than every other of its user.
LEMMA WriteKeepsFate ==
    ASSUME Inv, Fate, WriteMutations
    PROVE  Fate'
<1> DEFINE op == Len(author) + 1
           b == [id |-> nextBatchId, op |-> op]
           q == mutationQueue[currentUser]
           n == Append(q, b)
<1>1. /\ mutationQueue' = [mutationQueue EXCEPT ![currentUser] = n]
      /\ author' = Append(author, currentUser)
      /\ told' = Append(told, "nothing")
      /\ UNCHANGED <<currentUser, log, refused>>
  BY Zenon DEF WriteMutations
<1>2. /\ mutationQueue \in [Users -> Seq(Batch)] /\ currentUser \in Users
      /\ author \in Seq(Users) /\ log \in Seq(Nat) /\ q \in Seq(Batch)
      /\ told \in Seq({"nothing", "ok", "error"}) /\ Len(told) = Len(author)
      /\ Len(author) \in Nat /\ DOMAIN author = 1..Len(author)
      /\ refused \subseteq DOMAIN author /\ nextBatchId \in Nat
  BY TypesOfFate DEF Inv, TypeOK, Disk
<1>3. b \in Batch /\ b.op = op /\ op \in Nat \ {0}
  BY <1>2 DEF Batch
<1> HIDE DEF b
<1>4. /\ n \in Seq(Batch) /\ Len(n) = Len(q) + 1 /\ n[Len(q) + 1] = b
      /\ \A i \in 1..Len(q) : n[i] = q[i]
      /\ Len(q) \in Nat /\ DOMAIN q = 1..Len(q) /\ DOMAIN n = 1..Len(q) + 1
  BY <1>2, <1>3, AppendProperties
<1> HIDE DEF n
<1>5. /\ DOMAIN author' = 1..op /\ author'[op] = currentUser
      /\ \A w \in DOMAIN author : author'[w] = author[w]
  <2>1. author' \in Seq(Users) /\ Len(author') = op
        /\ author'[op] = currentUser /\ \A w \in 1..Len(author) : author'[w] = author[w]
    BY <1>1, <1>2, AppendProperties
  <2> QED BY <1>2, <2>1
<1>6. /\ told'[op] = "nothing" /\ \A w \in DOMAIN author : told'[w] = told[w]
  <2>1. told'[Len(told) + 1] = "nothing" /\ \A w \in 1..Len(told) : told'[w] = told[w]
    BY <1>1, <1>2, AppendProperties
  <2> QED BY <1>2, <2>1
<1>7. \A w \in DOMAIN author : w \in Nat /\ w < op /\ w \in DOMAIN author'
  BY <1>2, <1>5
<1> HIDE DEF op, q
<1>8. /\ mutationQueue'[currentUser] = n
      /\ \A u \in Users \ {currentUser} : mutationQueue'[u] = mutationQueue[u]
  BY <1>1, <1>2
<1>9. ASSUME NEW w \in DOMAIN author, Pending(w)
      PROVE  Held(mutationQueue', author', w)
  <2>1. author[w] \in Users
    BY <1>2, <1>9
  <2>2. PICK i \in DOMAIN mutationQueue[author[w]] : mutationQueue[author[w]][i].op = w
    BY <1>9 DEF Pending
  <2>3. i \in DOMAIN mutationQueue'[author[w]] /\ mutationQueue'[author[w]][i].op = w
    <3>1. CASE author[w] = currentUser
      <4>1. i \in DOMAIN q /\ q[i].op = w
        BY <2>2, <3>1 DEF q
      <4> QED BY <1>4, <1>8, <3>1, <4>1
    <3>2. CASE author[w] # currentUser
      BY <1>8, <2>1, <2>2, <3>2
    <3> QED BY <3>1, <3>2
  <2>4. author'[w] = author[w]
    BY <1>5
  <2> QED BY <2>3, <2>4 DEF Held
<1>10. Held(mutationQueue', author', op)
  <2>1. Len(q) + 1 \in DOMAIN n /\ n[Len(q) + 1].op = op
    BY <1>3, <1>4
  <2>2. op \in DOMAIN author' /\ author'[op] = currentUser
    BY <1>3, <1>5
  <2> QED BY <1>8, <2>1, <2>2 DEF Held
<1>11. \A u \in Users : \A i \in DOMAIN mutationQueue[u] :
         /\ mutationQueue[u][i].op \in DOMAIN author
         /\ author[mutationQueue[u][i].op] = u
  BY DEF Inv, Disk, Fate, Made
<1>12. ASSUME NEW u \in Users, NEW i \in DOMAIN mutationQueue'[u]
       PROVE  \/ i \in DOMAIN mutationQueue[u] /\ mutationQueue'[u][i] = mutationQueue[u][i]
              \/ u = currentUser /\ i = Len(q) + 1 /\ mutationQueue'[u][i].op = op
  <2>1. CASE u = currentUser
    <3>1. mutationQueue'[u] = n /\ mutationQueue[u] = q
      BY <1>8, <2>1 DEF q
    <3>2. i \in 1..Len(q) + 1
      BY <1>4, <1>12, <3>1
    <3>3. CASE i = Len(q) + 1
      BY <1>3, <1>4, <2>1, <3>1, <3>3
    <3>4. CASE i # Len(q) + 1
      <4>1. i \in 1..Len(q)
        BY <1>4, <3>2, <3>4
      <4> QED BY <1>4, <3>1, <4>1
    <3> QED BY <3>3, <3>4
  <2>2. CASE u # currentUser
    BY <1>8, <1>12, <2>2
  <2> QED BY <2>1, <2>2
<1>13. Made'
  <2>1. ASSUME NEW u \in Users, NEW i \in DOMAIN mutationQueue'[u]
        PROVE  author'[mutationQueue'[u][i].op] = u
    BY <1>5, <1>11, <1>12
  <2>2. ASSUME NEW u \in Users, NEW i \in DOMAIN mutationQueue'[u],
               NEW j \in DOMAIN mutationQueue'[u], i < j
        PROVE  mutationQueue'[u][i].op < mutationQueue'[u][j].op
    <3>1. CASE j \in DOMAIN mutationQueue[u] /\ mutationQueue'[u][j] = mutationQueue[u][j]
      <4>1. i \in DOMAIN mutationQueue[u] /\ mutationQueue'[u][i] = mutationQueue[u][i]
        <5>1. CASE u = currentUser /\ i = Len(q) + 1
          <6>1. j \in 1..Len(q)
            BY <1>4, <3>1, <5>1 DEF q
          <6> QED BY <1>4, <2>2, <5>1, <6>1
        <5> QED BY <1>12, <5>1
      <4> QED BY <2>2, <3>1, <4>1 DEF Fate, Made
    <3>2. CASE u = currentUser /\ j = Len(q) + 1 /\ mutationQueue'[u][j].op = op
      <4>1. i \in DOMAIN mutationQueue[u] /\ mutationQueue'[u][i] = mutationQueue[u][i]
        <5>1. i # Len(q) + 1
          BY <1>4, <2>2, <3>2
        <5> QED BY <1>12, <5>1
      <4> QED BY <1>7, <1>11, <3>2, <4>1
    <3> QED BY <1>12, <3>1, <3>2
  <2>3. ASSUME NEW u \in Users, NEW i \in DOMAIN mutationQueue'[u],
               NEW w \in DOMAIN author', author'[w] = u, w > mutationQueue'[u][i].op
        PROVE  Held(mutationQueue', author', w)
    <3>1. CASE w = op
      BY <1>10, <3>1
    <3>2. CASE w # op
      <4>1. w \in DOMAIN author
        BY <1>2, <1>5, <3>2 DEF op
      <4>2. mutationQueue'[u][i].op # op
        <5>1. w \in Nat /\ op \in Nat /\ w < op /\ w > mutationQueue'[u][i].op
          BY <1>3, <1>7, <2>3, <4>1
        <5> QED BY <5>1
      <4>3. i \in DOMAIN mutationQueue[u] /\ mutationQueue'[u][i] = mutationQueue[u][i]
        BY <1>12, <4>2
      <4>4. Pending(w)
        BY <1>5, <2>3, <4>1, <4>3 DEF Fate, Made
      <4> QED BY <1>9, <4>1, <4>4
    <3> QED BY <3>1, <3>2
  <2>4. \A i \in DOMAIN log' : log'[i] \in DOMAIN author'
    BY <1>1, <1>7 DEF Fate, Made
  <2>5. \A u \in Users : \A i \in DOMAIN mutationQueue'[u] : \A w \in DOMAIN author' :
          author'[w] = u /\ w > mutationQueue'[u][i].op => Pending(w)'
    BY <2>3 DEF Held, Pending
  <2>6. \A u \in Users : \A i, j \in DOMAIN mutationQueue'[u] :
          i < j => mutationQueue'[u][i].op < mutationQueue'[u][j].op
    BY <2>2
  <2>7. \A u \in Users : \A i \in DOMAIN mutationQueue'[u] :
          author'[mutationQueue'[u][i].op] = u
    BY <2>1
  <2> QED BY <2>4, <2>5, <2>6, <2>7, Zenon DEF Made
<1>14. Recent'
  <2> SUFFICES ASSUME remote'.handshake
               PROVE  /\ Len(remote'.replies) <= Len(log')
                      /\ \A i \in DOMAIN remote'.replies :
                           log'[Len(log') - Len(remote'.replies) + i] = remote'.replies[i]
                      /\ remote'.status = "permanent" =>
                           remote'.pipeline[Len(remote'.replies) + 1].op \in refused'
    BY Zenon DEF Recent
  <2>1. /\ remote.handshake /\ remote'.replies = remote.replies
        /\ remote'.status = remote.status
        /\ \A i \in DOMAIN remote.pipeline : remote'.pipeline[i] = remote.pipeline[i]
    BY WriteMutationsKeeps
  <2>2. remote.status = "permanent" => Len(remote.replies) + 1 \in DOMAIN remote.pipeline
    BY <2>1, RefusedInPipeline
  <2> QED BY <1>1, <2>1, <2>2 DEF Fate, Recent
<1>15. NoWriteIsLost'
  <2>1. ASSUME NEW w \in DOMAIN author'
        PROVE  /\ Held(mutationQueue', author', w) \/ InLog(log', w) \/ w \in refused'
               /\ told'[w] = "ok" => InLog(log', w)
    <3>1. CASE w = op
      BY <1>6, <1>10, <3>1
    <3>2. CASE w # op
      <4>1. w \in DOMAIN author
        BY <1>2, <1>5, <3>2 DEF op
      <4>2. InLog(log', w) <=> Committed(w)
        BY <1>1 DEF Committed, InLog
      <4> QED BY <1>1, <1>6, <1>9, <4>1, <4>2 DEF Fate, NoWriteIsLost
    <3> QED BY <3>1, <3>2
  <2> QED BY <2>1 DEF NoWriteIsLost, Held, InLog, Pending, Committed
<1>16. LaterWritesWin'
  <2>1. ASSUME NEW i \in DOMAIN log', NEW j \in DOMAIN log',
               i < j, log'[j] < log'[i], author'[log'[j]] = author'[log'[i]]
        PROVE  \/ Held(mutationQueue', author', log'[i])
               \/ log'[i] \in refused'
               \/ \E k \in j + 1..Len(log') : log'[k] = log'[i]
    <3>1. log[i] \in DOMAIN author /\ log[j] \in DOMAIN author
      BY <1>1, <2>1 DEF Fate, Made
    <3>2. i \in DOMAIN log /\ j \in DOMAIN log /\ log[j] < log[i]
          /\ author[log[j]] = author[log[i]]
      BY <1>1, <1>5, <2>1, <3>1
    <3>3. \/ Pending(log[i]) \/ log[i] \in refused
          \/ \E k \in j + 1..Len(log) : log[k] = log[i]
      BY <2>1, <3>2 DEF Fate, LaterWritesWin
    <3>4. CASE Pending(log[i])
      <4> DEFINE w == log[i]
      <4>1. w \in DOMAIN author /\ Pending(w)
        BY <3>1, <3>4
      <4>2. log'[i] = w
        BY <1>1
      <4> HIDE DEF w
      <4>3. Held(mutationQueue', author', w)
        BY <1>9, <4>1
      <4> QED BY <4>2, <4>3
    <3> QED BY <1>1, <3>3, <3>4
  <2> QED BY <2>1 DEF LaterWritesWin, Held, Pending
<1> QED BY <1>13, <1>14, <1>15, <1>16 DEF Fate

\* The first write of the queue leaves it, committed or refused, and perhaps
\* its caller is told of a success.
LEMMA FirstKeepsFate ==
    ASSUME Inv, Fate, remote.pipeline # <<>>,
           NEW w0, w0 = Head(mutationQueue[currentUser]).op,
           \/ mutationQueue' = mutationQueue
           \/ mutationQueue' =
                [mutationQueue EXCEPT ![currentUser] = Tail(mutationQueue[currentUser])],
           UNCHANGED <<author, log, refused>>,
           \A w \in DOMAIN author :
             told'[w] = "ok" => told[w] = "ok" \/ (w = w0 /\ Committed(w0)),
           \/ w0 \in refused
           \/ /\ remote.handshake /\ remote.replies # <<>>
              /\ Head(remote.replies) = w0
    PROVE  Made' /\ NoWriteIsLost' /\ LaterWritesWin'
<1> DEFINE q == mutationQueue[currentUser]
           t == Tail(q)
           nl == Len(log)
           nr == Len(remote.replies)
           k0 == nl - nr + 1
<1>1. /\ mutationQueue \in [Users -> Seq(Batch)] /\ currentUser \in Users
      /\ q \in Seq(Batch) /\ q # <<>> /\ author \in Seq(Users)
      /\ \A u \in Users : mutationQueue[u] \in Seq(Batch)
      /\ nl \in Nat /\ DOMAIN log = 1..nl
  BY TypesOfFate, FirstOfPipeline
<1>2. /\ Len(q) \in Nat \ {0} /\ t \in Seq(Batch) /\ Len(t) = Len(q) - 1 /\ w0 = q[1].op
      /\ DOMAIN q = 1..Len(q) /\ DOMAIN t = 1..Len(t)
      /\ \A i \in 1..Len(t) : i + 1 \in 1..Len(q) /\ t[i] = q[i + 1]
  <2>1. /\ Len(q) \in Nat \ {0} /\ t \in Seq(Batch) /\ Len(t) = Len(q) - 1 /\ Head(q) = q[1]
        /\ \A i \in 1..Len(t) : i + 1 \in 1..Len(q) /\ t[i] = q[i + 1]
    BY <1>1, HeadTail
  <2> QED BY <1>1, <2>1
<1>3. /\ \A i \in DOMAIN q : q[i].op \in Nat /\ author[q[i].op] = currentUser
      /\ \A i, j \in DOMAIN q : i < j => q[i].op < q[j].op
  BY <1>1, IdsOfSeq DEF Fate, Made
<1> HIDE DEF q, t
<1>4. ASSUME NEW u \in Users, NEW i \in DOMAIN mutationQueue'[u]
      PROVE  \E j \in DOMAIN mutationQueue[u] :
               /\ mutationQueue'[u][i] = mutationQueue[u][j]
               /\ j = i \/ (j = i + 1 /\ u = currentUser /\ mutationQueue'[u] = t)
  <2>1. CASE mutationQueue'[u] = mutationQueue[u]
    <3>1. i \in DOMAIN mutationQueue[u] /\ mutationQueue'[u][i] = mutationQueue[u][i]
      BY <1>4, <2>1
    <3>2. i \in DOMAIN mutationQueue[u]
      BY <3>1
    <3> WITNESS i \in DOMAIN mutationQueue[u]
    <3> QED BY <3>1
  <2>2. CASE u = currentUser /\ mutationQueue'[u] = t
    <3>1. i \in 1..Len(t) /\ mutationQueue[u] = q
      BY <1>2, <1>4, <2>2 DEF q
    <3>2. i + 1 \in DOMAIN mutationQueue[u]
      BY <1>2, <3>1
    <3> QED BY <1>2, <2>2, <3>1, <3>2
  <2> QED BY <1>1, <2>1, <2>2 DEF t, q
<1>5. ASSUME NEW w \in DOMAIN author, Pending(w), w # w0
      PROVE  Held(mutationQueue', author', w)
  <2>1. author[w] \in Users /\ author'[w] = author[w]
    BY <1>1
  <2>2. PICK i \in DOMAIN mutationQueue[author[w]] : mutationQueue[author[w]][i].op = w
    BY <1>5 DEF Pending
  <2>3. CASE mutationQueue'[author[w]] = mutationQueue[author[w]]
    BY <2>1, <2>2, <2>3 DEF Held
  <2>4. CASE author[w] = currentUser /\ mutationQueue'[currentUser] = t
    <3>1. i \in 1..Len(q) /\ q[i].op = w
      BY <1>2, <2>2, <2>4 DEF q
    <3>2. i # 1
      BY <1>2, <1>5, <3>1
    <3>3. i - 1 \in 1..Len(t) /\ (i - 1) + 1 = i
      <4> DEFINE n == Len(q)
                 m == Len(t)
      <4>1. i # 1 /\ i \in 1..n /\ n \in Nat /\ m = n - 1
        BY <1>2, <3>1, <3>2
      <4> HIDE DEF n, m
      <4>2. i - 1 \in 1..m /\ (i - 1) + 1 = i
        BY <4>1
      <4> QED BY <4>2 DEF m
    <3>4. i - 1 \in DOMAIN t /\ t[i - 1].op = w
      BY <1>2, <3>1, <3>3
    <3> QED BY <2>1, <2>4, <3>4 DEF Held
  <2> QED BY <1>1, <2>1, <2>3, <2>4 DEF t, q
<1>6. Made'
  <2>1. ASSUME NEW u \in Users, NEW i \in DOMAIN mutationQueue'[u]
        PROVE  author'[mutationQueue'[u][i].op] = u
    BY <1>4 DEF Fate, Made
  <2>2. ASSUME NEW u \in Users, NEW i \in DOMAIN mutationQueue'[u],
               NEW j \in DOMAIN mutationQueue'[u], i < j
        PROVE  mutationQueue'[u][i].op < mutationQueue'[u][j].op
    <3>1. CASE mutationQueue'[u] = mutationQueue[u]
      BY <2>2, <3>1 DEF Fate, Made
    <3>2. CASE u = currentUser /\ mutationQueue'[u] = t
      <4>1. i \in 1..Len(t) /\ j \in 1..Len(t)
        BY <1>2, <2>2, <3>2
      <4>2. i + 1 < j + 1
        BY <2>2, <4>1
      <4>3. /\ i + 1 \in DOMAIN q /\ t[i] = q[i + 1]
            /\ j + 1 \in DOMAIN q /\ t[j] = q[j + 1]
        BY <1>2, <4>1
      <4>4. q[i + 1].op < q[j + 1].op
        BY <1>3, <4>2, <4>3
      <4> QED BY <3>2, <4>3, <4>4
    <3> QED BY <1>1, <3>1, <3>2 DEF t, q
  <2>3. ASSUME NEW u \in Users, NEW i \in DOMAIN mutationQueue'[u],
               NEW w \in DOMAIN author', author'[w] = u, w > mutationQueue'[u][i].op
        PROVE  Held(mutationQueue', author', w)
    <3>1. PICK j \in DOMAIN mutationQueue[u] :
            /\ mutationQueue'[u][i] = mutationQueue[u][j]
            /\ j = i \/ (j = i + 1 /\ u = currentUser /\ mutationQueue'[u] = t)
      BY <1>4
    <3>2. w \in DOMAIN author /\ Pending(w)
      BY <2>3, <3>1 DEF Fate, Made
    <3>3. CASE w # w0
      BY <1>5, <3>2, <3>3
    <3>4. CASE w = w0
      <4>1. u = currentUser /\ author[w0] = currentUser
        BY <1>2, <1>3, <2>3, <3>4
      <4>2. j \in 1..Len(q) /\ q[j].op < q[1].op
        BY <1>1, <1>2, <2>3, <3>1, <3>4, <4>1 DEF q
      <4>3. 1 \in DOMAIN q /\ (j = 1 \/ 1 < j)
        BY <1>2, <4>2
      <4>4. q[j].op \in Nat /\ q[1].op \in Nat
        BY <1>2, <1>3, <4>2
      <4>5. FALSE
        BY <1>2, <1>3, <4>2, <4>3, <4>4
      <4> QED BY <4>5
    <3> QED BY <3>3, <3>4
  <2>4. \A i \in DOMAIN log' : log'[i] \in DOMAIN author'
    BY DEF Fate, Made
  <2> QED BY <2>1, <2>2, <2>3, <2>4 DEF Made, Held, Pending
<1>7. ASSUME remote.handshake, remote.replies # <<>>, Head(remote.replies) = w0
      PROVE  /\ nr \in Nat \ {0} /\ nr <= nl /\ log[k0] = w0 /\ k0 \in 1..nl
             /\ \A j \in k0..nl : \E i \in DOMAIN q : log[j] = q[i].op
  <2>1. remote.replies \in Seq(Nat) /\ remote.pipeline \in Seq(Batch)
    BY DEF Inv, TypeOK, RemoteState
  <2>2. nr \in Nat \ {0} /\ Head(remote.replies) = remote.replies[1]
        /\ DOMAIN remote.replies = 1..nr
    BY <1>7, <2>1, HeadTail
  <2>3. nr <= nl /\ \A i \in 1..nr : log[nl - nr + i] = remote.replies[i]
    BY <1>7, <2>2 DEF Fate, Recent
  <2>4. nr <= Len(remote.pipeline) /\ \A i \in 1..nr : remote.replies[i] = remote.pipeline[i].op
    BY <1>7, <2>2, AnswersMatchInv DEF AnswersMatch
  <2>5. /\ Len(remote.pipeline) \in Nat /\ DOMAIN remote.pipeline = 1..Len(remote.pipeline)
        /\ Len(remote.pipeline) <= Len(q)
        /\ \A i \in DOMAIN remote.pipeline : remote.pipeline[i] = q[i]
    BY <2>1 DEF Inv, Begins, q
  <2> HIDE DEF nr, nl
  <2>6. \A i \in 1..nr : i \in DOMAIN q /\ remote.replies[i] = q[i].op
    <3> DEFINE np == Len(remote.pipeline)
               nq == Len(q)
    <3>1. np \in Nat /\ nq \in Nat /\ np <= nq /\ nr <= np /\ nr \in Nat
      BY <1>2, <2>2, <2>4, <2>5
    <3>2. DOMAIN remote.pipeline = 1..np /\ DOMAIN q = 1..nq
      BY <1>2, <2>5
    <3> HIDE DEF np, nq
    <3>3. 1..nr \subseteq 1..np /\ 1..nr \subseteq 1..nq
      BY <3>1
    <3> QED BY <2>4, <2>5, <3>2, <3>3
  <2>7. k0 \in 1..nl /\ k0 = nl - nr + 1 /\ 1 \in 1..nr
    BY <1>1, <2>2, <2>3
  <2>8. log[k0] = w0
    BY <1>7, <2>2, <2>3, <2>7
  <2>9. ASSUME NEW j \in k0..nl
        PROVE  \E i \in DOMAIN q : log[j] = q[i].op
    <3> DEFINE i == j - (nl - nr)
    <3>1. i \in 1..nr /\ nl - nr + i = j
      BY <1>1, <2>2, <2>3
    <3> HIDE DEF i
    <3> QED BY <2>3, <2>6, <3>1
  <2> QED BY <2>2, <2>3, <2>7, <2>8, <2>9
<1>8. w0 \in refused \/ Committed(w0)
  BY <1>1, <1>7 DEF Committed
<1>9. NoWriteIsLost'
  <2>1. ASSUME NEW w \in DOMAIN author
        PROVE  /\ Held(mutationQueue', author', w) \/ Committed(w) \/ w \in refused
               /\ told'[w] = "ok" => Committed(w)
    BY <1>5, <1>8 DEF Fate, NoWriteIsLost
  <2> QED BY <2>1 DEF NoWriteIsLost, Held, Pending, Committed
<1>10. LaterWritesWin'
  <2>1. ASSUME NEW i \in DOMAIN log, NEW j \in DOMAIN log,
               i < j, log[j] < log[i], author[log[j]] = author[log[i]]
        PROVE  \/ Held(mutationQueue', author', log[i])
               \/ log[i] \in refused
               \/ \E k \in j + 1..Len(log) : log[k] = log[i]
    <3>1. log[i] \in DOMAIN author
      BY DEF Fate, Made
    <3>2. \/ Pending(log[i]) \/ log[i] \in refused
          \/ \E k \in j + 1..Len(log) : log[k] = log[i]
      BY <2>1 DEF Fate, LaterWritesWin
    <3>3. CASE Pending(log[i]) /\ log[i] # w0
      <4> DEFINE w == log[i]
      <4>1. w \in DOMAIN author /\ Pending(w) /\ w # w0
        BY <3>1, <3>3
      <4> HIDE DEF w
      <4>2. Held(mutationQueue', author', w)
        BY <1>5, <4>1
      <4> QED BY <4>2 DEF w
    <3>4. CASE log[i] = w0 /\ w0 \notin refused
      <4>1. /\ log[k0] = w0 /\ k0 \in 1..nl
            /\ \A n \in k0..nl : \E m \in DOMAIN q : log[n] = q[m].op
        BY <1>7, <3>4
      <4>2. j < k0
        <5> SUFFICES ASSUME ~(j < k0)
                     PROVE  FALSE
          OBVIOUS
        <5>1. j \in k0..nl
          <6> HIDE DEF nl, k0
          <6> QED BY <1>1, <4>1
        <5>2. PICK m \in DOMAIN q : log[j] = q[m].op
          BY <4>1, <5>1
        <5>3. q[m].op < q[1].op
          BY <1>2, <2>1, <3>4, <5>2
        <5>4. m \in 1..Len(q) /\ (m = 1 \/ 1 < m) /\ 1 \in DOMAIN q
          BY <1>2
        <5>5. q[m].op \in Nat /\ q[1].op \in Nat /\ (1 < m => q[1].op < q[m].op)
          BY <1>2, <1>3, <5>4
        <5> QED BY <5>3, <5>4, <5>5
      <4>3. k0 \in j + 1..nl
        <5> HIDE DEF nl, k0
        <5> QED BY <1>1, <4>1, <4>2
      <4> QED BY <3>4, <4>1, <4>3
    <3> QED BY <3>2, <3>3, <3>4
  <2> QED BY <2>1 DEF LaterWritesWin, Held, Pending
<1> QED BY <1>6, <1>9, <1>10

\* Only the caller of the first write can be told of its success.
LEMMA ToldOfFirst ==
    ASSUME Inv, Fate, remote.pipeline # <<>>, NEW outcome \in {"ok", "error"},
           NEW w0, w0 = Head(mutationQueue[currentUser]).op,
           outcome = "ok" => Committed(w0),
           told' = [w \in DOMAIN told |->
                      IF \E c \in {d \in mutationCallbacks[currentUser] :
                                     d.id = Head(remote.pipeline).id} : c.op = w
                      THEN outcome ELSE told[w]]
    PROVE  \A w \in DOMAIN author :
             told'[w] = "ok" => told[w] = "ok" \/ (w = w0 /\ Committed(w0))
<1> DEFINE q == mutationQueue[currentUser]
           b == Head(remote.pipeline)
<1>1. q \in Seq(Batch) /\ q # <<>> /\ b = Head(q) /\ Ascending(q)
  BY FirstOfPipeline DEF Inv, TypeOK, Disk
<1>2. b = q[1] /\ Len(q) \in Nat \ {0} /\ DOMAIN q = 1..Len(q)
  BY <1>1, HeadTail
<1> HIDE DEF b
<1>3. ASSUME NEW c \in mutationCallbacks[currentUser], c.id = b.id
      PROVE  c.op = w0
  <2>1. PICK i \in DOMAIN q : q[i] = c
    BY <1>3 DEF Inv, TypeOK, Disk
  <2> HIDE DEF q
  <2>2. q[i].id \in Nat /\ q[1].id \in Nat /\ q[i].id = q[1].id /\ 1 \in DOMAIN q
    BY <1>1, <1>2, <1>3, <2>1, IdsOfSeq
  <2>3. i = 1 \/ 1 < i
    BY <1>2
  <2>4. i = 1
    BY <1>1, <2>2, <2>3 DEF Ascending
  <2> QED BY <1>1, <1>2, <2>1, <2>4 DEF q
<1>4. DOMAIN told = DOMAIN author
  BY TypesOfFate
<1>5. ASSUME NEW w \in DOMAIN author, told'[w] = "ok", told[w] # "ok"
      PROVE  w = w0 /\ Committed(w0)
  <2>1. /\ \E c \in {d \in mutationCallbacks[currentUser] : d.id = b.id} : c.op = w
        /\ outcome = "ok"
    BY <1>4, <1>5 DEF b
  <2> QED BY <1>3, <2>1
<1> QED BY <1>5

\* The oldest answer under way is for a committed write, the first of the queue.
LEMMA FirstAnswered ==
    ASSUME Inv, Fate, remote.handshake, remote.replies # <<>>
    PROVE  /\ remote.pipeline # <<>>
           /\ Head(remote.replies) = Head(mutationQueue[currentUser]).op
           /\ Committed(Head(mutationQueue[currentUser]).op)
<1>1. RemoteInv(remote)
  BY DEF Inv
<1>2. /\ remote.pipeline # <<>> /\ Head(remote.replies) = Head(remote.pipeline).op
      /\ remote.replies \in Seq(Nat)
  BY <1>1, AnswerHasWrite
<1>3. Head(remote.pipeline) = Head(mutationQueue[currentUser])
  BY <1>2, FirstOfPipeline
<1> DEFINE nl == Len(log)
           nr == Len(remote.replies)
<1>4. /\ nr \in Nat \ {0} /\ Head(remote.replies) = remote.replies[1]
      /\ DOMAIN remote.replies = 1..nr /\ nl \in Nat /\ DOMAIN log = 1..nl
  BY <1>2, HeadTail, TypesOfFate
<1>5. nr <= nl /\ log[nl - nr + 1] = remote.replies[1]
  <2>1. /\ nr <= nl
        /\ \A i \in DOMAIN remote.replies : log[nl - nr + i] = remote.replies[i]
    BY DEF Fate, Recent
  <2> HIDE DEF nl, nr
  <2>2. 1 \in DOMAIN remote.replies
    BY <1>4
  <2> QED BY <2>1, <2>2
<1> HIDE DEF nl, nr
<1>6. nl - nr + 1 \in DOMAIN log
  BY <1>4, <1>5
<1> QED BY <1>2, <1>3, <1>4, <1>5, <1>6 DEF Committed

\* The write that an answer takes off the disk was committed.
LEMMA ResultKeepsFate ==
    ASSUME Inv, Fate, OnWriteStreamMutationResult
    PROVE  Fate'
<1> DEFINE w0 == Head(mutationQueue[currentUser]).op
           r == remote.replies
           p == remote.pipeline
<1>1. /\ r # <<>> /\ remote.handshake /\ UNCHANGED <<currentUser, author, log, refused>>
      /\ NotifyUser(Head(p), "ok")
  BY Zenon DEF OnWriteStreamMutationResult
<1>2. p # <<>> /\ Head(r) = w0 /\ Committed(w0)
  BY <1>1, FirstAnswered
<1>3. /\ remote'.handshake /\ remote'.replies = Tail(r) /\ remote'.status = remote.status
      /\ \A i \in DOMAIN Tail(p) : remote'.pipeline[i] = Tail(p)[i]
      /\ mutationQueue' =
           [mutationQueue EXCEPT ![currentUser] = Tail(mutationQueue[currentUser])]
  BY MutationResultKeeps
<1>4. told' = [w \in DOMAIN told |->
                 IF \E c \in {d \in mutationCallbacks[currentUser] :
                                d.id = Head(p).id} : c.op = w
                 THEN "ok" ELSE told[w]]
  BY <1>1, Zenon DEF NotifyUser
<1>5. \A w \in DOMAIN author :
        told'[w] = "ok" => told[w] = "ok" \/ (w = w0 /\ Committed(w0))
  BY <1>2, <1>4, ToldOfFirst
<1>6. Made' /\ NoWriteIsLost' /\ LaterWritesWin'
  <2> HIDE DEF w0
  <2>1. w0 = Head(mutationQueue[currentUser]).op
    BY DEF w0
  <2> QED BY <1>1, <1>2, <1>3, <1>5, <2>1, FirstKeepsFate
<1>7. Recent'
  <2> DEFINE n == Len(r)
             m == Len(Tail(r))
             l == Len(log)
  <2>1. /\ r \in Seq(Nat) /\ p \in Seq(Batch) /\ l \in Nat
    BY TypesOfFate DEF Inv, TypeOK, RemoteState
  <2>2. /\ n \in Nat \ {0} /\ Tail(r) \in Seq(Nat) /\ m = n - 1
        /\ \A i \in 1..m : i + 1 \in 1..n /\ Tail(r)[i] = r[i + 1]
    BY <1>1, <2>1, HeadTail
  <2>3. DOMAIN r = 1..n /\ DOMAIN Tail(r) = 1..m
    BY <2>1, <2>2
  <2>4. /\ n <= l /\ \A i \in 1..n : log[l - n + i] = r[i]
        /\ remote.status = "permanent" => p[n + 1].op \in refused
    BY <1>1, <2>3 DEF Fate, Recent
  <2>5. /\ Len(p) \in Nat \ {0} /\ Len(Tail(p)) = Len(p) - 1 /\ Tail(p) \in Seq(Batch)
        /\ \A i \in 1..Len(Tail(p)) : i + 1 \in 1..Len(p) /\ Tail(p)[i] = p[i + 1]
    BY <1>2, <2>1, HeadTail
  <2>6. DOMAIN p = 1..Len(p) /\ DOMAIN Tail(p) = 1..Len(Tail(p))
    BY <2>1, <2>5
  <2>7. remote.status = "permanent" => n + 1 \in 1..Len(p)
    BY <1>1, <2>6, RefusedInPipeline
  <2> HIDE DEF n, m, l, r, p
  <2>8. m <= l
    BY <2>1, <2>2, <2>4
  <2>9. ASSUME NEW i \in 1..m
        PROVE  log[l - m + i] = Tail(r)[i]
    <3>1. l - m + i = l - n + (i + 1) /\ i + 1 \in 1..n
      BY <2>1, <2>2
    <3> QED BY <2>2, <2>4, <3>1
  <2>10. ASSUME remote.status = "permanent"
         PROVE  remote'.pipeline[m + 1].op \in refused
    <3>1. m + 1 = n /\ n \in DOMAIN Tail(p)
      <4> DEFINE np == Len(p)
                 nt == Len(Tail(p))
      <4>1. /\ np \in Nat /\ nt = np - 1 /\ n + 1 \in 1..np /\ n \in Nat \ {0}
            /\ m = n - 1
        BY <2>2, <2>5, <2>7, <2>10
      <4> HIDE DEF np, nt
      <4>2. m + 1 = n /\ n \in 1..nt
        BY <4>1
      <4> QED BY <2>6, <4>2 DEF nt
    <3>2. Tail(p)[n] = p[n + 1]
      BY <2>5, <2>6, <3>1
    <3> QED BY <1>3, <2>4, <2>10, <3>1, <3>2
  <2>11. Len(remote'.replies) = m /\ Len(log') = l /\ log' = log /\ refused' = refused
         /\ remote'.replies = Tail(r)
    BY <1>1, <1>3 DEF m, l
  <2> QED BY <1>3, <2>3, <2>8, <2>9, <2>10, <2>11 DEF Recent
<1> QED BY <1>6, <1>7 DEF Fate

\* The write that an error drops was refused, unless it had been committed and
\* its answer came too late.
LEMMA ErrorKeepsFate ==
    ASSUME Inv, Fate, HandleWriteError
    PROVE  Fate'
<1> DEFINE w0 == Head(mutationQueue[currentUser]).op
<1>1. /\ remote.status = "permanent" /\ remote.handshake /\ remote.pipeline # <<>>
      /\ UNCHANGED <<currentUser, author, log, refused>>
      /\ NotifyUser(Head(remote.pipeline), "error")
  BY Zenon DEF HandleWriteError, RejectsWrite
<1>2. /\ ~remote'.handshake
      /\ mutationQueue' =
           [mutationQueue EXCEPT ![currentUser] = Tail(mutationQueue[currentUser])]
  BY WriteErrorKeeps
<1>3. told' = [w \in DOMAIN told |->
                 IF \E c \in {d \in mutationCallbacks[currentUser] :
                                d.id = Head(remote.pipeline).id} : c.op = w
                 THEN "error" ELSE told[w]]
  BY <1>1, Zenon DEF NotifyUser
<1>4. \A w \in DOMAIN author :
        told'[w] = "ok" => told[w] = "ok" \/ (w = w0 /\ Committed(w0))
  BY <1>1, <1>3, ToldOfFirst
<1>5. \/ w0 \in refused
      \/ /\ remote.handshake /\ remote.replies # <<>>
         /\ Head(remote.replies) = w0
  <2>1. CASE remote.replies = <<>>
    <3>1. Len(<<>>) = 0
      BY EmptySeq
    <3>2. remote.pipeline[1].op \in refused
      BY <1>1, <2>1, <3>1 DEF Fate, Recent
    <3>3. remote.pipeline \in Seq(Batch) /\ Head(remote.pipeline) = Head(mutationQueue[currentUser])
      BY <1>1, FirstOfPipeline DEF Inv, TypeOK, RemoteState
    <3>4. Head(remote.pipeline) = remote.pipeline[1]
      BY <1>1, <3>3, HeadTail
    <3> QED BY <3>2, <3>3, <3>4
  <2>2. CASE remote.replies # <<>>
    BY <1>1, <2>2, FirstAnswered
  <2> QED BY <2>1, <2>2
<1>6. Made' /\ NoWriteIsLost' /\ LaterWritesWin'
  <2> HIDE DEF w0
  <2>1. w0 = Head(mutationQueue[currentUser]).op
    BY DEF w0
  <2> QED BY <1>1, <1>2, <1>4, <1>5, <2>1, FirstKeepsFate
<1>7. Recent'
  BY <1>2 DEF Recent
<1> QED BY <1>6, <1>7 DEF Fate

\* The caller who was told before the process ended was told the truth.
LEMMA DiesAcknowledgingKeepsFate ==
    ASSUME Inv, Fate, DiesAcknowledging
    PROVE  Fate'
<1> DEFINE w0 == Head(mutationQueue[currentUser]).op
<1>1. /\ remote.replies # <<>> /\ remote.handshake
      /\ UNCHANGED <<mutationQueue, author, log, refused>>
      /\ told' = [w \in DOMAIN told |->
                    IF \E c \in {d \in mutationCallbacks[currentUser] :
                                   d.id = Head(remote.pipeline).id} : c.op = w
                    THEN "ok" ELSE told[w]]
  BY Zenon DEF DiesAcknowledging
<1>2. remote.pipeline # <<>> /\ Head(remote.replies) = w0 /\ Committed(w0)
  BY <1>1, FirstAnswered
<1>3. \A w \in DOMAIN author :
        told'[w] = "ok" => told[w] = "ok" \/ (w = w0 /\ Committed(w0))
  BY <1>1, <1>2, ToldOfFirst
<1>4. Made' /\ NoWriteIsLost' /\ LaterWritesWin'
  <2> HIDE DEF w0
  <2>1. w0 = Head(mutationQueue[currentUser]).op
    BY DEF w0
  <2> QED BY <1>1, <1>2, <1>3, <2>1, FirstKeepsFate
<1>5. Recent'
  BY DiesAcknowledgingKeeps DEF Recent
<1> QED BY <1>4, <1>5 DEF Fate

\* After the handshake the server appends the next pending write of the user to
\* its log: any later write it had committed of the user is pending as well.
LEMMA TakesKeepsFate ==
    ASSUME Inv, Fate, ServerTakes
    PROVE  Fate'
<1> DEFINE op == Head(remote.sent).op
           q == mutationQueue[currentUser]
           l == Len(log)
           n == Len(remote.replies)
<1>1. /\ RemoteInv(remote) /\ remote.sent # <<>> /\ remote.status = "none"
      /\ UNCHANGED <<mutationQueue, author, told, refused>>
      /\ log' = IF op = 0 THEN log ELSE Append(log, op)
  BY DEF Inv, ServerTakes, storeVars, histVars
<1>2. /\ remote'.handshake = remote.handshake /\ remote'.status = remote.status
      /\ remote'.replies = Append(remote.replies, op)
  BY <1>1, ServerTakesKeeps
<1>3. CASE ~remote.handshake
  <2>1. op = 0
    BY <1>1, <1>3, NextSent DEF Handshake
  <2> QED BY <1>1, <1>2, <1>3, <2>1, QuietKeepsFate, TypesOfFate
<1>4. CASE remote.handshake
  <2>1. /\ n \in Nat /\ n + 1 \in DOMAIN remote.pipeline
        /\ Head(remote.sent) = remote.pipeline[n + 1]
    BY <1>1, <1>4, NextSent
  <2>2. /\ mutationQueue \in [Users -> Seq(Batch)] /\ currentUser \in Users
        /\ q \in Seq(Batch) /\ remote.pipeline \in Seq(Batch) /\ remote.replies \in Seq(Nat)
        /\ log \in Seq(Nat) /\ l \in Nat /\ DOMAIN log = 1..l /\ DOMAIN author = 1..Len(author)
        /\ DOMAIN remote.replies = 1..n
    BY TypesOfFate DEF Inv, TypeOK, RemoteState
  <2>3. n + 1 \in DOMAIN q /\ Head(remote.sent) = q[n + 1]
    <3> DEFINE np == Len(remote.pipeline)
               nq == Len(q)
               k == n + 1
    <3>1. /\ np \in Nat /\ nq \in Nat /\ np <= nq /\ DOMAIN q = 1..nq
          /\ DOMAIN remote.pipeline = 1..np /\ remote.pipeline[k] = q[k]
      BY <2>1, <2>2 DEF Inv, Begins
    <3>2. k \in DOMAIN remote.pipeline
      BY <2>1
    <3> HIDE DEF np, nq, k
    <3>3. k \in 1..nq
      BY <3>1, <3>2
    <3> QED BY <2>1, <3>1, <3>3 DEF k
  <2>4. /\ op \in Nat \ {0} /\ op \in DOMAIN author /\ author[op] = currentUser
    BY <2>2, <2>3, IdsOfSeq DEF Inv, Disk, Fate, Made
  <2>5. \A w \in DOMAIN author : author[w] = currentUser /\ w > op => Pending(w)
    BY <2>2, <2>3 DEF Fate, Made
  <2>6. log' = Append(log, op)
    BY <1>1, <2>4
  <2> HIDE DEF op
  <2>7. /\ Len(log') = l + 1 /\ log'[l + 1] = op /\ log' \in Seq(Nat)
        /\ \A i \in 1..l : log'[i] = log[i]
    BY <2>2, <2>4, <2>6, AppendProperties
  <2>8. DOMAIN log' = 1..l + 1
    BY <2>7
  <2>9. /\ Len(remote'.replies) = n + 1 /\ remote'.replies[n + 1] = op
        /\ remote'.replies \in Seq(Nat)
        /\ \A i \in 1..n : remote'.replies[i] = remote.replies[i]
    BY <1>2, <2>2, <2>4, AppendProperties
  <2>10. DOMAIN remote'.replies = 1..n + 1
    BY <2>9
  <2>11. Made'
    <3>1. \A i \in DOMAIN log' : log'[i] \in DOMAIN author'
      <4>1. ASSUME NEW i \in 1..l + 1
            PROVE  log'[i] \in DOMAIN author
        <5>1. i = l + 1 \/ i \in 1..l
          BY <2>2
        <5> QED BY <2>2, <2>4, <2>7, <5>1 DEF Fate, Made
      <4> QED BY <1>1, <2>8, <4>1
    <3> QED BY <1>1, <3>1 DEF Fate, Made, Pending
  <2>12. Recent'
    <3>1. n <= l /\ \A i \in 1..n : log[l - n + i] = remote.replies[i]
      BY <1>4, <2>2 DEF Fate, Recent
    <3> HIDE DEF n, l
    <3>2. ASSUME NEW i \in 1..n + 1
          PROVE  log'[(l + 1) - (n + 1) + i] = remote'.replies[i]
      <4>1. CASE i = n + 1
        <5>1. (l + 1) - (n + 1) + i = l + 1
          BY <2>1, <2>2, <4>1
        <5> QED BY <2>7, <2>9, <4>1, <5>1
      <4>2. CASE i \in 1..n
        <5>1. l \in Nat /\ n \in Nat /\ n <= l
          BY <2>1, <2>2, <3>1
        <5>2. (l + 1) - (n + 1) + i = l - n + i /\ l - n + i \in 1..l
          BY <4>2, <5>1
        <5>3. log'[l - n + i] = log[l - n + i]
          BY <2>7, <5>2
        <5>4. log[l - n + i] = remote.replies[i] /\ remote'.replies[i] = remote.replies[i]
          BY <2>9, <3>1, <4>2
        <5> QED BY <5>2, <5>3, <5>4
      <4> QED BY <2>1, <4>1, <4>2
    <3>3. n + 1 <= l + 1
      BY <2>1, <2>2, <3>1
    <3> QED BY <1>1, <1>2, <2>7, <2>9, <2>10, <3>2, <3>3 DEF Recent
  <2>13. ASSUME NEW w, Committed(w)
         PROVE  InLog(log', w)
    <3>1. PICK i \in 1..l : log[i] = w
      BY <2>2, <2>13 DEF Committed
    <3>2. i \in 1..l + 1
      BY <2>2, <3>1
    <3> QED BY <2>7, <2>8, <3>1, <3>2 DEF InLog
  <2>14. NoWriteIsLost'
    <3>1. ASSUME NEW w \in DOMAIN author
          PROVE  /\ Pending(w) \/ InLog(log', w) \/ w \in refused
                 /\ told[w] = "ok" => InLog(log', w)
      BY <2>13 DEF Fate, NoWriteIsLost
    <3> QED BY <1>1, <3>1 DEF NoWriteIsLost, Pending, Committed, InLog
  <2>15. LaterWritesWin'
    <3>1. ASSUME NEW i \in 1..l + 1, NEW j \in 1..l + 1,
                 i < j, log'[j] < log'[i], author[log'[j]] = author[log'[i]]
          PROVE  \/ Pending(log'[i])
                 \/ log'[i] \in refused
                 \/ \E k \in j + 1..l + 1 : log'[k] = log'[i]
      <4>0. i \in 1..l /\ log'[i] = log[i]
        BY <2>2, <2>7, <3>1
      <4>1. CASE j = l + 1
        <5>1. log[i] \in DOMAIN author
          BY <2>2, <4>0 DEF Fate, Made
        <5>2. log'[j] = op
          BY <2>7, <4>1
        <5>3. op < log[i] /\ author[log[i]] = currentUser
          BY <2>4, <3>1, <4>0, <5>2
        <5>4. log[i] \in Nat
          BY <2>2, <4>0
        <5>5. log[i] > op
          BY <2>4, <5>3, <5>4
        <5> QED BY <2>5, <4>0, <5>1, <5>3, <5>5
      <4>2. CASE j \in 1..l
        <5>1. log'[j] = log[j]
          BY <2>7, <4>2
        <5>2. \/ Pending(log[i]) \/ log[i] \in refused
              \/ \E k \in j + 1..l : log[k] = log[i]
          BY <2>2, <3>1, <4>0, <4>2, <5>1 DEF Fate, LaterWritesWin
        <5>3. ASSUME NEW k \in j + 1..l, log[k] = log[i]
              PROVE  \E m \in j + 1..l + 1 : log'[m] = log'[i]
          <6>1. k \in 1..l /\ k \in j + 1..l + 1
            BY <2>2, <4>2
          <6>2. log'[k] = log'[i]
            BY <2>7, <4>0, <5>3, <6>1
          <6> QED BY <6>1, <6>2
        <5> QED BY <4>0, <5>2, <5>3
      <4> QED BY <2>2, <4>1, <4>2
    <3>2. ASSUME NEW i \in DOMAIN log', NEW j \in DOMAIN log',
                 i < j, log'[j] < log'[i], author'[log'[j]] = author'[log'[i]]
          PROVE  \/ Held(mutationQueue', author', log'[i])
                 \/ log'[i] \in refused'
                 \/ \E k \in j + 1..Len(log') : log'[k] = log'[i]
      <4>1. \/ Pending(log'[i])
            \/ log'[i] \in refused
            \/ \E k \in j + 1..l + 1 : log'[k] = log'[i]
        BY <1>1, <2>8, <3>1, <3>2
      <4> QED BY <1>1, <2>7, <4>1 DEF Pending, Held
    <3> QED BY <3>2 DEF LaterWritesWin, Pending, Held
  <2> QED BY <2>11, <2>12, <2>14, <2>15 DEF Fate
<1> QED BY <1>3, <1>4

\* The server refuses the write after those it has answered.
LEMMA RefusesKeepsFate ==
    ASSUME Inv, Fate, ServerRefuses
    PROVE  Fate'
<1> DEFINE op == Head(remote.sent).op
<1>1. /\ RemoteInv(remote) /\ remote.sent # <<>> /\ remote.status = "none"
      /\ UNCHANGED <<mutationQueue, author, told, log>>
      /\ op = 0 => refused' = refused
      /\ op # 0 => refused' = refused \cup {op}
  BY DEF Inv, ServerRefuses, storeVars
<1>2. /\ remote'.pipeline = remote.pipeline /\ remote'.handshake = remote.handshake
      /\ remote'.replies = remote.replies
  BY <1>1, ServerRefusesKeeps
<1>3. CASE ~remote.handshake
  <2>1. op = 0
    BY <1>1, <1>3, NextSent DEF Handshake
  <2> QED BY <1>1, <1>2, <1>3, <2>1, QuietKeepsFate, TypesOfFate
<1>4. CASE remote.handshake
  <2>1. /\ Len(remote.replies) + 1 \in DOMAIN remote.pipeline
        /\ Head(remote.sent) = remote.pipeline[Len(remote.replies) + 1]
    BY <1>1, <1>4, NextSent
  <2>2. remote.pipeline \in Seq(Batch)
    BY DEF Inv, TypeOK, RemoteState
  <2>3. op \in Nat \ {0}
    BY <2>1, <2>2, IdsOfSeq
  <2>4. refused' = refused \cup {op}
    BY <1>1, <2>3
  <2>5. Recent'
    BY <1>1, <1>2, <2>1, <2>4 DEF Fate, Recent
  <2>6. Made'
    BY <1>1 DEF Fate, Made, Pending
  <2>7. NoWriteIsLost'
    BY <1>1, <2>4 DEF Fate, NoWriteIsLost, Pending, Committed
  <2>8. LaterWritesWin'
    BY <1>1, <2>4 DEF Fate, LaterWritesWin, Pending
  <2> QED BY <2>5, <2>6, <2>7, <2>8 DEF Fate
<1> QED BY <1>3, <1>4

\* At first there are no writes.
LEMMA InitFate == Init => Fate
<1> SUFFICES ASSUME Init
             PROVE  Fate
  OBVIOUS
<1>1. DOMAIN <<>> = {}
  BY EmptySeq
<1>2. remote.handshake = FALSE
  BY DEF Init, Disconnected
<1> QED BY <1>1, <1>2 DEF Init, Fate, Made, Recent, NoWriteIsLost, LaterWritesWin

\* The steps that are about no write: the stream, its failures and restarts.
LEMMA NextKeepsFate ==
    ASSUME Inv, Fate, [Next]_vars
    PROVE  Fate'
<1>0. RemoteInv(remote) /\ log \in Seq(Nat)
  BY DEF Inv, TypeOK
<1>1. CASE WriteMutations
  BY <1>1, WriteKeepsFate
<1>2. CASE OnWriteStreamMutationResult
  BY <1>2, ResultKeepsFate
<1>3. CASE HandleWriteError
  BY <1>3, ErrorKeepsFate
<1>4. CASE DiesAcknowledging
  BY <1>4, DiesAcknowledgingKeepsFate
<1>5. CASE ServerTakes
  BY <1>5, TakesKeepsFate
<1>6. CASE ServerRefuses
  BY <1>6, RefusesKeepsFate
<1>7. CASE TokenArrives
  <2>1. UNCHANGED <<mutationQueue, author, told, log, refused>>
    BY <1>7 DEF TokenArrives, storeVars, histVars
  <2> QED BY <1>0, <1>7, <2>1, TokenArrivesKeeps, QuietKeepsFate
<1>8. CASE StaleTokenArrives
  <2>1. UNCHANGED <<mutationQueue, author, told, log, refused>>
    BY <1>8 DEF StaleTokenArrives, storeVars, histVars
  <2> QED BY <1>0, <1>8, <2>1, StaleTokenArrivesKeeps, QuietKeepsFate
<1>9. CASE OnWriteStreamHandshakeComplete
  <2>1. UNCHANGED <<mutationQueue, author, told, log, refused>>
    BY <1>9 DEF OnWriteStreamHandshakeComplete, storeVars, histVars
  <2> QED BY <1>0, <1>9, <2>1, HandshakeCompleteKeeps, QuietKeepsFate
<1>10. CASE OnStreamFinish
  <2>1. UNCHANGED <<mutationQueue, author, told, log, refused>>
    BY <1>10 DEF OnStreamFinish, storeVars, histVars
  <2> QED BY <1>0, <1>10, <2>1, StreamFinishKeeps, QuietKeepsFate
<1>11. CASE BackoffElapses
  <2>1. UNCHANGED <<mutationQueue, author, told, log, refused>>
    BY <1>11 DEF BackoffElapses, storeVars, histVars
  <2> QED BY <1>0, <1>11, <2>1, BackoffElapsesKeeps, QuietKeepsFate
<1>12. CASE IdleTimeout
  <2>1. UNCHANGED <<mutationQueue, author, told, log, refused>>
    BY <1>12 DEF IdleTimeout, storeVars, histVars
  <2> QED BY <1>0, <1>12, <2>1, IdleTimeoutKeeps, QuietKeepsFate
<1>13. CASE TokenFails
  <2>1. UNCHANGED <<mutationQueue, author, told, log, refused>>
    BY <1>13 DEF TokenFails, storeVars, histVars
  <2> QED BY <1>0, <1>13, <2>1, TokenFailsKeeps, QuietKeepsFate
<1>14. CASE ConnectionFails
  <2>1. UNCHANGED <<mutationQueue, author, told, log, refused>>
    BY <1>14 DEF ConnectionFails, storeVars, histVars
  <2> QED BY <1>0, <1>14, <2>1, ConnectionFailsKeeps, QuietKeepsFate
<1>15. CASE Dies
  <2>1. UNCHANGED <<mutationQueue, author, told, log, refused>>
    BY <1>15 DEF Dies, histVars
  <2> QED BY <1>0, <1>15, <2>1, DiesKeeps, QuietKeepsFate
<1>16. CASE ConnectivityChanges
  <2>1. UNCHANGED <<mutationQueue, author, told, log, refused>>
    BY <1>16 DEF ConnectivityChanges, storeVars, histVars
  <2> QED BY <1>0, <1>16, <2>1, ConnectivityChangesKeeps, QuietKeepsFate
<1>17. CASE \E u \in Users : HandleCredentialChange(u)
  <2>1. UNCHANGED <<mutationQueue, author, told, log, refused>>
    BY <1>17 DEF HandleCredentialChange, histVars
  <2> QED BY <1>0, <1>17, <2>1, CredentialChangeKeeps, QuietKeepsFate
<1>18. CASE UNCHANGED vars
  <2>1. UNCHANGED <<mutationQueue, author, told, log, refused, remote>>
    BY <1>18 DEF vars, storeVars, histVars
  <2> QED BY <1>0, <2>1, QuietKeepsFate
<1> QED BY <1>1, <1>2, <1>3, <1>4, <1>5, <1>6, <1>7, <1>8, <1>9, <1>10, <1>11,
           <1>12, <1>13, <1>14, <1>15, <1>16, <1>17, <1>18 DEF Next, Handler

\* With the invariant, the fate of every write is settled as told.
LEMMA FateHolds == Spec => []Fate
BY InitFate, NextKeepsFate, InvHolds, PTL DEF Spec

\* No write is lost through any number of restarts, changes of user, lost
\* connections and refusals, and a success that was told is a commit.
THEOREM NoWriteIsLostHolds == Spec => []NoWriteIsLost
<1>1. Fate => NoWriteIsLost
  BY DEF Fate
<1> QED BY <1>1, FateHolds, PTL

\* Whatever is retried, the last commits of a user's writes end up in the order
\* in which the user made them.
THEOREM LaterWritesWinHolds == Spec => []LaterWritesWin
<1>1. Fate => LaterWritesWin
  BY DEF Fate
<1> QED BY <1>1, FateHolds, PTL

----------------------------------------------------------------------------
(* The order of the first commits. *)

\* The write that the server takes next follows all earlier ones of its user,
\* but for those that are committed or refused.
LEMMA EarlierAreDone ==
    ASSUME Inv, Fate, remote.handshake, remote.sent # <<>>, remote.status = "none",
           NEW w \in DOMAIN author, author[w] = currentUser, w < Head(remote.sent).op
    PROVE  w \in refused \/ Committed(w)
<1> DEFINE op == Head(remote.sent).op
           q == mutationQueue[currentUser]
           n == Len(remote.replies)
           l == Len(log)
<1>1. SUFFICES ASSUME Pending(w)
               PROVE  Committed(w)
  BY DEF Fate, NoWriteIsLost
<1>2. /\ n \in Nat /\ n + 1 \in DOMAIN remote.pipeline
      /\ Head(remote.sent) = remote.pipeline[n + 1] /\ remote.state = "open"
  BY NextSent DEF Inv
<1>3. /\ q \in Seq(Batch) /\ remote.pipeline \in Seq(Batch)
      /\ remote.replies \in Seq(Nat) /\ DOMAIN remote.replies = 1..n
      /\ l \in Nat /\ DOMAIN log = 1..l /\ currentUser \in Users
      /\ DOMAIN author = 1..Len(author)
  BY TypesOfFate DEF Inv, TypeOK, RemoteState
<1>4. \A i \in DOMAIN remote.pipeline : i \in DOMAIN q /\ remote.pipeline[i] = q[i]
  <2> DEFINE np == Len(remote.pipeline)
             nq == Len(q)
  <2>1. /\ np \in Nat /\ nq \in Nat /\ np <= nq /\ DOMAIN q = 1..nq
        /\ DOMAIN remote.pipeline = 1..np
        /\ \A i \in DOMAIN remote.pipeline : remote.pipeline[i] = q[i]
    BY <1>3 DEF Inv, Begins
  <2> HIDE DEF np, nq, q
  <2>2. \A i \in 1..np : i \in 1..nq
    BY <2>1
  <2> QED BY <2>1, <2>2
<1>5. n + 1 \in DOMAIN q /\ op = q[n + 1].op
  BY <1>2, <1>4
<1>6. PICK i \in DOMAIN q : q[i].op = w
  BY <1>1 DEF Pending
<1>7. \A j, k \in DOMAIN q : j < k => q[j].op < q[k].op
  BY <1>3 DEF Fate, Made
<1>8. i \in 1..n
  <2>1. w \in Nat /\ op \in Nat /\ i \in Nat /\ i # 0
    BY <1>3, <1>5, <1>6, IdsOfSeq
  <2> HIDE DEF op, q, n
  <2>2. w < op
    BY DEF op
  <2>3. ~(n + 1 < i) /\ i # n + 1
    <3>1. CASE n + 1 < i
      <4>1. op < w
        BY <1>5, <1>6, <1>7, <3>1
      <4> QED BY <2>1, <2>2, <4>1
    <3>2. CASE i = n + 1
      BY <1>5, <1>6, <2>1, <2>2, <3>2
    <3> QED BY <3>1, <3>2
  <2> QED BY <1>2, <2>1, <2>3
<1>9. i \in DOMAIN remote.replies /\ i \in DOMAIN remote.pipeline
  <2> DEFINE np == Len(remote.pipeline)
  <2>1. np \in Nat /\ DOMAIN remote.pipeline = 1..np
    BY <1>3
  <2> HIDE DEF n, np, q
  <2>2. n + 1 \in 1..np
    BY <1>2, <2>1
  <2>3. i \in 1..np
    BY <1>2, <1>8, <2>1, <2>2
  <2> QED BY <1>3, <1>8, <2>1, <2>3
<1>10. remote.replies[i] = w
  <2>1. remote.replies[i] = remote.pipeline[i].op
    BY <1>2, <1>9 DEF Inv, RemoteInv, Wire
  <2> QED BY <1>4, <1>6, <1>9, <2>1
<1>11. n <= l /\ log[l - n + i] = remote.replies[i]
  BY <1>9 DEF Fate, Recent
<1> HIDE DEF n, l, op, q
<1>12. l - n + i \in 1..l
  BY <1>2, <1>3, <1>8, <1>11
<1> QED BY <1>3, <1>10, <1>11, <1>12 DEF Committed

\* The write that the server takes next is the current user's.
LEMMA OpIsTheUsers ==
    ASSUME Inv, Fate, remote.handshake, remote.sent # <<>>, remote.status = "none"
    PROVE  Head(remote.sent).op \in Nat \ {0} /\ author[Head(remote.sent).op] = currentUser
<1> DEFINE q == mutationQueue[currentUser]
           n == Len(remote.replies) + 1
           np == Len(remote.pipeline)
           nq == Len(q)
<1>1. n \in DOMAIN remote.pipeline /\ Head(remote.sent) = remote.pipeline[n]
  BY NextSent DEF Inv
<1>2. /\ q \in Seq(Batch) /\ currentUser \in Users
      /\ np \in Nat /\ nq \in Nat /\ np <= nq /\ DOMAIN q = 1..nq
      /\ DOMAIN remote.pipeline = 1..np
      /\ \A i \in DOMAIN remote.pipeline : remote.pipeline[i] = q[i]
  BY DEF Inv, TypeOK, RemoteState, Begins
<1> HIDE DEF n, np, nq, q
<1>3. n \in DOMAIN q
  BY <1>1, <1>2
<1>4. q[n].op \in Nat \ {0}
  BY <1>2, <1>3, IdsOfSeq
<1>5. author[q[n].op] = currentUser
  BY <1>2, <1>3 DEF q, Fate, Made
<1> QED BY <1>1, <1>2, <1>4, <1>5

\* No write is committed for the first time ahead of an earlier one.
LEMMA NoneIsSkippedStep ==
    ASSUME Inv, Fate, NoneIsSkipped, [Next]_vars
    PROVE  NoneIsSkipped'
<1> DEFINE Before(l, i, w) == \E k \in 1..i - 1 : l[k] = w
<1>1. CASE ServerTakes /\ Head(remote.sent).op # 0
  <2> DEFINE op == Head(remote.sent).op
             l == Len(log)
  <2>1. /\ remote.sent # <<>> /\ remote.status = "none" /\ RemoteInv(remote)
        /\ log' = Append(log, op) /\ author' = author /\ refused' = refused
    BY <1>1 DEF Inv, ServerTakes, histVars
  <2>2. remote.handshake
    BY <1>1, <2>1, NextSent DEF Handshake
  <2>3. /\ log \in Seq(Nat) /\ l \in Nat /\ DOMAIN log = 1..l
        /\ author \in Seq(Users) /\ DOMAIN author = 1..Len(author)
    BY TypesOfFate
  <2>4. op \in Nat \ {0} /\ author[op] = currentUser
    BY <2>1, <2>2, OpIsTheUsers
  <2> HIDE DEF op
  <2>5. /\ Len(log') = l + 1 /\ log'[l + 1] = op /\ log' \in Seq(Nat)
        /\ \A i \in 1..l : log'[i] = log[i]
    BY <2>1, <2>3, <2>4, AppendProperties
  <2>6. DOMAIN log' = 1..l + 1
    BY <2>5
  <2>7. ASSUME NEW i \in DOMAIN log', NEW w \in DOMAIN author,
               w < log'[i], author[w] = author[log'[i]]
        PROVE  w \in refused \/ Before(log', i, w)
    <3>1. CASE i \in 1..l
      <4>1. log'[i] = log[i]
        BY <2>5, <3>1
      <4>2. w \in refused \/ Before(log, i, w)
        BY <2>3, <2>7, <3>1, <4>1 DEF NoneIsSkipped
      <4>3. ASSUME NEW k \in 1..i - 1, log[k] = w
            PROVE  log'[k] = w
        <5>1. k \in 1..l
          BY <2>3, <3>1
        <5> QED BY <2>5, <4>3, <5>1
      <4> QED BY <4>2, <4>3
    <3>2. CASE i = l + 1
      <4>1. w < op /\ author[w] = currentUser
        BY <2>4, <2>5, <2>7, <3>2
      <4>2. w \in refused \/ Committed(w)
        BY <2>1, <2>2, <4>1, EarlierAreDone DEF op
      <4>3. ASSUME NEW k \in 1..l, log[k] = w
            PROVE  k \in 1..i - 1 /\ log'[k] = w
        BY <2>3, <2>5, <3>2, <4>3
      <4> QED BY <2>3, <4>2, <4>3 DEF Committed
    <3> QED BY <2>3, <2>6, <3>1, <3>2
  <2> QED BY <2>1, <2>7 DEF NoneIsSkipped
<1>2. CASE WriteMutations
  <2>1. log' = log /\ refused' = refused /\ author' = Append(author, currentUser)
    BY <1>2 DEF WriteMutations
  <2>2. /\ author \in Seq(Users) /\ Len(author) \in Nat /\ DOMAIN author = 1..Len(author)
        /\ log \in Seq(Nat) /\ currentUser \in Users
    BY TypesOfFate
  <2>3. /\ \A w \in 1..Len(author) : author'[w] = author[w]
        /\ Len(author') = Len(author) + 1 /\ author' \in Seq(Users)
    BY <2>1, <2>2, AppendProperties
  <2>4. DOMAIN author' = 1..Len(author) + 1
    BY <2>3
  <2>5. ASSUME NEW i \in DOMAIN log, NEW w \in DOMAIN author',
               w < log[i], author'[w] = author'[log[i]]
        PROVE  w \in refused \/ Before(log, i, w)
    <3>1. log[i] \in 1..Len(author)
      BY <2>2 DEF Fate, Made
    <3>2. w \in 1..Len(author)
      BY <2>2, <2>4, <2>5, <3>1
    <3>3. w \in DOMAIN author /\ author[w] = author[log[i]]
      BY <2>2, <2>3, <2>5, <3>1, <3>2
    <3> QED BY <2>5, <3>3 DEF NoneIsSkipped
  <2>6. ASSUME NEW i \in DOMAIN log', NEW w \in DOMAIN author',
               w < log'[i], author'[w] = author'[log'[i]]
        PROVE  w \in refused' \/ Before(log', i, w)
    BY <2>1, <2>5, <2>6
  <2> QED BY <2>6 DEF NoneIsSkipped
<1>3. CASE log' = log /\ author' = author /\ refused \subseteq refused'
  BY <1>3 DEF NoneIsSkipped
<1>4. \/ ServerTakes /\ Head(remote.sent).op # 0
      \/ WriteMutations
      \/ log' = log /\ author' = author /\ refused \subseteq refused'
  BY DEF Next, Handler, vars, histVars, storeVars, ServerTakes, ServerRefuses,
         ConnectionFails, Dies, DiesAcknowledging, HandleCredentialChange,
         ConnectivityChanges, TokenFails, IdleTimeout, BackoffElapses,
         HandleWriteError, OnStreamFinish, OnWriteStreamMutationResult,
         OnWriteStreamHandshakeComplete, TokenArrives, StaleTokenArrives
<1> QED BY <1>1, <1>2, <1>3, <1>4

\* The server sees the writes of a user in the order in which they were made,
\* each for the first time only after all earlier ones that it did not refuse:
\* no reconnection, restart or refusal lets a write overtake another.
THEOREM NoneIsSkippedHolds == Spec => []NoneIsSkipped
<1>1. Init => NoneIsSkipped
  BY DEF Init, NoneIsSkipped
<1>2. Inv /\ Fate /\ NoneIsSkipped /\ [Next]_vars => NoneIsSkipped'
  BY NoneIsSkippedStep
<1> QED BY <1>1, <1>2, InvHolds, FateHolds, PTL DEF Spec
=============================================================================
