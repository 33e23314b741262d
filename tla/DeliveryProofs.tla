--------------------------- MODULE DeliveryProofs ---------------------------
(***************************************************************************)
(* Proofs about the dispatch pool and the two modules that build on it.    *)
(*                                                                         *)
(* Dispatcher, for any number of producers, queues, slots, retries and     *)
(* deliveries: records are exact and orders are kept.                      *)
(*                                                                         *)
(* Outbox, for crashes and restarts at any point besides: what a state     *)
(* save has recorded is lost to a cold start only, no process sends a      *)
(* delivery twice, and first sends keep the order of acceptance.           *)
(*                                                                         *)
(* Incident, for any goroutines that fire and resolve and any deliveries   *)
(* that fail: an open incident is known to something that will close it,   *)
(* but in three marked cases.                                              *)
(***************************************************************************)
EXTENDS Outbox, Incident, SequenceTheorems, FiniteSetTheorems, TLAPS

-----------------------------------------------------------------------------
(***************************************************************************)
(* The dispatch pool.  Its inductive invariant:                            *)
(***************************************************************************)
\* What is queued is on its queue.
QueuedIsOnQueue ==
    \A i \in Ids : job[i].at = "queued" => \E k \in DOMAIN queue[Q(i)] : queue[Q(i)][k] = i

\* queueMu: one parked producer per queue, and none once the queue drains.
OneHolder == \A i, j \in At("parked") : Q(i) = Q(j) => i = j
DrainingHasNoHolder == \A i \in At("parked") : ~draining[Q(i)]

\* A drop leaves its mark.
DropIsMarked == \A i \in At("dropped") : draining[Q(i)] \/ closed

PoolInv ==
    /\ PoolTypeOK
    /\ OutboxIsExact
    /\ QueuesConsistent
    /\ QueuedIsOnQueue
    /\ OneHolder
    /\ DrainingHasNoHolder
    /\ DropIsMarked
    /\ NoSendAfterClose

-----------------------------------------------------------------------------
\* Job i is at p now; nothing else about who carries what has changed.
Moved(i, p) ==
    /\ job' \in Seq(JobType)
    /\ Ids' = Ids
    /\ job'[i].at = p
    /\ \A j \in Ids : j # i => job'[j] = job[j]
    /\ \A j \in Ids : job'[j].fp = job[j].fp /\ job'[j].by = job[j].by
    /\ \A j \in Ids : job'[j].kind = job[j].kind
    /\ \A j \in Ids : QueueOf[job'[j].fp] = QueueOf[job[j].fp]

\* Moving a job changes its place and nothing else.
LEMMA MoveFacts ==
    ASSUME PoolTypeOK, NEW i \in Ids, NEW p \in Places, Move(i, p)
    PROVE  Moved(i, p) /\ \A j \in Ids : job'[j].retries = job[j].retries
<1> DEFINE new == [job[i] EXCEPT !.at = p]
<1>1. job \in Seq(JobType) /\ i \in 1..Len(job) /\ DOMAIN job = 1..Len(job)
  BY LenProperties DEF PoolTypeOK, Ids
<1>2. job[i] \in JobType
  BY <1>1, ElementOfSeq
<1>3. new \in JobType /\ new.at = p
  BY <1>2 DEF JobType
<1>4. job' = [job EXCEPT ![i] = new]
  BY DEF Move
<1>5. /\ job' \in Seq(JobType)
      /\ Len(job') = Len(job)
      /\ \A j \in 1..Len(job) : job'[j] = IF j = i THEN new ELSE job[j]
  <2> HIDE DEF new
  <2> QED BY <1>1, <1>3, <1>4, ExceptSeq
<1>6. DOMAIN job' = DOMAIN job
  BY <1>1, <1>4
<1>7. \A j \in Ids : /\ job'[j].fp = job[j].fp /\ job'[j].by = job[j].by
                     /\ job'[j].kind = job[j].kind /\ job'[j].retries = job[j].retries
  BY <1>1, <1>2, <1>5 DEF JobType, Ids
<1> QED BY <1>1, <1>3, <1>5, <1>6, <1>7 DEF Ids, Moved

\* The pool starts empty.
LEMMA InitPoolInv == PoolInit => PoolInv
<1> SUFFICES ASSUME PoolInit PROVE PoolInv
  OBVIOUS
<1>1. Ids = {}
  BY DEF PoolInit, Ids
<1>2. PoolTypeOK
  <2>1. job \in Seq(JobType) /\ queue \in [Queues -> Seq(Ids)]
    BY EmptySeq DEF PoolInit
  <2>2. draining \in [Queues -> BOOLEAN] /\ stop \in BOOLEAN
    BY Zenon DEF PoolInit
  <2> QED BY <1>1, <2>1, <2>2 DEF PoolInit, PoolTypeOK
<1>3. OutboxIsExact /\ QueuedIsOnQueue
  BY <1>1 DEF PoolInit, OutboxIsExact, QueuedIsOnQueue
<1>4. QueuesConsistent
  BY DispatcherConstants DEF PoolInit, QueuesConsistent
<1>5. OneHolder /\ DrainingHasNoHolder /\ DropIsMarked /\ NoSendAfterClose
  BY <1>1 DEF OneHolder, DrainingHasNoHolder, DropIsMarked, NoSendAfterClose, At, InSubmit
<1> QED BY <1>2, <1>3, <1>4, <1>5 DEF PoolInv

\* A move that touches no queue and obeys the locks keeps the invariant.
LEMMA QuietMove ==
    ASSUME PoolInv, NEW i \in Ids, NEW p \in Places, Moved(i, p),
           UNCHANGED <<queue, draining, stop, phase>>,
           job[i].at \notin {"queued", "over"}, p # "queued",
           pending' = IF p = "over" THEN pending \ {i} ELSE pending,
           p \in {"waiting", "parked"} => ~closed,
           p = "parked" => Holding(Q(i)) = {} /\ ~draining[Q(i)],
           p = "dropped" => draining[Q(i)] \/ closed
    PROVE  PoolInv'
<1>1. PoolTypeOK'
  BY DEF PoolInv, PoolTypeOK, Moved
<1>2. OutboxIsExact'
  BY DEF PoolInv, PoolTypeOK, OutboxIsExact, Moved
<1>3. QueuesConsistent'
  <2>1. \A q \in Queues : \A k \in DOMAIN queue[q] : queue[q][k] \in Ids
    BY ElementOfSeq, LenProperties DEF PoolInv, PoolTypeOK
  <2> QED BY <2>1 DEF PoolInv, QueuesConsistent, Moved, Q
<1>4. QueuedIsOnQueue'
  BY DEF PoolInv, QueuedIsOnQueue, Moved, Q
<1>5. OneHolder' /\ DrainingHasNoHolder' /\ DropIsMarked'
  BY DEF PoolInv, OneHolder, DrainingHasNoHolder, DropIsMarked, At, Holding, Moved, Q, closed
<1>6. NoSendAfterClose'
  BY DEF PoolInv, NoSendAfterClose, InSubmit, At, Moved, closed
<1> QED BY <1>1, <1>2, <1>3, <1>4, <1>5, <1>6 DEF PoolInv

\* A producer that holds queueMu puts its job on the queue, which has room.
LEMMA PutOnQueue ==
    ASSUME PoolInv, NEW i \in Ids, Moved(i, "queued"),
           job[i].at \in {"waiting", "parked"}, Room(Q(i)),
           queue' = [queue EXCEPT ![Q(i)] = Append(@, i)],
           UNCHANGED <<pending, draining, stop, phase>>
    PROVE  PoolInv'
<1> DEFINE q0 == Q(i)
<1>1. q0 \in Queues /\ queue[q0] \in Seq(Ids) /\ Len(queue[q0]) \in Nat
  <2>1. job[i] \in JobType
    BY ElementOfSeq, LenProperties DEF PoolInv, PoolTypeOK, Ids
  <2>2. q0 \in Queues
    BY <2>1, DispatcherConstants DEF JobType, Q
  <2> QED BY <2>2, LenProperties DEF PoolInv, PoolTypeOK
<1>2. /\ queue'[q0] \in Seq(Ids)
      /\ Len(queue'[q0]) = Len(queue[q0]) + 1
      /\ \A k \in 1..Len(queue[q0]) : queue'[q0][k] = queue[q0][k]
      /\ queue'[q0][Len(queue[q0]) + 1] = i
      /\ \A q \in Queues : q # q0 => queue'[q] = queue[q]
  <2>1. queue'[q0] = Append(queue[q0], i)
    BY <1>1 DEF PoolInv, PoolTypeOK
  <2>2. \A q \in Queues : q # q0 => queue'[q] = queue[q]
    BY <1>1 DEF PoolInv, PoolTypeOK
  <2> HIDE DEF q0
  <2> QED BY <1>1, <2>1, <2>2, AppendProperties
<1>3. /\ DOMAIN queue[q0] = 1..Len(queue[q0])
      /\ DOMAIN queue'[q0] = 1..(Len(queue[q0]) + 1)
  BY <1>1, <1>2, LenProperties
<1>4. PoolTypeOK'
  <2>1. queue' \in [Queues -> Seq(Ids)]
    BY <1>2 DEF PoolInv, PoolTypeOK
  <2> QED BY <2>1 DEF PoolInv, PoolTypeOK, Moved
<1>5. OutboxIsExact'
  BY DEF PoolInv, OutboxIsExact, Moved
<1>6. \A q \in Queues : \A k \in DOMAIN queue[q] : queue[q][k] \in Ids /\ queue[q][k] # i
  <2>1. \A q \in Queues : \A k \in DOMAIN queue[q] : queue[q][k] \in Ids
    BY ElementOfSeq, LenProperties DEF PoolInv, PoolTypeOK
  <2> QED BY <2>1 DEF PoolInv, QueuesConsistent
<1>7. QueuesConsistent'
  <2> SUFFICES ASSUME NEW q \in Queues
               PROVE  /\ Len(queue'[q]) <= Cap
                      /\ \A k \in DOMAIN queue'[q] : /\ job'[queue'[q][k]].at = "queued"
                                                     /\ QueueOf[job'[queue'[q][k]].fp] = q
                      /\ \A k, l \in DOMAIN queue'[q] : queue'[q][k] = queue'[q][l] => k = l
    BY DEF QueuesConsistent, Q
  <2>1. CASE q # q0
    BY <1>2, <1>6, <2>1 DEF PoolInv, QueuesConsistent, Moved, Q
  <2>2. CASE q = q0
    <3>1. Len(queue'[q]) <= Cap
      BY <1>1, <1>2, <2>2, DispatcherConstants DEF Room
    <3>2. \A k \in DOMAIN queue[q] : /\ job'[queue[q][k]].at = "queued"
                                     /\ QueueOf[job'[queue[q][k]].fp] = q
      <4>1. \A k \in DOMAIN queue[q] : job'[queue[q][k]] = job[queue[q][k]]
        BY <1>6 DEF Moved
      <4>2. \A k \in DOMAIN queue[q] : job[queue[q][k]].at = "queued" /\ Q(queue[q][k]) = q
        BY DEF PoolInv, QueuesConsistent
      <4> QED BY <4>1, <4>2 DEF Q
    <3>3. QueueOf[job'[i].fp] = q /\ job'[i].at = "queued"
      BY <2>2 DEF Moved, Q
    <3>4. \A k \in DOMAIN queue'[q] :
             \/ k \in DOMAIN queue[q] /\ queue'[q][k] = queue[q][k]
             \/ k = Len(queue[q]) + 1 /\ queue'[q][k] = i
      BY <1>1, <1>2, <1>3, <2>2
    <3>5. \A k, l \in DOMAIN queue[q] : queue[q][k] = queue[q][l] => k = l
      BY DEF PoolInv, QueuesConsistent
    <3> QED BY <3>1, <3>2, <3>3, <3>4, <3>5, <1>6
  <2> QED BY <2>1, <2>2
<1>8. QueuedIsOnQueue'
  <2> SUFFICES ASSUME NEW j \in Ids, job'[j].at = "queued"
               PROVE  \E k \in DOMAIN queue'[Q(j)] : queue'[Q(j)][k] = j
    BY DEF QueuedIsOnQueue, Moved, Q
  <2>1. CASE j = i
    BY <1>1, <1>2, <1>3, <2>1
  <2>2. CASE j # i
    <3>1. PICK k \in DOMAIN queue[Q(j)] : queue[Q(j)][k] = j
      BY <2>2 DEF PoolInv, QueuedIsOnQueue, Moved
    <3>2. Q(j) \in Queues
      <4>1. job[j] \in JobType
        BY ElementOfSeq, LenProperties DEF PoolInv, PoolTypeOK, Ids
      <4> QED BY <4>1, DispatcherConstants DEF JobType, Q
    <3>3. CASE Q(j) # q0
      BY <1>2, <3>1, <3>2, <3>3
    <3>4. CASE Q(j) = q0
      BY <1>1, <1>2, <1>3, <3>1, <3>4
    <3> QED BY <3>3, <3>4
  <2> QED BY <2>1, <2>2
<1>9. OneHolder' /\ DrainingHasNoHolder' /\ DropIsMarked'
  BY DEF PoolInv, OneHolder, DrainingHasNoHolder, DropIsMarked, At, Moved, Q, closed
<1>10. NoSendAfterClose'
  BY DEF PoolInv, NoSendAfterClose, InSubmit, At, Moved, closed
<1> QED BY <1>4, <1>5, <1>7, <1>8, <1>9, <1>10 DEF PoolInv

\* A worker takes the head of its queue.
LEMMA TakeKeepsInv ==
    ASSUME PoolInv, NEW q0 \in Queues, Take(q0)
    PROVE  PoolInv'
<1> DEFINE i == Head(queue[q0])
<1>1. queue[q0] \in Seq(Ids) /\ queue[q0] # <<>>
  BY DEF PoolInv, PoolTypeOK, Take
<1> DEFINE n == Len(queue[q0])
<1>2. /\ i \in Ids /\ i = queue[q0][1]
      /\ n \in Nat /\ n # 0
      /\ DOMAIN queue[q0] = 1..n
  BY <1>1, HeadTailProperties, LenProperties, EmptySeq
<1>3. /\ queue'[q0] \in Seq(Ids)
      /\ Len(queue'[q0]) = n - 1
      /\ \A k \in 1..(n - 1) : queue'[q0][k] = queue[q0][k + 1]
      /\ DOMAIN queue'[q0] = 1..(n - 1)
  <2> DEFINE t == Tail(queue[q0])
  <2>1. /\ t \in Seq(Ids)
        /\ Len(t) = n - 1
        /\ \A k \in 1..Len(t) : t[k] = queue[q0][k + 1]
    BY <1>1, HeadTailProperties
  <2>2. queue'[q0] = t
    BY DEF PoolInv, PoolTypeOK, Take
  <2> HIDE DEF t, n
  <2>3. DOMAIN t = 1..Len(t)
    BY <2>1, LenProperties
  <2> QED BY <2>1, <2>2, <2>3
<1>4. \A q \in Queues : q # q0 => queue'[q] = queue[q]
  BY DEF PoolInv, PoolTypeOK, Take
<1>5. Moved(i, "sending") /\ UNCHANGED <<pending, draining, stop, phase>>
  <2>1. Move(i, "sending") /\ "sending" \in Places
    BY DEF Take, Places
  <2> HIDE DEF i
  <2>2. Moved(i, "sending")
    BY <1>2, <2>1, MoveFacts DEF PoolInv
  <2> QED BY <2>2 DEF Take
<1>6. job[i].at = "queued" /\ Q(i) = q0
  BY <1>2, <1>3 DEF PoolInv, QueuesConsistent
<1>7. \A q \in Queues : \A k \in DOMAIN queue[q] : queue[q][k] \in Ids
  BY ElementOfSeq, LenProperties DEF PoolInv, PoolTypeOK
<1> HIDE DEF i, n
<1>8. \A q \in Queues : \A k \in DOMAIN queue'[q] : queue'[q][k] \in Ids /\ queue'[q][k] # i
  <2> SUFFICES ASSUME NEW q \in Queues, NEW k \in DOMAIN queue'[q]
               PROVE  queue'[q][k] \in Ids /\ queue'[q][k] # i
    OBVIOUS
  <2>1. CASE q = q0
    <3>1. k + 1 \in DOMAIN queue[q0] /\ k + 1 # 1 /\ queue'[q][k] = queue[q0][k + 1]
      BY <1>2, <1>3, <1>4, <2>1
    <3> QED BY <1>2, <1>3, <1>7, <2>1, <3>1 DEF PoolInv, QueuesConsistent
  <2>2. CASE q # q0
    <3>1. queue'[q] = queue[q]
      BY <1>4, <2>2
    <3> QED BY <1>6, <1>7, <2>2, <3>1 DEF PoolInv, QueuesConsistent
  <2> QED BY <2>1, <2>2
<1>9. PoolTypeOK'
  <2>1. queue' \in [Queues -> Seq(Ids)]
    BY <1>3, <1>4 DEF PoolInv, PoolTypeOK, Take
  <2> QED BY <1>5, <2>1 DEF PoolInv, PoolTypeOK, Moved
<1>10. OutboxIsExact'
  BY <1>2, <1>5, <1>6 DEF PoolInv, OutboxIsExact, Moved
<1>11. QueuesConsistent'
  <2> SUFFICES ASSUME NEW q \in Queues
               PROVE  /\ Len(queue'[q]) <= Cap
                      /\ \A k \in DOMAIN queue'[q] : /\ job'[queue'[q][k]].at = "queued"
                                                     /\ QueueOf[job'[queue'[q][k]].fp] = q
                      /\ \A k, l \in DOMAIN queue'[q] : queue'[q][k] = queue'[q][l] => k = l
    BY DEF QueuesConsistent, Q
  <2>0. \A k \in DOMAIN queue'[q] : job'[queue'[q][k]] = job[queue'[q][k]]
    BY <1>5, <1>8 DEF Moved
  <2>1. CASE q # q0
    BY <1>4, <2>0, <2>1 DEF PoolInv, QueuesConsistent, Q
  <2>2. CASE q = q0
    <3>1. \A k \in DOMAIN queue'[q] : k \in Nat /\ k + 1 \in DOMAIN queue[q]
                                      /\ queue'[q][k] = queue[q][k + 1]
      BY <1>2, <1>3, <1>4, <2>2
    <3>2. Len(queue'[q]) <= Cap
      <4>1. n <= Cap
        BY DEF PoolInv, QueuesConsistent, n
      <4> QED BY <1>2, <1>3, <2>2, <4>1, DispatcherConstants
    <3>3. \A k, l \in DOMAIN queue'[q] : queue'[q][k] = queue'[q][l] => k = l
      <4>1. \A k, l \in DOMAIN queue'[q] : queue'[q][k] = queue'[q][l] => k + 1 = l + 1
        BY <3>1 DEF PoolInv, QueuesConsistent
      <4> QED BY <3>1, <4>1
    <3>4. \A k \in DOMAIN queue'[q] : /\ job[queue'[q][k]].at = "queued"
                                       /\ Q(queue'[q][k]) = q
      BY <3>1 DEF PoolInv, QueuesConsistent
    <3> QED BY <2>0, <3>2, <3>3, <3>4 DEF Q
  <2> QED BY <2>1, <2>2
<1>12. QueuedIsOnQueue'
  <2> SUFFICES ASSUME NEW j \in Ids, job'[j].at = "queued"
               PROVE  \E k \in DOMAIN queue'[Q(j)] : queue'[Q(j)][k] = j
    BY <1>5 DEF QueuedIsOnQueue, Moved, Q
  <2>1. j # i /\ job[j].at = "queued"
    BY <1>5 DEF Moved
  <2>2. PICK k \in DOMAIN queue[Q(j)] : queue[Q(j)][k] = j
    BY <2>1 DEF PoolInv, QueuedIsOnQueue
  <2>3. Q(j) \in Queues
    <3>1. job[j] \in JobType
      BY ElementOfSeq, LenProperties DEF PoolInv, PoolTypeOK, Ids
    <3> QED BY <3>1, DispatcherConstants DEF JobType, Q
  <2>4. CASE Q(j) # q0
    BY <1>4, <2>2, <2>3, <2>4
  <2>5. CASE Q(j) = q0
    <3>1. k # 1
      BY <1>2, <2>1, <2>2, <2>5
    <3>2. k - 1 \in DOMAIN queue'[q0] /\ queue'[q0][k - 1] = j
      BY <1>2, <1>3, <1>4, <2>2, <2>5, <3>1
    <3> QED BY <2>5, <3>2
  <2> QED BY <2>4, <2>5
<1>13. OneHolder' /\ DrainingHasNoHolder' /\ DropIsMarked'
  BY <1>2, <1>5 DEF PoolInv, OneHolder, DrainingHasNoHolder, DropIsMarked, At, Moved, Q, closed
<1>14. NoSendAfterClose'
  BY <1>2, <1>5 DEF PoolInv, NoSendAfterClose, InSubmit, At, Moved, closed
<1> QED BY <1>9, <1>10, <1>11, <1>12, <1>13, <1>14 DEF PoolInv

\* A parked producer gives up and marks the queue.
LEMMA GiveUpKeepsInv ==
    ASSUME PoolInv, NEW i \in Ids, GiveUp(i)
    PROVE  PoolInv'
<1>1. Moved(i, "dropped") /\ UNCHANGED <<pending, queue, stop, phase>> /\ job[i].at = "parked"
  <2>1. Move(i, "dropped") /\ "dropped" \in Places
    BY DEF GiveUp, Places
  <2> QED BY <2>1, MoveFacts DEF PoolInv, GiveUp
<1>2. Q(i) \in Queues
  <2>1. job[i] \in JobType
    BY ElementOfSeq, LenProperties DEF PoolInv, PoolTypeOK, Ids
  <2> QED BY <2>1, DispatcherConstants DEF JobType, Q
<1>3. /\ draining'[Q(i)] = TRUE
      /\ \A q \in Queues : q # Q(i) => draining'[q] = draining[q]
      /\ draining' \in [Queues -> BOOLEAN]
  <2>1. draining' = [draining EXCEPT ![Q(i)] = TRUE] /\ draining \in [Queues -> BOOLEAN]
    BY DEF PoolInv, PoolTypeOK, GiveUp
  <2> QED BY <1>2, <2>1, Zenon
<1>4. PoolTypeOK'
  BY <1>1, <1>3 DEF PoolInv, PoolTypeOK, Moved
<1>5. OutboxIsExact'
  BY <1>1 DEF PoolInv, OutboxIsExact, Moved
<1>6. QueuesConsistent'
  <2>1. \A q \in Queues : \A k \in DOMAIN queue[q] : queue[q][k] \in Ids
    BY ElementOfSeq, LenProperties DEF PoolInv, PoolTypeOK
  <2> QED BY <1>1, <2>1 DEF PoolInv, QueuesConsistent, Moved, Q
<1>7. QueuedIsOnQueue'
  BY <1>1 DEF PoolInv, QueuedIsOnQueue, Moved, Q
<1>8. \A j \in Ids : Q(j) \in Queues
  <2> SUFFICES ASSUME NEW j \in Ids PROVE Q(j) \in Queues
    OBVIOUS
  <2>1. job[j] \in JobType
    BY ElementOfSeq, LenProperties DEF PoolInv, PoolTypeOK, Ids
  <2> QED BY <2>1, DispatcherConstants DEF JobType, Q
<1>9. OneHolder'
  BY <1>1 DEF PoolInv, OneHolder, At, Moved, Q
<1>10. DrainingHasNoHolder'
  BY <1>1, <1>3, <1>8 DEF PoolInv, OneHolder, DrainingHasNoHolder, At, Moved, Q
<1>11. DropIsMarked'
  BY <1>1, <1>3, <1>8 DEF PoolInv, DropIsMarked, At, Moved, Q, closed
<1>12. NoSendAfterClose'
  BY <1>1 DEF PoolInv, NoSendAfterClose, InSubmit, At, Moved, closed
<1> QED BY <1>4, <1>5, <1>6, <1>7, <1>9, <1>10, <1>11, <1>12 DEF PoolInv

\* A new delivery is recorded before anything else can happen to it.
LEMMA EnqueueKeepsInv ==
    ASSUME PoolInv, NEW p \in Producers, NEW fp \in FP, NEW k \in Kinds, enqueue(p, fp, k)
    PROVE  PoolInv'
<1> DEFINE new == [by |-> p, fp |-> fp, kind |-> k, retries |-> 0, at |-> "entering"]
           n == Len(job) + 1
<1>1. /\ job \in Seq(JobType) /\ new \in JobType /\ new.at = "entering"
      /\ job' = Append(job, new)
  BY DispatcherConstants DEF PoolInv, PoolTypeOK, enqueue, JobType, Places
<1>0. pending' = pending \cup {n} /\ UNCHANGED <<queue, draining, stop, phase>>
  BY DEF enqueue
<1> HIDE DEF new
<1>2. /\ job' \in Seq(JobType) /\ Len(job) \in Nat
      /\ Len(job') = n
      /\ \A j \in 1..Len(job) : job'[j] = job[j]
      /\ job'[n] = new
  BY <1>1, AppendProperties, LenProperties
<1>3. Ids = 1..Len(job) /\ Ids' = 1..n
  BY <1>1, <1>2, LenProperties DEF Ids
<1>4. Ids' = Ids \cup {n} /\ n \notin Ids /\ \A j \in Ids : job'[j] = job[j]
  BY <1>2, <1>3
<1>5. job'[n].at = "entering"
  BY <1>1, <1>2
<1> HIDE DEF n
<1>6. PoolTypeOK'
  <2>1. \A q \in Queues : queue[q] \in Seq(Ids')
    <3> SUFFICES ASSUME NEW q \in Queues PROVE queue[q] \in Seq(Ids')
      OBVIOUS
    <3>1. queue[q] \in Seq(Ids) /\ Ids \subseteq Ids'
      BY <1>4 DEF PoolInv, PoolTypeOK
    <3> QED BY <3>1
  <2>2. queue' \in [Queues -> Seq(Ids')]
    BY <1>0, <2>1 DEF PoolInv, PoolTypeOK
  <2> QED BY <1>0, <1>2, <1>4, <2>2 DEF PoolInv, PoolTypeOK
<1>7. OutboxIsExact'
  BY <1>0, <1>4, <1>5 DEF PoolInv, OutboxIsExact
<1>8. QueuesConsistent'
  <2>1. \A q \in Queues : \A l \in DOMAIN queue[q] : queue[q][l] \in Ids
    BY ElementOfSeq, LenProperties DEF PoolInv, PoolTypeOK
  <2> QED BY <1>0, <1>4, <2>1 DEF PoolInv, QueuesConsistent, Q
<1>9. QueuedIsOnQueue'
  BY <1>0, <1>4, <1>5 DEF PoolInv, QueuedIsOnQueue, Q
<1>10. OneHolder' /\ DrainingHasNoHolder' /\ DropIsMarked'
  BY <1>0, <1>4, <1>5 DEF PoolInv, OneHolder, DrainingHasNoHolder, DropIsMarked, At, Q, closed
<1>11. NoSendAfterClose'
  BY <1>0, <1>4, <1>5 DEF PoolInv, NoSendAfterClose, InSubmit, At, closed
<1> QED BY <1>6, <1>7, <1>8, <1>9, <1>10, <1>11 DEF PoolInv

\* A failed resolve moves to its retry timer.
LEMMA RetryFacts ==
    ASSUME PoolTypeOK, NEW i \in Ids, scheduleResolveRetry(i)
    PROVE  /\ Moved(i, "timer")
           /\ job'[i].retries > 0
           /\ \A j \in Ids : j # i => job'[j].retries = job[j].retries
<1> DEFINE mid == [job[i] EXCEPT !.at = "timer"]
           new == [mid EXCEPT !.retries = @ + 1]
<1>1. job \in Seq(JobType) /\ i \in 1..Len(job) /\ DOMAIN job = 1..Len(job)
  BY LenProperties DEF PoolTypeOK, Ids
<1>2. job[i] \in JobType
  BY <1>1, ElementOfSeq
<1>3. job[i].retries \in Nat /\ job[i].retries < MaxRetries
  BY <1>2, DispatcherConstants DEF JobType, scheduleResolveRetry, mayRetry
<1>4. /\ new \in JobType
      /\ new.at = "timer" /\ new.retries > 0
      /\ new.fp = job[i].fp /\ new.by = job[i].by /\ new.kind = job[i].kind
  <2> DEFINE r == job[i].retries + 1
  <2>1. r \in 0..MaxRetries /\ r > 0
    BY <1>3, DispatcherConstants
  <2>2. mid \in JobType /\ mid.at = "timer" /\ mid.fp = job[i].fp /\ mid.by = job[i].by
        /\ mid.kind = job[i].kind /\ mid.retries = job[i].retries
    BY <1>2 DEF JobType, Places
  <2>3. new = [mid EXCEPT !.retries = r]
    BY <2>2
  <2> HIDE DEF r, mid, new
  <2> QED BY <2>1, <2>2, <2>3 DEF JobType
<1>5. job' = [job EXCEPT ![i] = new]
  BY <1>1, <1>2 DEF scheduleResolveRetry, JobType
<1>6. /\ job' \in Seq(JobType)
      /\ Len(job') = Len(job)
      /\ \A j \in 1..Len(job) : job'[j] = IF j = i THEN new ELSE job[j]
  <2> HIDE DEF new
  <2> QED BY <1>1, <1>4, <1>5, ExceptSeq
<1>7. DOMAIN job' = DOMAIN job
  BY <1>1, <1>5
<1> HIDE DEF new
<1> QED BY <1>1, <1>4, <1>6, <1>7 DEF Ids, Moved

-----------------------------------------------------------------------------
\* Every step of the pool keeps the invariant.
LEMMA StepPoolInv == PoolInv /\ [PoolNext]_poolVars => PoolInv'
<1> SUFFICES ASSUME PoolInv, [PoolNext]_poolVars PROVE PoolInv'
  OBVIOUS
<1>0. PoolTypeOK
  BY DEF PoolInv
<1>1. ASSUME NEW p \in Producers, Enqueue(p) PROVE PoolInv'
  BY <1>1, EnqueueKeepsInv DEF Enqueue
<1>2. ASSUME NEW i \in Ids, Enter(i) PROVE PoolInv'
  <2> DEFINE p == IF closed THEN "dropped" ELSE "waiting"
  <2>1. Moved(i, p) /\ p \in Places
    BY <1>0, <1>2, MoveFacts DEF Enter, Places
  <2>2. /\ UNCHANGED <<pending, queue, draining, stop, phase>>
        /\ job[i].at \notin {"queued", "over"}
    BY <1>2 DEF Enter
  <2> QED BY <2>1, <2>2, QuietMove
<1>3. ASSUME NEW i \in Ids, TryQueue(i) PROVE PoolInv'
  <2>1. CASE ~draining[Q(i)] /\ Room(Q(i))
    <3>1. Moved(i, "queued")
      BY <1>0, <1>3, <2>1, MoveFacts DEF TryQueue, Places
    <3> QED BY <1>3, <2>1, <3>1, PutOnQueue DEF TryQueue
  <2>2. CASE ~(~draining[Q(i)] /\ Room(Q(i)))
    <3> DEFINE p == IF draining[Q(i)] THEN "dropped" ELSE "parked"
    <3>1. Moved(i, p) /\ p \in Places
      BY <1>0, <1>3, <2>2, MoveFacts DEF TryQueue, Places
    <3>2. /\ UNCHANGED <<pending, queue, draining, stop, phase>>
          /\ job[i].at = "waiting" /\ Holding(Q(i)) = {}
      BY <1>3, <2>2 DEF TryQueue
    <3>3. ~closed
      BY <3>2 DEF PoolInv, NoSendAfterClose, InSubmit, At
    <3>4. p # "queued" /\ p # "over" /\ p # "waiting"
      OBVIOUS
    <3>5. /\ p = "parked" => ~draining[Q(i)]
          /\ p = "dropped" => draining[Q(i)]
      OBVIOUS
    <3> HIDE DEF p
    <3> QED BY <3>1, <3>2, <3>3, <3>4, <3>5, QuietMove
  <2> QED BY <2>1, <2>2
<1>4. ASSUME NEW i \in Ids, Unpark(i) PROVE PoolInv'
  <2>1. Moved(i, "queued")
    BY <1>0, <1>4, MoveFacts DEF Unpark, Places
  <2> QED BY <1>4, <2>1, PutOnQueue DEF Unpark
<1>5. ASSUME NEW i \in Ids, GiveUp(i) PROVE PoolInv'
  BY <1>5, GiveUpKeepsInv
<1>6. ASSUME NEW i \in Ids, Deliver(i) \/ Fail(i) PROVE PoolInv'
  <2>1. PICK p \in {"sent", "undone"} : Move(i, p)
    BY <1>6 DEF Deliver, Fail
  <2>2. Moved(i, p) /\ p \in Places
    BY <1>0, <2>1, MoveFacts DEF Places
  <2>3. /\ UNCHANGED <<pending, queue, draining, stop, phase>>
        /\ job[i].at = "sending"
    BY <1>6 DEF Deliver, Fail
  <2> QED BY <2>1, <2>2, <2>3, QuietMove
<1>7. ASSUME NEW i \in Ids, scheduleResolveRetry(i) PROVE PoolInv'
  <2>1. Moved(i, "timer") /\ "timer" \in Places
    BY <1>0, <1>7, RetryFacts DEF Places
  <2>2. /\ UNCHANGED <<pending, queue, draining, stop, phase>>
        /\ job[i].at = "sending"
    BY <1>7 DEF scheduleResolveRetry
  <2> QED BY <2>1, <2>2, QuietMove
<1>8. ASSUME NEW i \in Ids, pendingDone(i) PROVE PoolInv'
  <2>1. Moved(i, "over") /\ "over" \in Places
    BY <1>0, <1>8, MoveFacts DEF pendingDone, Places
  <2>2. /\ pending' = pending \ {i}
        /\ UNCHANGED <<queue, draining, stop, phase>>
        /\ job[i].at \in {"sent", "undone"}
    BY <1>8 DEF pendingDone
  <2> QED BY <2>1, <2>2, QuietMove
<1>9. ASSUME NEW q \in Queues, Take(q) PROVE PoolInv'
  BY <1>9, TakeKeepsInv
<1>10. CASE ShutdownStep
  <2>1. UNCHANGED <<job, pending, queue, draining>>
    BY <1>10 DEF ShutdownStep, unblockProducers, ShutdownLock, ShutdownClose, ShutdownReturns
  <2>2. stop' \in BOOLEAN
    BY <1>0, <1>10 DEF PoolTypeOK, ShutdownStep, unblockProducers, ShutdownLock,
                       ShutdownClose, ShutdownReturns
  <2>3. /\ phase' \in {"run", "lock", "drain", "off", "saved"}
        /\ closed => closed'
        /\ closed' => closed \/ InSubmit = {}
    BY <1>0, <1>10 DEF PoolTypeOK, ShutdownStep, unblockProducers, ShutdownLock,
                       ShutdownClose, ShutdownReturns, closed
  <2> QED BY <2>1, <2>2, <2>3 DEF PoolInv, PoolTypeOK, OutboxIsExact, QueuesConsistent,
          QueuedIsOnQueue, OneHolder, DrainingHasNoHolder, DropIsMarked, NoSendAfterClose,
          Ids, At, Q, InSubmit
<1>11. CASE UNCHANGED poolVars
  BY <1>11 DEF poolVars, PoolInv, PoolTypeOK, OutboxIsExact, QueuesConsistent,
          QueuedIsOnQueue, OneHolder, DrainingHasNoHolder, DropIsMarked, NoSendAfterClose,
          Ids, At, Q, InSubmit, closed
<1> QED BY <1>1, <1>2, <1>3, <1>4, <1>5, <1>6, <1>7, <1>8, <1>9, <1>10, <1>11
        DEF PoolNext, PoolStep, submit, settle

\* The inductive invariant holds throughout.
THEOREM PoolInvariant == PoolSpec => []PoolInv
BY InitPoolInv, StepPoolInv, PTL DEF PoolSpec

\* The pool's state has its type, whatever the number of producers and queues.
THEOREM PoolTypeCorrect == PoolSpec => []PoolTypeOK
<1>1. PoolInv => PoolTypeOK
  BY DEF PoolInv
<1> QED BY <1>1, PoolInvariant, PTL

\* The outbox (pendingAdd, pendingDone) is exactly the unsettled deliveries: no
\* path through submit, settle, the retry timer or Shutdown forgets one.
THEOREM OutboxExact == PoolSpec => []OutboxIsExact
<1>1. PoolInv => OutboxIsExact
  BY DEF PoolInv
<1> QED BY <1>1, PoolInvariant, PTL

\* Every queue holds its own deliveries, once each, within its capacity.
THEOREM QueuesAreConsistent == PoolSpec => []QueuesConsistent
<1>1. PoolInv => QueuesConsistent
  BY DEF PoolInv
<1> QED BY <1>1, PoolInvariant, PTL

\* Shutdown's close never meets a producer that is about to send.
THEOREM CloseIsSafe == PoolSpec => []NoSendAfterClose
<1>1. PoolInv => NoSendAfterClose
  BY DEF PoolInv
<1> QED BY <1>1, PoolInvariant, PTL

-----------------------------------------------------------------------------
(***************************************************************************)
(* The order of deliveries.  Two deliveries i, j of one producer for one   *)
(* fingerprint share a queue, so as long as i is neither settled nor being *)
(* retried it is ahead of j on that queue, in the worker's hands, or       *)
(* dropped; and a drop keeps j off the queue.                              *)
(***************************************************************************)
TimerMeansRetry == \A i \in Ids : job[i].at = "timer" => job[i].retries > 0

OrderedPair(i, j) ==
    /\ job[i].at \in {"queued", "sending", "sent", "undone", "dropped"}
    /\ job[j].at \in {"entering", "waiting", "parked", "queued", "dropped"}
    /\ job[i].at = "dropped" => job[j].at # "queued"
    /\ \A k, l \in DOMAIN queue[Q(i)] : queue[Q(i)][k] = i /\ queue[Q(i)][l] = j => k < l

\* i is ahead of j, unless it is settled or being retried.
InLine(i, j) == job[i].retries = 0 /\ job[i].at # "over" => OrderedPair(i, j)

Ordered == \A i, j \in Ids : EnqueuedBefore(i, j) => InLine(i, j)

OrderInv == PoolInv /\ TimerMeansRetry /\ Ordered

\* A step that leaves the queues alone, moves one job and keeps its retries.
LEMMA QuietMoveInLine ==
    ASSUME PoolInv, NEW i \in Ids, NEW p \in Places, Moved(i, p),
           job'[i].retries = job[i].retries \/ job'[i].retries > 0,
           \A j \in Ids : j # i => job'[j].retries = job[j].retries,
           queue' = queue,
           \/ job[i].at \in {"entering", "timer", "waiting", "parked"}
              /\ p \in {"waiting", "parked", "dropped"}
           \/ job[i].at = "sending" /\ p \in {"sent", "undone"}
           \/ job[i].at = "sending" /\ p = "timer" /\ job'[i].retries > 0
           \/ job[i].at \in {"sent", "undone"} /\ p = "over",
           NEW a \in Ids, NEW b \in Ids, a # b, InLine(a, b)
    PROVE  InLine(a, b)'
<1> SUFFICES ASSUME job'[a].retries = 0, job'[a].at # "over"
             PROVE  OrderedPair(a, b)'
  BY DEF InLine
<1>1. Q(a)' = Q(a)
  BY DEF Moved, Q
<1>2. job[a].retries = 0 /\ job[a].at # "over"
  <2>1. CASE a = i
    BY <2>1 DEF Moved
  <2>2. CASE a # i
    BY <2>2 DEF Moved
  <2> QED BY <2>1, <2>2
<1>3. OrderedPair(a, b)
  BY <1>2 DEF InLine
<1>4. CASE a = i
  BY <1>1, <1>3, <1>4 DEF OrderedPair, Moved
<1>5. CASE b = i
  BY <1>1, <1>3, <1>5 DEF OrderedPair, Moved
<1>6. CASE a # i /\ b # i
  BY <1>1, <1>3, <1>6 DEF OrderedPair, Moved
<1> QED BY <1>4, <1>5, <1>6

\* The last place of a queue is behind every delivery that is on it.
LEMMA PutInLine ==
    ASSUME PoolInv, NEW i \in Ids, Moved(i, "queued"),
           \A j \in Ids : job'[j].retries = job[j].retries,
           job[i].at \in {"waiting", "parked"}, ~draining[Q(i)],
           queue' = [queue EXCEPT ![Q(i)] = Append(@, i)],
           NEW a \in Ids, NEW b \in Ids, a # b, job[a].fp = job[b].fp, InLine(a, b)
    PROVE  InLine(a, b)'
<1>2. ~closed
  BY DEF PoolInv, NoSendAfterClose, InSubmit, At
<1>3. \A c \in Ids : Q(c) \in Queues /\ queue[Q(c)] \in Seq(Ids) /\ c \in Nat
  <2> SUFFICES ASSUME NEW c \in Ids
               PROVE  Q(c) \in Queues /\ queue[Q(c)] \in Seq(Ids) /\ c \in Nat
    OBVIOUS
  <2>1. job[c] \in JobType /\ c \in Nat
    BY ElementOfSeq, LenProperties DEF PoolInv, PoolTypeOK, Ids
  <2>2. Q(c) \in Queues
    BY <2>1, DispatcherConstants DEF JobType, Q
  <2> QED BY <2>1, <2>2 DEF PoolInv, PoolTypeOK
<1> DEFINE q0 == Q(i)
           n == Len(queue[q0])
<1>4. /\ n \in Nat /\ DOMAIN queue[q0] = 1..n /\ DOMAIN queue'[q0] = 1..(n + 1)
      /\ \A k \in 1..n : queue'[q0][k] = queue[q0][k]
      /\ queue'[q0][n + 1] = i
      /\ \A q \in Queues : q # q0 => queue'[q] = queue[q]
  <2>1. q0 \in Queues /\ queue[q0] \in Seq(Ids)
    BY <1>3
  <2>2. queue'[q0] = Append(queue[q0], i) /\ \A q \in Queues : q # q0 => queue'[q] = queue[q]
    BY <2>1 DEF PoolInv, PoolTypeOK
  <2> HIDE DEF q0
  <2>3. /\ Append(queue[q0], i) \in Seq(Ids)
        /\ Len(Append(queue[q0], i)) = n + 1
        /\ \A k \in 1..n : Append(queue[q0], i)[k] = queue[q0][k]
        /\ Append(queue[q0], i)[n + 1] = i
    BY <2>1, AppendProperties
  <2>4. /\ n \in Nat /\ DOMAIN queue[q0] = 1..n
        /\ DOMAIN Append(queue[q0], i) = 1..(n + 1)
    BY <2>1, <2>3, LenProperties
  <2> HIDE DEF n
  <2> QED BY <2>2, <2>3, <2>4
<1> SUFFICES ASSUME job'[a].retries = 0, job'[a].at # "over"
             PROVE  OrderedPair(a, b)'
  BY DEF InLine
<1>5. Q(a)' = Q(a) /\ Q(b) = Q(a)
  BY DEF Moved, Q
<1>6. job[a].retries = 0 /\ job[a].at # "over"
  <2>1. CASE a = i
    BY <2>1 DEF Moved
  <2>2. CASE a # i
    BY <2>2 DEF Moved
  <2> QED BY <2>1, <2>2
<1>7. OrderedPair(a, b)
  BY <1>6 DEF InLine
<1>8. a # i
  BY <1>7 DEF OrderedPair
<1>9. job'[a] = job[a]
  BY <1>8 DEF Moved
<1>10. job'[b].at \in {"entering", "waiting", "parked", "queued", "dropped"}
  BY <1>7 DEF OrderedPair, Moved
<1>11. ASSUME job'[a].at = "dropped" PROVE job'[b].at # "queued"
  <2>1. draining[Q(a)]
    BY <1>2, <1>9, <1>11 DEF PoolInv, DropIsMarked, At
  <2>2. b # i
    BY <1>5, <2>1
  <2> QED BY <1>7, <1>9, <1>11, <2>2 DEF OrderedPair, Moved
<1>12. ASSUME NEW k \in DOMAIN queue'[Q(a)], NEW l \in DOMAIN queue'[Q(a)],
              queue'[Q(a)][k] = a, queue'[Q(a)][l] = b
       PROVE  k < l
  <2>1. CASE Q(a) # q0
    BY <1>3, <1>4, <1>7, <1>12, <2>1 DEF OrderedPair
  <2>2. CASE Q(a) = q0
    <3> HIDE DEF q0, n
    <3>1. k \in 1..n
      BY <1>4, <1>8, <1>12, <2>2
    <3>2. CASE l = n + 1
      BY <1>4, <3>1, <3>2
    <3>3. CASE l # n + 1
      BY <1>4, <1>7, <1>12, <2>2, <3>1, <3>3 DEF OrderedPair
    <3> QED BY <3>2, <3>3
  <2> QED BY <2>1, <2>2
<1> QED BY <1>5, <1>7, <1>9, <1>10, <1>11, <1>12 DEF OrderedPair

\* The head of a queue is ahead of everything: an idle worker takes it, so what
\* was enqueued before it is settled or being retried.
LEMMA TakeInLine ==
    ASSUME PoolInv, NEW q0 \in Queues, Take(q0),
           NEW a \in Ids, NEW b \in Ids, a # b, job[a].fp = job[b].fp, InLine(a, b)
    PROVE  InLine(a, b)'
<1> DEFINE i == Head(queue[q0])
           n == Len(queue[q0])
<1>1. queue[q0] \in Seq(Ids) /\ queue[q0] # <<>> /\ Busy(q0) = {}
  BY DEF PoolInv, PoolTypeOK, Take
<1>2. /\ i \in Ids /\ i = queue[q0][1]
      /\ n \in Nat /\ n # 0
      /\ DOMAIN queue[q0] = 1..n
  BY <1>1, HeadTailProperties, LenProperties, EmptySeq
<1>3. /\ \A k \in 1..(n - 1) : queue'[q0][k] = queue[q0][k + 1]
      /\ DOMAIN queue'[q0] = 1..(n - 1)
  <2> DEFINE t == Tail(queue[q0])
  <2>1. /\ t \in Seq(Ids)
        /\ Len(t) = n - 1
        /\ \A k \in 1..Len(t) : t[k] = queue[q0][k + 1]
    BY <1>1, HeadTailProperties
  <2>2. queue'[q0] = t
    BY DEF PoolInv, PoolTypeOK, Take
  <2> HIDE DEF t, n
  <2>3. DOMAIN t = 1..Len(t)
    BY <2>1, LenProperties
  <2> QED BY <2>1, <2>2, <2>3
<1>4. \A q \in Queues : q # q0 => queue'[q] = queue[q]
  BY DEF PoolInv, PoolTypeOK, Take
<1>5. Moved(i, "sending") /\ \A j \in Ids : job'[j].retries = job[j].retries
  <2>1. Move(i, "sending") /\ "sending" \in Places
    BY DEF Take, Places
  <2> HIDE DEF i
  <2> QED BY <1>2, <2>1, MoveFacts DEF PoolInv
<1>6. job[i].at = "queued" /\ Q(i) = q0
  BY <1>2 DEF PoolInv, QueuesConsistent
<1> HIDE DEF i, n
<1> SUFFICES ASSUME job'[a].retries = 0, job'[a].at # "over"
             PROVE  OrderedPair(a, b)'
  BY DEF InLine
<1>7. Q(a)' = Q(a) /\ Q(b) = Q(a)
  BY <1>5 DEF Moved, Q
<1>8. job[a].retries = 0 /\ job[a].at # "over"
  <2>1. CASE a = i
    BY <1>5, <1>6, <2>1
  <2>2. CASE a # i
    BY <1>5, <2>2 DEF Moved
  <2> QED BY <2>1, <2>2
<1>9. OrderedPair(a, b)
  BY <1>8 DEF InLine
<1>10. b # i
  <2> SUFFICES ASSUME b = i PROVE FALSE
    OBVIOUS
  <2>1. Q(a) = q0 /\ job[b].at = "queued"
    BY <1>6, <1>7
  <2>2. job[a].at = "queued"
    BY <1>1, <1>9, <2>1 DEF OrderedPair, Busy, At
  <2>3. PICK k \in DOMAIN queue[q0] : queue[q0][k] = a
    BY <2>1, <2>2 DEF PoolInv, QueuedIsOnQueue
  <2>4. k < 1
    BY <1>2, <1>9, <2>1, <2>3 DEF OrderedPair
  <2> QED BY <1>2, <2>3, <2>4
<1>11. job'[b] = job[b]
  BY <1>5, <1>10 DEF Moved
<1>12. job'[a].at \in {"queued", "sending", "sent", "undone", "dropped"}
  BY <1>5, <1>9 DEF OrderedPair, Moved
<1>13. job'[a].at = "dropped" => job'[b].at # "queued"
  BY <1>5, <1>9, <1>11 DEF OrderedPair, Moved
<1>14. ASSUME NEW k \in DOMAIN queue'[Q(a)], NEW l \in DOMAIN queue'[Q(a)],
              queue'[Q(a)][k] = a, queue'[Q(a)][l] = b
       PROVE  k < l
  <2>0. Q(a) \in Queues
    <3>1. job[a] \in JobType
      BY ElementOfSeq, LenProperties DEF PoolInv, PoolTypeOK, Ids
    <3> QED BY <3>1, DispatcherConstants DEF JobType, Q
  <2>1. CASE Q(a) # q0
    BY <1>4, <1>9, <1>14, <2>0, <2>1 DEF OrderedPair
  <2>2. CASE Q(a) = q0
    <3>1. /\ k \in Nat /\ l \in Nat
          /\ k + 1 \in DOMAIN queue[q0] /\ l + 1 \in DOMAIN queue[q0]
          /\ queue[q0][k + 1] = a /\ queue[q0][l + 1] = b
      BY <1>2, <1>3, <1>14, <2>2
    <3>2. k + 1 < l + 1
      BY <1>9, <2>2, <3>1 DEF OrderedPair
    <3> QED BY <3>1, <3>2
  <2> QED BY <2>1, <2>2
<1> QED BY <1>7, <1>9, <1>11, <1>12, <1>13, <1>14 DEF OrderedPair

\* The pool's own steps keep the line, whoever enqueued the two, and only a retry
\* starts a timer.
LEMMA PoolStepInLine ==
    ASSUME PoolInv, TimerMeansRetry, PoolStep
    PROVE  /\ TimerMeansRetry'
           /\ Ids' = Ids
           /\ \A j \in Ids : job'[j].by = job[j].by /\ job'[j].fp = job[j].fp
           /\ \A a, b \in Ids :
                 a # b /\ job[a].fp = job[b].fp /\ InLine(a, b) => InLine(a, b)'
<1> DEFINE Line == /\ TimerMeansRetry'
                   /\ Ids' = Ids
                   /\ \A j \in Ids : job'[j].by = job[j].by /\ job'[j].fp = job[j].fp
                   /\ \A a, b \in Ids :
                         a # b /\ job[a].fp = job[b].fp /\ InLine(a, b) => InLine(a, b)'
<1>0. PoolTypeOK
  BY DEF PoolInv
<1>1. ASSUME NEW i \in Ids, NEW p \in Places, p # "timer", Moved(i, p),
             \A j \in Ids : job'[j].retries = job[j].retries
      PROVE  /\ TimerMeansRetry' /\ Ids' = Ids
             /\ \A j \in Ids : job'[j].by = job[j].by /\ job'[j].fp = job[j].fp
  BY <1>1 DEF TimerMeansRetry, Moved
<1>2. ASSUME NEW i \in Ids, Enter(i) \/ GiveUp(i) PROVE Line
  <2>1. PICK p \in {"dropped", "waiting"} : Move(i, p)
    BY <1>2 DEF Enter, GiveUp
  <2>2. Moved(i, p) /\ (\A j \in Ids : job'[j].retries = job[j].retries) /\ p \in Places
    BY <1>0, <2>1, MoveFacts DEF Places
  <2>3. queue' = queue /\ job[i].at \in {"entering", "timer", "parked"}
    BY <1>2 DEF Enter, GiveUp
  <2>4. \A a, b \in Ids : a # b /\ InLine(a, b) => InLine(a, b)'
    BY <2>1, <2>2, <2>3, QuietMoveInLine
  <2> QED BY <1>1, <2>1, <2>2, <2>4
<1>3. ASSUME NEW i \in Ids, TryQueue(i) PROVE Line
  <2>1. CASE ~draining[Q(i)] /\ Room(Q(i))
    <3>1. /\ Moved(i, "queued") /\ "queued" \in Places
          /\ \A j \in Ids : job'[j].retries = job[j].retries
      BY <1>0, <1>3, <2>1, MoveFacts DEF TryQueue, Places
    <3>2. \A a, b \in Ids : a # b /\ job[a].fp = job[b].fp /\ InLine(a, b) => InLine(a, b)'
      BY <1>3, <2>1, <3>1, PutInLine DEF TryQueue
    <3> QED BY <1>1, <3>1, <3>2
  <2>2. CASE ~(~draining[Q(i)] /\ Room(Q(i)))
    <3>1. PICK p \in {"dropped", "parked"} : Move(i, p)
      BY <1>3, <2>2 DEF TryQueue
    <3>2. Moved(i, p) /\ (\A j \in Ids : job'[j].retries = job[j].retries) /\ p \in Places
      BY <1>0, <3>1, MoveFacts DEF Places
    <3>3. queue' = queue /\ job[i].at = "waiting"
      BY <1>3, <2>2 DEF TryQueue
    <3>4. \A a, b \in Ids : a # b /\ InLine(a, b) => InLine(a, b)'
      BY <3>1, <3>2, <3>3, QuietMoveInLine
    <3> QED BY <1>1, <3>1, <3>2, <3>4
  <2> QED BY <2>1, <2>2
<1>4. ASSUME NEW i \in Ids, Unpark(i) PROVE Line
  <2>1. /\ Moved(i, "queued") /\ "queued" \in Places
        /\ \A j \in Ids : job'[j].retries = job[j].retries
    BY <1>0, <1>4, MoveFacts DEF Unpark, Places
  <2>2. ~draining[Q(i)]
    BY <1>4 DEF Unpark, PoolInv, DrainingHasNoHolder, At
  <2>3. \A a, b \in Ids : a # b /\ job[a].fp = job[b].fp /\ InLine(a, b) => InLine(a, b)'
    BY <1>4, <2>1, <2>2, PutInLine DEF Unpark
  <2> QED BY <1>1, <2>1, <2>3
<1>5. ASSUME NEW i \in Ids, Deliver(i) \/ Fail(i) PROVE Line
  <2>1. PICK p \in {"sent", "undone"} : Move(i, p)
    BY <1>5 DEF Deliver, Fail
  <2>2. Moved(i, p) /\ (\A j \in Ids : job'[j].retries = job[j].retries) /\ p \in Places
    BY <1>0, <2>1, MoveFacts DEF Places
  <2>3. queue' = queue /\ job[i].at = "sending"
    BY <1>5 DEF Deliver, Fail
  <2>4. \A a, b \in Ids : a # b /\ InLine(a, b) => InLine(a, b)'
    BY <2>1, <2>2, <2>3, QuietMoveInLine
  <2> QED BY <1>1, <2>1, <2>2, <2>4
<1>6. ASSUME NEW i \in Ids, scheduleResolveRetry(i) PROVE Line
  <2>1. /\ Moved(i, "timer") /\ "timer" \in Places /\ job'[i].retries > 0
        /\ \A j \in Ids : j # i => job'[j].retries = job[j].retries
    BY <1>0, <1>6, RetryFacts DEF Places
  <2>2. queue' = queue /\ job[i].at = "sending"
    BY <1>6 DEF scheduleResolveRetry
  <2>3. \A a, b \in Ids : a # b /\ InLine(a, b) => InLine(a, b)'
    BY <2>1, <2>2, QuietMoveInLine
  <2>4. TimerMeansRetry' /\ Ids' = Ids
    BY <2>1 DEF TimerMeansRetry, Moved
  <2>5. \A j \in Ids : job'[j].by = job[j].by /\ job'[j].fp = job[j].fp
    BY <2>1 DEF Moved
  <2> QED BY <2>3, <2>4, <2>5
<1>7. ASSUME NEW i \in Ids, pendingDone(i) PROVE Line
  <2>1. Moved(i, "over") /\ (\A j \in Ids : job'[j].retries = job[j].retries) /\ "over" \in Places
    BY <1>0, <1>7, MoveFacts DEF pendingDone, Places
  <2>2. queue' = queue /\ job[i].at \in {"sent", "undone"}
    BY <1>7 DEF pendingDone
  <2>3. \A a, b \in Ids : a # b /\ InLine(a, b) => InLine(a, b)'
    BY <2>1, <2>2, QuietMoveInLine
  <2> QED BY <1>1, <2>1, <2>3
<1>8. ASSUME NEW q \in Queues, Take(q) PROVE Line
  <2>1. Head(queue[q]) \in Ids
    BY <1>8, HeadTailProperties DEF PoolInv, PoolTypeOK, Take
  <2>2. /\ Moved(Head(queue[q]), "sending") /\ "sending" \in Places
        /\ \A j \in Ids : job'[j].retries = job[j].retries
    BY <1>0, <1>8, <2>1, MoveFacts DEF Take, Places
  <2>3. \A a, b \in Ids : a # b /\ job[a].fp = job[b].fp /\ InLine(a, b) => InLine(a, b)'
    BY <1>8, TakeInLine
  <2> QED BY <1>1, <2>1, <2>2, <2>3
<1> QED BY <1>2, <1>3, <1>4, <1>5, <1>6, <1>7, <1>8 DEF PoolStep, submit, settle

\* A producer that is in no submit has its deliveries on their queues, settled or
\* dropped: what is enqueued now comes after them.
LEMMA EnqueueInLine ==
    ASSUME PoolInv, TimerMeansRetry,
           NEW p \in Producers, NEW fp \in FP, NEW k \in Kinds, enqueue(p, fp, k),
           NEW n \in Nat, n = Len(job) + 1
    PROVE  /\ TimerMeansRetry'
           /\ Ids' = Ids \cup {n} /\ n \notin Ids
           /\ \A j \in Ids : job'[j] = job[j] /\ j \in Nat /\ j < n
           /\ job'[n].by = p /\ job'[n].fp = fp /\ job'[n].at = "entering" /\ job'[n].retries = 0
           /\ \A a, b \in Ids : InLine(a, b) => InLine(a, b)'
           /\ \A a \in Ids : Idle(job[a].by) => InLine(a, n)'
           /\ \A a \in Ids : job[a].at \notin {"entering", "waiting", "parked"} => InLine(a, n)'
<1> DEFINE new == [by |-> p, fp |-> fp, kind |-> k, retries |-> 0, at |-> "entering"]
<1>1. /\ job \in Seq(JobType) /\ new \in JobType
      /\ new.at = "entering" /\ new.by = p /\ new.fp = fp /\ new.retries = 0
      /\ job' = Append(job, new)
  BY DispatcherConstants DEF PoolInv, PoolTypeOK, enqueue, JobType, Places
<1>2. queue' = queue
  BY DEF enqueue
<1> HIDE DEF new
<1>3. /\ Len(job) \in Nat /\ Len(job') = n /\ job' \in Seq(JobType)
      /\ \A j \in 1..Len(job) : job'[j] = job[j]
      /\ job'[n] = new
  BY <1>1, AppendProperties, LenProperties
<1>4. Ids = 1..Len(job) /\ Ids' = 1..n
  BY <1>1, <1>3, LenProperties DEF Ids
<1>5. /\ Ids' = Ids \cup {n} /\ n \notin Ids
      /\ \A j \in Ids : job'[j] = job[j] /\ j \in Nat /\ j < n
  BY <1>3, <1>4
<1>6. job'[n].at = "entering" /\ job'[n].by = p /\ job'[n].fp = fp /\ job'[n].retries = 0
  BY <1>1, <1>3
<1>7. TimerMeansRetry'
  BY <1>5, <1>6 DEF TimerMeansRetry
<1>8. ASSUME NEW a \in Ids, NEW b \in Ids, InLine(a, b) PROVE InLine(a, b)'
  BY <1>2, <1>5, <1>8 DEF InLine, OrderedPair, Q
<1>9. ASSUME NEW a \in Ids,
             job[a].retries = 0 => job[a].at \notin {"entering", "waiting", "parked"}
      PROVE  InLine(a, n)'
  <2> SUFFICES ASSUME job'[a].retries = 0, job'[a].at # "over" PROVE OrderedPair(a, n)'
    BY DEF InLine
  <2>1. Q(a)' = Q(a) /\ job'[a] = job[a]
    BY <1>5 DEF Q
  <2>2. job[a].at \notin {"entering", "waiting", "parked", "timer", "over"}
    BY <1>9, <2>1 DEF TimerMeansRetry
  <2>3. job[a] \in JobType
    BY <1>1, ElementOfSeq, LenProperties DEF Ids
  <2>4. job[a].at \in {"queued", "sending", "sent", "undone", "dropped"}
    BY <2>2, <2>3 DEF JobType, Places
  <2>5. \A l \in DOMAIN queue[Q(a)] : queue[Q(a)][l] # n
    <3>1. Q(a) \in Queues
      BY <2>3, DispatcherConstants DEF JobType, Q
    <3>2. \A l \in DOMAIN queue[Q(a)] : queue[Q(a)][l] \in Ids
      BY <3>1, ElementOfSeq, LenProperties DEF PoolInv, PoolTypeOK
    <3> QED BY <1>5, <3>2
  <2> QED BY <1>2, <1>6, <2>1, <2>4, <2>5 DEF OrderedPair
<1>10. ASSUME NEW a \in Ids, Idle(job[a].by) PROVE InLine(a, n)'
  BY <1>9, <1>10 DEF Idle
<1> QED BY <1>5, <1>6, <1>7, <1>8, <1>9, <1>10

\* Every step of the pool keeps the order.
LEMMA StepOrder == OrderInv /\ [PoolNext]_poolVars => OrderInv'
<1> SUFFICES ASSUME OrderInv, [PoolNext]_poolVars PROVE TimerMeansRetry' /\ Ordered'
  BY StepPoolInv DEF OrderInv
<1>1. \A a \in Ids : a \in Nat
  BY LenProperties DEF OrderInv, PoolInv, PoolTypeOK, Ids
<1>2. ASSUME NEW p \in Producers, Enqueue(p) PROVE TimerMeansRetry' /\ Ordered'
  <2>1. PICK fp \in FP, k \in Kinds : enqueue(p, fp, k)
    BY <1>2 DEF Enqueue
  <2>0. Len(job) \in Nat
    BY LenProperties DEF OrderInv, PoolInv, PoolTypeOK
  <2> PICK n \in Nat : n = Len(job) + 1
    BY <2>0
  <2>2. /\ TimerMeansRetry'
        /\ Ids' = Ids \cup {n} /\ n \notin Ids /\ n \in Nat
        /\ \A j \in Ids : job'[j] = job[j] /\ j \in Nat /\ j < n
        /\ job'[n].by = p
        /\ \A a, b \in Ids : InLine(a, b) => InLine(a, b)'
        /\ \A a \in Ids : Idle(job[a].by) => InLine(a, n)'
    BY <2>1, EnqueueInLine DEF OrderInv
  <2> SUFFICES ASSUME NEW a \in Ids', NEW b \in Ids', EnqueuedBefore(a, b)'
               PROVE  InLine(a, b)'
    BY <2>2 DEF Ordered
  <2>3. a \in Ids
    BY <2>2 DEF EnqueuedBefore
  <2>4. CASE b \in Ids
    BY <2>2, <2>3, <2>4 DEF EnqueuedBefore, OrderInv, Ordered
  <2>5. CASE b = n
    <3>1. job[a].by = p /\ Idle(p)
      BY <2>1, <2>2, <2>3, <2>5 DEF EnqueuedBefore, enqueue
    <3> QED BY <2>2, <2>3, <2>5, <3>1
  <2> QED BY <2>2, <2>4, <2>5
<1>3. CASE PoolStep
  <2>1. /\ TimerMeansRetry'
        /\ Ids' = Ids
        /\ \A j \in Ids : job'[j].by = job[j].by /\ job'[j].fp = job[j].fp
        /\ \A a, b \in Ids : a # b /\ job[a].fp = job[b].fp /\ InLine(a, b) => InLine(a, b)'
    BY <1>3, PoolStepInLine DEF OrderInv
  <2> QED BY <1>1, <2>1 DEF OrderInv, Ordered, EnqueuedBefore
<1>4. CASE UNCHANGED <<job, queue>>
  BY <1>4 DEF OrderInv, TimerMeansRetry, Ordered, InLine, OrderedPair, EnqueuedBefore, Ids, Q
<1>5. ShutdownStep \/ UNCHANGED poolVars => UNCHANGED <<job, queue>>
  BY DEF ShutdownStep, unblockProducers, ShutdownLock, ShutdownClose, ShutdownReturns, poolVars
<1> QED BY <1>2, <1>3, <1>4, <1>5 DEF PoolNext

\* Deliveries of one producer for one fingerprint are attempted in order, except
\* past a resolve that is being retried: one queue per fingerprint, one worker
\* per queue, and the draining mark are enough for any number of producers.
THEOREM DeliveriesInOrder == PoolSpec => []AttemptedInOrder
<1>1. PoolInit => OrderInv
  <2> SUFFICES ASSUME PoolInit PROVE OrderInv
    OBVIOUS
  <2>1. Ids = {}
    BY DEF PoolInit, Ids
  <2> QED BY <2>1, InitPoolInv DEF OrderInv, TimerMeansRetry, Ordered
<1>2. OrderInv => AttemptedInOrder
  <2> SUFFICES ASSUME OrderInv, NEW i \in Ids, NEW j \in Ids,
                      EnqueuedBefore(i, j), Attempted(j), job[i].at # "over"
               PROVE  job[i].retries > 0
    BY DEF AttemptedInOrder
  <2>1. job[i] \in JobType
    BY ElementOfSeq, LenProperties DEF OrderInv, PoolInv, PoolTypeOK, Ids
  <2>2. job[i].retries \in Nat
    BY <2>1, DispatcherConstants DEF JobType
  <2>3. job[i].retries # 0
    BY DEF OrderInv, Ordered, InLine, OrderedPair, Attempted
  <2> QED BY <2>2, <2>3
<1> QED BY <1>1, <1>2, StepOrder, PTL DEF PoolSpec

\* Once submit has dropped a delivery of a queue, no step puts another one on it.
THEOREM DropsStick == PoolSpec => NothingOvertakesADrop
<1>1. PoolInv /\ [PoolNext]_poolVars => [DropSticks]_poolVars
  <2> SUFFICES ASSUME PoolInv, PoolNext, NEW i \in Ids, NEW j \in Ids,
                      job[i].at = "dropped", job[j].at # "queued", Q(i) = Q(j)
               PROVE  job'[j].at # "queued"
    BY DEF DropSticks
  <2>0. PoolTypeOK /\ (draining[Q(i)] \/ closed)
    BY DEF PoolInv, DropIsMarked, At
  <2>1. ASSUME NEW m \in Ids, NEW p \in Places, Move(m, p), p # "queued" \/ m # j
        PROVE  job'[j].at # "queued"
    BY <2>0, <2>1, MoveFacts DEF Moved
  <2>2. ASSUME NEW m \in Ids, TryQueue(m) PROVE job'[j].at # "queued"
    <3>1. ~closed
      BY <2>2 DEF TryQueue, PoolInv, NoSendAfterClose, InSubmit, At
    <3>2. CASE m = j
      <4>1. Move(m, "dropped") /\ "dropped" \in Places
        BY <2>0, <2>2, <3>1, <3>2 DEF TryQueue, Places
      <4> QED BY <2>1, <4>1
    <3>3. CASE m # j
      <4>1. PICK p \in Places : Move(m, p)
        BY <2>2 DEF TryQueue, Places
      <4> QED BY <2>1, <3>3, <4>1
    <3> QED BY <3>2, <3>3
  <2>3. ASSUME NEW m \in Ids, Unpark(m) PROVE job'[j].at # "queued"
    <3>1. ~closed /\ ~draining[Q(m)]
      BY <2>3 DEF Unpark, PoolInv, NoSendAfterClose, DrainingHasNoHolder, InSubmit, At
    <3>2. m # j
      BY <2>0, <3>1
    <3> QED BY <2>1, <2>3, <3>2 DEF Unpark, Places
  <2>4. ASSUME NEW m \in Ids, Enter(m) \/ GiveUp(m) \/ Deliver(m) \/ Fail(m) \/ pendingDone(m)
        PROVE  job'[j].at # "queued"
    <3>1. PICK p \in Places : Move(m, p) /\ p # "queued"
      BY <2>4 DEF Enter, GiveUp, Deliver, Fail, pendingDone, Places
    <3> QED BY <2>1, <3>1
  <2>5. ASSUME NEW m \in Ids, scheduleResolveRetry(m) PROVE job'[j].at # "queued"
    BY <2>0, <2>5, RetryFacts DEF Moved
  <2>6. ASSUME NEW q \in Queues, Take(q) PROVE job'[j].at # "queued"
    <3>1. queue[q] \in Seq(Ids) /\ queue[q] # <<>> /\ Move(Head(queue[q]), "sending")
      BY <2>0, <2>6 DEF PoolTypeOK, Take
    <3>2. Head(queue[q]) \in Ids
      BY <3>1, HeadTailProperties
    <3> QED BY <2>1, <3>1, <3>2 DEF Places
  <2>7. ASSUME NEW p \in Producers, Enqueue(p) PROVE job'[j].at # "queued"
    <3>1. PICK new : job' = Append(job, new)
      BY <2>7 DEF Enqueue, enqueue
    <3>2. job'[j] = job[j]
      BY <2>0, <3>1, LenProperties DEF PoolTypeOK, Ids
    <3> QED BY <3>2
  <2>8. CASE ShutdownStep
    BY <2>8 DEF ShutdownStep, unblockProducers, ShutdownLock, ShutdownClose, ShutdownReturns
  <2> QED BY <2>2, <2>3, <2>4, <2>5, <2>6, <2>7, <2>8 DEF PoolNext, PoolStep, submit, settle
<1> QED BY <1>1, PoolInvariant, PTL DEF PoolSpec, NothingOvertakesADrop

-----------------------------------------------------------------------------
(***************************************************************************)
(* The outbox.  Its inductive invariant:                                   *)
(***************************************************************************)
Outcomes == [fp : FP, by : Producers, sent : Nat,
             end : {"open", "delivered", "rolledBack", "deadLettered", "foreign", "overwritten"},
             saved : BOOLEAN, retried : BOOLEAN]

Records == [id : Nat, fp : FP, kind : Kinds, ref : Nat]

OutboxType ==
    /\ outcome \in Seq(Outcomes)
    /\ disk \in SUBSET Records
    /\ IsFiniteSet(disk)
    /\ replay \in Seq(Records)
    /\ restarts \in Nat
    /\ ref \in Seq(Nat)
    /\ Len(ref) = Len(job)

\* Jobs and records carry deliveries that were accepted.
RefsKnown ==
    /\ \A i \in Ids : ref[i] \in DOMAIN outcome
    /\ \A x \in disk : x.ref \in DOMAIN outcome
    /\ \A k \in DOMAIN replay : replay[k].ref \in DOMAIN outcome

\* The order of the ids and of the records is the order of acceptance, and what
\* is still to be replayed comes after what has been.
RefsInOrder ==
    /\ \A i, j \in Ids : i < j => ref[i] < ref[j]
    /\ \A x, y \in disk : (x.id < y.id => x.ref < y.ref) /\ (x.id = y.id => x = y)
    /\ \A k, l \in DOMAIN replay : k < l => replay[k].ref < replay[l].ref
    /\ \A i \in Ids, k \in DOMAIN replay : ref[i] < replay[k].ref

ReplayedBeforeShutdown == phase # "run" => replay = <<>>

\* The last save has every delivery that some save had and that is open still.
OpenIsOnDisk == \A r \in DOMAIN outcome : outcome[r].saved /\ outcome[r].end = "open" => OnDisk(r)

\* settle has decided before the record goes.
UndoneIsFinal == \A i \in Ids : job[i].at = "undone" => outcome[ref[i]].end # "open"

\* The sends of earlier processes, and the one of this process.
SentHere(r) == \E i \in Ids : ref[i] = r /\ job[i].at \in {"sent", "over"}
SentIsCounted ==
    \A r \in DOMAIN outcome :
        outcome[r].sent <= IF SentHere(r) THEN restarts + 1 ELSE restarts

OutboxInv ==
    /\ PoolInv
    /\ OutboxType
    /\ RefsKnown
    /\ RefsInOrder
    /\ ReplayedBeforeShutdown
    /\ OpenIsOnDisk
    /\ UndoneIsFinal
    /\ SentIsCounted
    /\ SavedIsNeverLost

-----------------------------------------------------------------------------
(***************************************************************************)
(* Nth lists a finite set of numbers, each once, in their order.           *)
(***************************************************************************)
Rank(S, i) == Cardinality({j \in S : j < i})

LEMMA RankGrows ==
    ASSUME NEW S \in SUBSET Nat, IsFiniteSet(S), NEW i \in S, NEW j \in S, i < j
    PROVE  Rank(S, i) < Rank(S, j)
<1> DEFINE A == {m \in S : m < i}
           B == {m \in S : m < j}
<1>1. IsFiniteSet(B) /\ B \in SUBSET S
  BY FS_Subset
<1>2. A \in SUBSET B /\ i \in B /\ i \notin A
  <2>1. i \in Nat /\ j \in Nat /\ \A m \in S : m \in Nat
    OBVIOUS
  <2>2. \A m \in S : m < i => m < j
    BY <2>1
  <2>3. ~(i < i)
    BY <2>1
  <2> QED BY <2>2, <2>3
<1>3. IsFiniteSet(A) /\ Cardinality(A) <= Cardinality(B) /\ Cardinality(A) # Cardinality(B)
  <2> HIDE DEF A, B
  <2> QED BY <1>1, <1>2, FS_Subset
<1>4. Cardinality(A) \in Nat /\ Cardinality(B) \in Nat
  BY <1>1, <1>3, FS_CardinalityType
<1> QED BY <1>3, <1>4 DEF Rank

LEMMA RankBounded ==
    ASSUME NEW S \in SUBSET Nat, IsFiniteSet(S), NEW i \in S
    PROVE  Rank(S, i) \in 0..(Cardinality(S) - 1)
<1> DEFINE A == {m \in S : m < i}
<1>1. A \in SUBSET S /\ i \notin A
  OBVIOUS
<1>2. IsFiniteSet(A) /\ Cardinality(A) <= Cardinality(S) /\ Cardinality(A) # Cardinality(S)
  <2> HIDE DEF A
  <2> QED BY <1>1, FS_Subset
<1>3. Cardinality(A) \in Nat /\ Cardinality(S) \in Nat
  BY <1>2, FS_CardinalityType
<1> QED BY <1>2, <1>3 DEF Rank

LEMMA NthLists ==
    ASSUME NEW S \in SUBSET Nat, IsFiniteSet(S)
    PROVE  /\ Cardinality(S) \in Nat
           /\ \A k \in 1..Cardinality(S) : Nth(S, k) \in S
           /\ \A k, l \in 1..Cardinality(S) : k < l => Nth(S, k) < Nth(S, l)
           /\ \A i \in S : \E k \in 1..Cardinality(S) : Nth(S, k) = i
<1> DEFINE n == Cardinality(S)
           f == [i \in S |-> Rank(S, i)]
<1>1. n \in Nat
  BY FS_CardinalityType
<1>2. \A i, j \in S : i # j => Rank(S, i) # Rank(S, j)
  <2>1. \A i \in S : Rank(S, i) \in Nat
    BY RankBounded
  <2> QED BY <2>1, RankGrows
<1>3. f \in Injection(S, 0..(n - 1))
  <2>1. \A i \in S : f[i] \in 0..(n - 1)
    BY RankBounded
  <2> HIDE DEF n
  <2>2. f \in [S -> 0..(n - 1)]
    BY <2>1
  <2> QED BY <1>2, <2>2 DEF Injection, IsInjective
<1>4. IsFiniteSet(0..(n - 1)) /\ Cardinality(0..(n - 1)) = n
  <2> HIDE DEF n
  <2> QED BY <1>1, FS_Interval
<1>5. f \in Surjection(S, 0..(n - 1))
  <2> HIDE DEF f
  <2> QED BY <1>3, <1>4, FS_Injection
<1>6. \A m \in 0..(n - 1) : \E i \in S : Rank(S, i) = m
  <2> HIDE DEF n
  <2> QED BY <1>5 DEF Surjection
<1>7. \A k \in 1..n : Nth(S, k) \in S /\ Rank(S, Nth(S, k)) = k - 1
  <2> SUFFICES ASSUME NEW k \in 1..n PROVE Nth(S, k) \in S /\ Rank(S, Nth(S, k)) = k - 1
    OBVIOUS
  <2>1. \E i \in S : Rank(S, i) = k - 1
    BY <1>1, <1>6
  <2> QED BY <2>1 DEF Nth, Rank
<1>8. \A k, l \in 1..n : k < l => Nth(S, k) < Nth(S, l)
  <2> SUFFICES ASSUME NEW k \in 1..n, NEW l \in 1..n, k < l PROVE Nth(S, k) < Nth(S, l)
    OBVIOUS
  <2> DEFINE a == Nth(S, k)
             b == Nth(S, l)
  <2>1. a \in S /\ b \in S /\ Rank(S, a) = k - 1 /\ Rank(S, b) = l - 1
    BY <1>7
  <2> HIDE DEF a, b, n
  <2>2. a # b /\ ~(b < a)
    BY <1>1, <2>1, RankGrows
  <2>3. a \in Nat /\ b \in Nat
    BY <2>1
  <2> QED BY <2>2, <2>3 DEF a, b
<1>9. \A i \in S : \E k \in 1..n : Nth(S, k) = i
  <2> SUFFICES ASSUME NEW i \in S PROVE \E k \in 1..n : Nth(S, k) = i
    OBVIOUS
  <2> DEFINE k == Rank(S, i) + 1
  <2>1. k \in 1..n /\ k - 1 = Rank(S, i)
    BY <1>1, RankBounded
  <2>2. Nth(S, k) \in S /\ Rank(S, Nth(S, k)) = Rank(S, i)
    BY <1>7, <2>1
  <2>3. Nth(S, k) = i
    BY <1>2, <2>2
  <2> QED BY <2>1, <2>3
<1> QED BY <1>1, <1>7, <1>8, <1>9

-----------------------------------------------------------------------------
(***************************************************************************)
(* Steps of the pool.                                                      *)
(***************************************************************************)
\* What a delivery's history takes from a step of its job.
LEMMA ObservedFacts ==
    ASSUME NEW o \in Outcomes, NEW from, NEW to, NEW kind,
           NEW w, w = Observed(o, from, to, kind)
    PROVE  /\ w \in Outcomes
           /\ w.fp = o.fp /\ w.by = o.by /\ w.saved = o.saved
           /\ w.sent = IF to = "sent" /\ from # "sent" THEN o.sent + 1 ELSE o.sent
           /\ w.retried = (o.retried \/ to = "timer")
           /\ w.end = "open" => o.end = "open" /\ to # "undone" /\ ~(to = "over" /\ from = "sent")
<1> DEFINE sent == IF to = "sent" /\ from # "sent" THEN o.sent + 1 ELSE o.sent
           retried == o.retried \/ to = "timer"
           end == IF to = "undone" THEN IF kind = "fire" THEN "rolledBack" ELSE "deadLettered"
                  ELSE IF to = "over" /\ from = "sent" THEN "delivered"
                  ELSE o.end
<1>1. o = [fp |-> o.fp, by |-> o.by, sent |-> o.sent, end |-> o.end, saved |-> o.saved,
           retried |-> o.retried]
  BY DEF Outcomes
<1>2. w = [fp |-> o.fp, by |-> o.by, sent |-> sent, end |-> end, saved |-> o.saved,
           retried |-> retried]
  BY <1>1 DEF Observed
<1>3. sent \in Nat
  BY DEF Outcomes
<1>4. end \in {"open", "delivered", "rolledBack", "deadLettered", "foreign", "overwritten"}
  BY DEF Outcomes
<1>5. retried \in BOOLEAN
  BY Zenon
<1>6. o.fp \in FP /\ o.by \in Producers /\ o.saved \in BOOLEAN
  BY DEF Outcomes
<1>7. /\ w.fp = o.fp /\ w.by = o.by /\ w.saved = o.saved
      /\ w.sent = sent /\ w.end = end /\ w.retried = retried
  <2> HIDE DEF sent, retried, end
  <2> QED BY <1>2
<1>8. w \in Outcomes
  <2> HIDE DEF sent, retried, end
  <2> QED BY <1>2, <1>3, <1>4, <1>5, <1>6 DEF Outcomes
<1>9. end = "open" => o.end = "open" /\ to # "undone" /\ ~(to = "over" /\ from = "sent")
  OBVIOUS
<1> QED BY <1>7, <1>8, <1>9

\* A step of the pool moves one job, forward.
MovedForward(i, p) ==
    /\ Moved(i, p)
    /\ job[i].at \notin {p, "over"}
    /\ job[i].at \in {"sent", "undone"} <=> p = "over"
    /\ p = "sent" => job[i].at = "sending"
    /\ p # "timer" => job'[i].retries = job[i].retries
    /\ pending' = IF p = "over" THEN pending \ {i} ELSE pending
    /\ phase' = phase

LEMMA PoolStepMoves ==
    ASSUME PoolInv, PoolStep
    PROVE  \E i \in Ids, p \in Places : MovedForward(i, p)
<1>0. PoolTypeOK
  BY DEF PoolInv
<1>1. ASSUME NEW i \in Ids, Enter(i) \/ TryQueue(i) \/ Unpark(i) \/ GiveUp(i)
      PROVE  \E p \in Places : MovedForward(i, p)
  <2>1. PICK p \in {"waiting", "parked", "queued", "dropped"} : Move(i, p) /\ job[i].at # p
    BY <1>1 DEF Enter, TryQueue, Unpark, GiveUp
  <2>2. Moved(i, p) /\ p \in Places /\ job'[i].retries = job[i].retries
    BY <1>0, <2>1, MoveFacts DEF Places
  <2>3. job[i].at \in {"entering", "timer", "waiting", "parked"} /\ UNCHANGED <<pending, phase>>
    BY <1>1 DEF Enter, TryQueue, Unpark, GiveUp
  <2> QED BY <2>1, <2>2, <2>3 DEF MovedForward
<1>2. ASSUME NEW i \in Ids, Deliver(i) \/ Fail(i) PROVE \E p \in Places : MovedForward(i, p)
  <2>1. PICK p \in {"sent", "undone"} : Move(i, p) /\ job[i].at = "sending"
    BY <1>2 DEF Deliver, Fail
  <2>2. Moved(i, p) /\ p \in Places /\ job'[i].retries = job[i].retries
    BY <1>0, <2>1, MoveFacts DEF Places
  <2>3. UNCHANGED <<pending, phase>>
    BY <1>2 DEF Deliver, Fail
  <2> QED BY <2>1, <2>2, <2>3 DEF MovedForward
<1>3. ASSUME NEW i \in Ids, scheduleResolveRetry(i) PROVE MovedForward(i, "timer")
  BY <1>0, <1>3, RetryFacts DEF MovedForward, scheduleResolveRetry
<1>4. ASSUME NEW i \in Ids, pendingDone(i) PROVE MovedForward(i, "over")
  <2>1. Moved(i, "over") /\ job'[i].retries = job[i].retries
    BY <1>0, <1>4, MoveFacts DEF pendingDone, Places
  <2> QED BY <1>4, <2>1 DEF MovedForward, pendingDone
<1>5. ASSUME NEW q \in Queues, Take(q) PROVE \E i \in Ids : MovedForward(i, "sending")
  <2> DEFINE i == Head(queue[q])
  <2>1. queue[q] \in Seq(Ids) /\ queue[q] # <<>> /\ Move(i, "sending")
    BY <1>0, <1>5 DEF PoolTypeOK, Take
  <2>2. i \in Ids /\ job[i].at = "queued"
    <3>1. i \in Ids /\ i = queue[q][1] /\ 1 \in DOMAIN queue[q]
      BY <2>1, HeadTailProperties, LenProperties, EmptySeq
    <3> QED BY <3>1 DEF PoolInv, QueuesConsistent
  <2> HIDE DEF i
  <2>3. Moved(i, "sending") /\ job'[i].retries = job[i].retries
    BY <1>0, <2>1, <2>2, MoveFacts DEF Places
  <2> QED BY <1>5, <2>2, <2>3 DEF MovedForward, Take
<1>6. "timer" \in Places /\ "over" \in Places /\ "sending" \in Places
  BY DEF Places
<1> QED BY <1>1, <1>2, <1>3, <1>4, <1>5, <1>6 DEF PoolStep, submit, settle

LEMMA RefFacts ==
    ASSUME OutboxInv
    PROVE  /\ DOMAIN outcome = 1..Len(outcome) /\ Len(outcome) \in Nat
           /\ DOMAIN ref = Ids /\ Ids = 1..Len(job) /\ Len(job) \in Nat
           /\ \A i, j \in Ids : ref[i] = ref[j] => i = j
           /\ \A r \in DOMAIN outcome : outcome[r] \in Outcomes
           /\ \A i \in Ids : ref[i] \in Nat
<1>1. /\ DOMAIN outcome = 1..Len(outcome) /\ Len(outcome) \in Nat
      /\ DOMAIN ref = Ids /\ Ids = 1..Len(job) /\ Len(job) \in Nat
  BY LenProperties DEF OutboxInv, OutboxType, PoolInv, PoolTypeOK, Ids
<1>2. \A r \in DOMAIN outcome : outcome[r] \in Outcomes
  BY <1>1, ElementOfSeq DEF OutboxInv, OutboxType
<1>3. \A i \in Ids : ref[i] \in Nat
  BY <1>1, ElementOfSeq DEF OutboxInv, OutboxType
<1>4. \A i, j \in Ids : i < j => ref[i] < ref[j]
  BY DEF OutboxInv, RefsInOrder
<1>5. \A i, j \in Ids : i # j => i < j \/ j < i
  BY <1>1
<1>6. \A i, j \in Ids : ref[i] = ref[j] => i = j
  BY <1>3, <1>4, <1>5
<1> QED BY <1>1, <1>2, <1>3, <1>6

\* What PoolRuns does to the histories.
LEMMA PoolRunsFacts ==
    ASSUME OutboxInv, PoolRuns, NEW i \in Ids, NEW p \in Places, MovedForward(i, p)
    PROVE  /\ DOMAIN outcome' = DOMAIN outcome
           /\ outcome' \in Seq(Outcomes)
           /\ \A r \in DOMAIN outcome :
                 /\ outcome'[r].fp = outcome[r].fp
                 /\ outcome'[r].by = outcome[r].by
                 /\ outcome'[r].saved = outcome[r].saved
                 /\ outcome[r].retried => outcome'[r].retried
                 /\ outcome'[r].end = "open" => outcome[r].end = "open"
                 /\ outcome'[r].sent = IF r = ref[i] /\ p = "sent" THEN outcome[r].sent + 1
                                       ELSE outcome[r].sent
           /\ p \in {"undone", "over"} => outcome'[ref[i]].end # "open"
           /\ p = "timer" => outcome'[ref[i]].retried
<1>0. /\ DOMAIN outcome = 1..Len(outcome) /\ Len(outcome) \in Nat
      /\ \A r \in DOMAIN outcome : outcome[r] \in Outcomes
      /\ \A a, b \in Ids : ref[a] = ref[b] => a = b
      /\ ref[i] \in DOMAIN outcome
  BY RefFacts DEF OutboxInv, RefsKnown
<1>1. /\ DOMAIN outcome' = DOMAIN outcome
      /\ \A r \in DOMAIN outcome : (\A j \in Ids : ref[j] # r) => outcome'[r] = outcome[r]
      /\ \A j \in Ids : ref[j] \in DOMAIN outcome =>
            outcome'[ref[j]] = Observed(outcome[ref[j]], job[j].at, job'[j].at, job[j].kind)
  <2>1. \A j \in Ids : (CHOOSE m \in Ids : ref[m] = ref[j]) = j
    BY <1>0
  <2> QED BY <2>1 DEF PoolRuns
<1>2. ASSUME NEW r \in DOMAIN outcome
      PROVE  /\ outcome'[r] \in Outcomes
             /\ outcome'[r].fp = outcome[r].fp
             /\ outcome'[r].by = outcome[r].by
             /\ outcome'[r].saved = outcome[r].saved
             /\ outcome[r].retried => outcome'[r].retried
             /\ outcome'[r].end = "open" => outcome[r].end = "open"
             /\ outcome'[r].sent = IF r = ref[i] /\ p = "sent" THEN outcome[r].sent + 1
                                   ELSE outcome[r].sent
  <2>1. CASE \A j \in Ids : ref[j] # r
    BY <1>0, <1>1, <2>1
  <2>2. ASSUME NEW j \in Ids, ref[j] = r
        PROVE  /\ outcome'[r] \in Outcomes
               /\ outcome'[r].fp = outcome[r].fp
               /\ outcome'[r].by = outcome[r].by
               /\ outcome'[r].saved = outcome[r].saved
               /\ outcome[r].retried => outcome'[r].retried
               /\ outcome'[r].end = "open" => outcome[r].end = "open"
               /\ outcome'[r].sent = IF r = ref[i] /\ p = "sent" THEN outcome[r].sent + 1
                                     ELSE outcome[r].sent
    <3>1. outcome'[r] = Observed(outcome[r], job[j].at, job'[j].at, job[j].kind)
      BY <1>1, <2>2
    <3>2. outcome[r] \in Outcomes
      BY <1>0
    <3>3. /\ outcome'[r] \in Outcomes
          /\ outcome'[r].fp = outcome[r].fp
          /\ outcome'[r].by = outcome[r].by
          /\ outcome'[r].saved = outcome[r].saved
          /\ outcome'[r].retried = (outcome[r].retried \/ job'[j].at = "timer")
          /\ outcome'[r].end = "open" => outcome[r].end = "open"
          /\ outcome'[r].sent = IF job'[j].at = "sent" /\ job[j].at # "sent"
                                THEN outcome[r].sent + 1 ELSE outcome[r].sent
      BY <3>1, <3>2, ObservedFacts
    <3>4. CASE j = i
      BY <2>2, <3>3, <3>4 DEF MovedForward, Moved
    <3>5. CASE j # i
      BY <1>0, <2>2, <3>3, <3>5 DEF MovedForward, Moved
    <3> QED BY <3>4, <3>5
  <2> QED BY <2>1, <2>2
<1>3. outcome' \in Seq(Outcomes)
  <2>1. outcome' = [r \in 1..Len(outcome) |-> outcome'[r]]
    BY <1>0 DEF PoolRuns
  <2>2. \A r \in 1..Len(outcome) : outcome'[r] \in Outcomes
    BY <1>0, <1>2
  <2>3. outcome' \in [1..Len(outcome) -> Outcomes]
    BY <2>1, <2>2
  <2> QED BY <1>0, <2>3
<1>4. /\ p \in {"undone", "over"} => outcome'[ref[i]].end # "open"
      /\ p = "timer" => outcome'[ref[i]].retried
  <2> DEFINE r == ref[i]
  <2>1. outcome[r] \in Outcomes /\ r \in DOMAIN outcome
    BY <1>0
  <2>2. outcome'[r] = Observed(outcome[r], job[i].at, job'[i].at, job[i].kind) /\ job'[i].at = p
    BY <1>1, <2>1 DEF MovedForward, Moved
  <2>3. /\ outcome'[r].end = "open"
           => outcome[r].end = "open" /\ p # "undone" /\ ~(p = "over" /\ job[i].at = "sent")
        /\ outcome'[r].retried = (outcome[r].retried \/ p = "timer")
    <3> HIDE DEF r
    <3> QED BY <2>1, <2>2, ObservedFacts
  <2>4. p = "over" => job[i].at \in {"sent", "undone"}
    BY DEF MovedForward
  <2>5. job[i].at = "undone" => outcome[r].end # "open"
    BY DEF OutboxInv, UndoneIsFinal
  <2> QED BY <2>3, <2>4, <2>5
<1> QED BY <1>1, <1>2, <1>3, <1>4

LEMMA PoolRunsKeeps ==
    ASSUME OutboxInv, PoolRuns
    PROVE  OutboxInv'
<1>0. PoolInv' /\ UNCHANGED <<disk, replay, restarts, ref, passed>>
  <2>1. PoolInv /\ PoolNext
    BY DEF OutboxInv, PoolRuns, PoolNext
  <2> QED BY <2>1, StepPoolInv DEF PoolRuns
<1>1. PICK i \in Ids, p \in Places : MovedForward(i, p)
  BY PoolStepMoves DEF OutboxInv, PoolRuns
<1>2. /\ DOMAIN outcome' = DOMAIN outcome
      /\ outcome' \in Seq(Outcomes)
      /\ \A r \in DOMAIN outcome :
            /\ outcome'[r].saved = outcome[r].saved
            /\ outcome'[r].end = "open" => outcome[r].end = "open"
            /\ outcome'[r].sent = IF r = ref[i] /\ p = "sent" THEN outcome[r].sent + 1
                                  ELSE outcome[r].sent
      /\ p \in {"undone", "over"} => outcome'[ref[i]].end # "open"
  BY <1>1, PoolRunsFacts
<1>3. Ids' = Ids /\ job'[i].at = p /\ \A j \in Ids : j # i => job'[j] = job[j]
  BY <1>1 DEF MovedForward, Moved
<1>4. OutboxType'
  <2>1. Len(job') = Len(job)
    <3>1. DOMAIN job' = DOMAIN job /\ job \in Seq(JobType) /\ job' \in Seq(JobType)
      BY <1>0, <1>3 DEF Ids, OutboxInv, PoolInv, PoolTypeOK
    <3>2. 1..Len(job) = 1..Len(job') /\ Len(job) \in Nat /\ Len(job') \in Nat
      BY <3>1, LenProperties
    <3> QED BY <3>2
  <2> QED BY <1>0, <1>2, <2>1 DEF OutboxInv, OutboxType
<1>5. RefsKnown' /\ RefsInOrder'
  BY <1>0, <1>2, <1>3 DEF OutboxInv, RefsKnown, RefsInOrder
<1>6. ReplayedBeforeShutdown'
  BY <1>0, <1>1 DEF OutboxInv, ReplayedBeforeShutdown, MovedForward
<1>7. OpenIsOnDisk'
  BY <1>0, <1>2 DEF OutboxInv, OpenIsOnDisk, OnDisk
<1>8. UndoneIsFinal'
  <2> SUFFICES ASSUME NEW j \in Ids, job'[j].at = "undone" PROVE outcome'[ref[j]].end # "open"
    BY <1>0, <1>3 DEF UndoneIsFinal
  <2>1. ref[j] \in DOMAIN outcome
    BY DEF OutboxInv, RefsKnown
  <2> QED BY <1>2, <1>3, <2>1 DEF OutboxInv, UndoneIsFinal
<1>9. SentIsCounted'
  <2> SUFFICES ASSUME NEW r \in DOMAIN outcome
               PROVE  outcome'[r].sent <= IF SentHere(r)' THEN restarts + 1 ELSE restarts
    BY <1>0, <1>2 DEF SentIsCounted
  <2>0. outcome[r].sent \in Nat /\ restarts \in Nat
    BY RefFacts DEF OutboxInv, OutboxType, Outcomes
  <2>1. outcome[r].sent <= IF SentHere(r) THEN restarts + 1 ELSE restarts
    BY DEF OutboxInv, SentIsCounted
  <2>2. SentHere(r) => SentHere(r)'
    <3>1. job[i].at \in {"sent", "over"} => p \in {"sent", "over"}
      BY <1>1 DEF MovedForward
    <3> QED BY <1>0, <1>3, <3>1 DEF SentHere
  <2>3. CASE r = ref[i] /\ p = "sent"
    <3>1. ~SentHere(r)
      <4>1. job[i].at = "sending"
        BY <1>1, <2>3 DEF MovedForward
      <4> QED BY <2>3, <4>1, RefFacts DEF SentHere
    <3>2. SentHere(r)'
      BY <1>0, <1>3, <2>3 DEF SentHere
    <3>3. outcome'[r].sent = outcome[r].sent + 1
      BY <1>2, <2>3
    <3> QED BY <2>0, <2>1, <3>1, <3>2, <3>3
  <2>4. CASE ~(r = ref[i] /\ p = "sent")
    <3>1. outcome'[r].sent = outcome[r].sent
      BY <1>2, <2>4
    <3> QED BY <2>0, <2>1, <2>2, <3>1
  <2> QED BY <2>3, <2>4
<1>10. SavedIsNeverLost'
  <2> SUFFICES ASSUME NEW r \in DOMAIN outcome, outcome'[r].saved, outcome'[r].end = "open"
               PROVE  \/ r \in Saved' \cup {replay[k].ref : k \in DOMAIN replay}
                      \/ r \in passed /\ OnDisk(r)
    BY <1>0, <1>2 DEF SavedIsNeverLost, OnDisk
  <2>1. \/ r \in Saved \cup {replay[k].ref : k \in DOMAIN replay}
        \/ r \in passed /\ OnDisk(r)
    BY <1>2 DEF OutboxInv, SavedIsNeverLost
  <2>2. pending' = IF p = "over" THEN pending \ {i} ELSE pending
    BY <1>1 DEF MovedForward
  <2>3. ASSUME NEW j \in pending, ref[j] = r PROVE j \in pending'
    BY <1>2, <2>2, <2>3
  <2> QED BY <1>0, <2>1, <2>3 DEF Saved
<1> QED BY <1>0, <1>4, <1>5, <1>6, <1>7, <1>8, <1>9, <1>10 DEF OutboxInv

\* Steps that only end the pool.
LEMMA ShutdownRunsKeeps ==
    ASSUME OutboxInv, ShutdownRuns
    PROVE  OutboxInv'
<1>1. PoolInv'
  <2>1. PoolInv /\ PoolNext
    BY DEF OutboxInv, ShutdownRuns, PoolNext
  <2> QED BY <2>1, StepPoolInv
<1>2. UNCHANGED <<job, pending, disk, replay, restarts, ref, outcome, passed>> /\ replay = <<>>
  BY DEF ShutdownRuns, ShutdownStep, unblockProducers, ShutdownLock, ShutdownClose,
         ShutdownReturns, outboxVars, Booted
<1>3. Saved' = Saved /\ Ids' = Ids /\ \A r : SentHere(r)' = SentHere(r) /\ OnDisk(r)' = OnDisk(r)
  BY <1>2 DEF Saved, Ids, SentHere, OnDisk
<1> QED BY <1>1, <1>2, <1>3 DEF OutboxInv, OutboxType, RefsKnown, RefsInOrder,
           ReplayedBeforeShutdown, OpenIsOnDisk, UndoneIsFinal, SentIsCounted, SavedIsNeverLost

-----------------------------------------------------------------------------
(***************************************************************************)
(* State saves and restarts.                                               *)
(***************************************************************************)
\* PendingSnapshot has a record of every pending delivery, and the order of
\* their ids is the order of acceptance.
LEMMA SnapshotFacts ==
    ASSUME OutboxInv
    PROVE  /\ PendingSnapshot \in SUBSET Records /\ IsFiniteSet(PendingSnapshot)
           /\ \A x \in PendingSnapshot : x.ref \in DOMAIN outcome
           /\ \A x, y \in PendingSnapshot :
                 (x.id < y.id => x.ref < y.ref) /\ (x.id = y.id => x = y)
           /\ \A i \in pending : \E x \in PendingSnapshot : x.ref = ref[i]
           /\ \A x \in PendingSnapshot : \E i \in pending : x.ref = ref[i] /\ x.fp = job[i].fp
<1>1. pending \subseteq Ids /\ Ids = 1..Len(job) /\ Len(job) \in Nat
  BY RefFacts DEF OutboxInv, PoolInv, PoolTypeOK
<1>2. ASSUME NEW i \in pending
      PROVE  /\ Record(i) \in Records
             /\ Record(i).id = i /\ Record(i).ref = ref[i] /\ Record(i).fp = job[i].fp
  <2>1. job[i] \in JobType /\ ref[i] \in Nat /\ i \in Nat
    BY <1>1, RefFacts, ElementOfSeq, LenProperties DEF OutboxInv, PoolInv, PoolTypeOK, Ids
  <2> QED BY <2>1 DEF Record, Records, JobType
<1>3. \A x \in PendingSnapshot : \E i \in pending : x = Record(i)
  BY DEF PendingSnapshot
<1>4. IsFiniteSet(PendingSnapshot)
  <2>1. IsFiniteSet(1..Len(job))
    BY <1>1, FS_Interval
  <2>2. IsFiniteSet(pending)
    BY <1>1, <2>1, FS_Subset
  <2> DEFINE f == [i \in pending |-> Record(i)]
  <2>3. f \in Surjection(pending, PendingSnapshot)
    BY DEF Surjection, PendingSnapshot
  <2> HIDE DEF f
  <2> QED BY <2>2, <2>3, FS_Surjection
<1>5. \A x, y \in PendingSnapshot : (x.id < y.id => x.ref < y.ref) /\ (x.id = y.id => x = y)
  <2> SUFFICES ASSUME NEW x \in PendingSnapshot, NEW y \in PendingSnapshot
               PROVE  (x.id < y.id => x.ref < y.ref) /\ (x.id = y.id => x = y)
    OBVIOUS
  <2>1. PICK i \in pending, j \in pending : x = Record(i) /\ y = Record(j)
    BY <1>3
  <2>2. i < j => ref[i] < ref[j]
    BY <1>1 DEF OutboxInv, RefsInOrder
  <2> QED BY <1>2, <2>1, <2>2
<1>6. \A x \in PendingSnapshot : x.ref \in DOMAIN outcome
  BY <1>1, <1>2, <1>3 DEF OutboxInv, RefsKnown
<1>7. \A i \in pending : Record(i) \in PendingSnapshot
  BY DEF PendingSnapshot
<1> QED BY <1>2, <1>3, <1>4, <1>5, <1>6, <1>7

\* What a save marks.
LEMMA MarkFacts ==
    ASSUME OutboxInv, Persist
    PROVE  /\ outcome' \in Seq(Outcomes)
           /\ DOMAIN outcome' = DOMAIN outcome
           /\ \A r \in DOMAIN outcome :
                 /\ outcome'[r].fp = outcome[r].fp /\ outcome'[r].by = outcome[r].by
                 /\ outcome'[r].sent = outcome[r].sent
                 /\ outcome'[r].end = "open" <=> outcome[r].end = "open" /\ r \notin Overwritten
                 /\ outcome'[r].retried = outcome[r].retried
                 /\ outcome'[r].saved <=> outcome[r].saved \/ r \in Saved
<1>0. /\ DOMAIN outcome = 1..Len(outcome) /\ Len(outcome) \in Nat
      /\ \A r \in DOMAIN outcome : outcome[r] \in Outcomes
  BY RefFacts
<1>1. outcome' = [r \in DOMAIN outcome |->
                     [outcome[r] EXCEPT !.saved = @ \/ r \in Saved,
                                        !.end = IF r \in Overwritten THEN "overwritten" ELSE @]]
  BY DEF Persist
<1>2. ASSUME NEW r \in DOMAIN outcome
      PROVE  /\ outcome'[r] \in Outcomes
             /\ outcome'[r].fp = outcome[r].fp /\ outcome'[r].by = outcome[r].by
             /\ outcome'[r].sent = outcome[r].sent
             /\ outcome'[r].end = "open" <=> outcome[r].end = "open" /\ r \notin Overwritten
             /\ outcome'[r].retried = outcome[r].retried
             /\ outcome'[r].saved <=> outcome[r].saved \/ r \in Saved
  <2>1. PICK o \in Outcomes : o = outcome[r]
    BY <1>0
  <2>2. PICK b \in BOOLEAN : b = (o.saved \/ r \in Saved)
    BY Zenon
  <2>3. PICK e : e = IF r \in Overwritten THEN "overwritten" ELSE o.end
    OBVIOUS
  <2>4. outcome'[r] = [o EXCEPT !.saved = b, !.end = e]
    BY <1>1, <2>1, <2>2, <2>3
  <2>5. e \in {"open", "delivered", "rolledBack", "deadLettered", "foreign", "overwritten"}
    BY <2>3 DEF Outcomes
  <2>6. LET w == [o EXCEPT !.saved = b, !.end = e]
        IN  w \in Outcomes /\ w.fp = o.fp /\ w.by = o.by /\ w.sent = o.sent /\ w.end = e
            /\ w.retried = o.retried /\ w.saved = b
    BY <2>5 DEF Outcomes
  <2>7. e = "open" <=> o.end = "open" /\ r \notin Overwritten
    BY <2>3
  <2> QED BY <2>1, <2>2, <2>4, <2>6, <2>7
<1>3. outcome' \in [1..Len(outcome) -> Outcomes]
  BY <1>0, <1>1, <1>2
<1>4. outcome' \in Seq(Outcomes) /\ DOMAIN outcome' = DOMAIN outcome
  BY <1>0, <1>3
<1> QED BY <1>2, <1>4

LEMMA PersistKeeps ==
    ASSUME OutboxInv, Save \/ FinalSave
    PROVE  OutboxInv'
<1>0. /\ Persist /\ UNCHANGED <<job, pending, queue, draining, stop, replay, restarts, ref, passed>>
      /\ phase' = phase \/ (phase = "off" /\ phase' = "saved")
      /\ replay = <<>>
      /\ disk' = PendingSnapshot
  BY DEF Save, FinalSave, Persist, Booted, OutboxInv, ReplayedBeforeShutdown
<1>1. PoolInv'
  <2>1. Ids' = Ids /\ closed' = closed /\ InSubmit' = InSubmit
    BY <1>0 DEF Ids, closed, InSubmit, At
  <2>2. PoolTypeOK'
    BY <1>0, <2>1 DEF OutboxInv, PoolInv, PoolTypeOK
  <2>3. OutboxIsExact' /\ QueuesConsistent' /\ QueuedIsOnQueue'
    BY <1>0, <2>1 DEF OutboxInv, PoolInv, OutboxIsExact, QueuesConsistent, QueuedIsOnQueue, Q
  <2>4. OneHolder' /\ DrainingHasNoHolder'
    BY <1>0, <2>1 DEF OutboxInv, PoolInv, OneHolder, DrainingHasNoHolder, At, Q
  <2>5. DropIsMarked' /\ NoSendAfterClose'
    BY <1>0, <2>1 DEF OutboxInv, PoolInv, DropIsMarked, NoSendAfterClose, At, Q
  <2> QED BY <2>2, <2>3, <2>4, <2>5 DEF PoolInv
<1>2. /\ outcome' \in Seq(Outcomes) /\ DOMAIN outcome' = DOMAIN outcome
      /\ \A r \in DOMAIN outcome :
            /\ outcome'[r].sent = outcome[r].sent
            /\ outcome'[r].end = "open" <=> outcome[r].end = "open" /\ r \notin Overwritten
            /\ outcome'[r].saved => outcome[r].saved \/ r \in Saved
  BY <1>0, MarkFacts
<1>3. /\ disk' \in SUBSET Records /\ IsFiniteSet(disk')
      /\ \A x \in disk' : x.ref \in DOMAIN outcome
      /\ \A x, y \in disk' : (x.id < y.id => x.ref < y.ref) /\ (x.id = y.id => x = y)
      /\ \A i \in pending : \E x \in disk' : x.ref = ref[i]
  BY <1>0, SnapshotFacts
<1>4. Ids' = Ids /\ Saved' = Saved /\ \A r : SentHere(r)' = SentHere(r)
  BY <1>0 DEF Ids, Saved, SentHere
<1>5. OutboxType'
  BY <1>0, <1>2, <1>3 DEF OutboxInv, OutboxType
<1>6. RefsKnown' /\ RefsInOrder'
  BY <1>0, <1>2, <1>3, <1>4 DEF OutboxInv, RefsKnown, RefsInOrder
<1>7. ReplayedBeforeShutdown'
  BY <1>0 DEF ReplayedBeforeShutdown
<1>8. \A r \in DOMAIN outcome : outcome'[r].saved /\ outcome'[r].end = "open" => r \in Saved
  <2>1. DOMAIN replay = {}
    BY <1>0
  <2> QED BY <1>2, <2>1 DEF OutboxInv, SavedIsNeverLost, Overwritten
<1>9. OpenIsOnDisk'
  <2> SUFFICES ASSUME NEW r \in DOMAIN outcome, outcome'[r].saved, outcome'[r].end = "open"
               PROVE  OnDisk(r)'
    BY <1>2 DEF OpenIsOnDisk
  <2>1. PICK i \in pending : ref[i] = r
    BY <1>8 DEF Saved
  <2> QED BY <1>3, <2>1 DEF OnDisk
<1>10. SavedIsNeverLost'
  BY <1>2, <1>4, <1>8 DEF SavedIsNeverLost
<1>11. UndoneIsFinal' /\ SentIsCounted'
  BY <1>0, <1>2, <1>4 DEF OutboxInv, UndoneIsFinal, SentIsCounted, RefsKnown
<1> QED BY <1>1, <1>5, <1>6, <1>7, <1>9, <1>10, <1>11 DEF OutboxInv

\* Kept has the records of the disk that are this shard's, in order.
LEMMA KeptFacts ==
    ASSUME OutboxInv, NEW own
    PROVE  /\ Kept(own) \in Seq(Records)
           /\ \A k \in DOMAIN Kept(own) : Kept(own)[k] \in disk
           /\ \A k, l \in DOMAIN Kept(own) : k < l => Kept(own)[k].ref < Kept(own)[l].ref
           /\ \A x \in Owned(own) : \E l \in DOMAIN Kept(own) : Kept(own)[l] = x
<1> DEFINE ids == {x.id : x \in Owned(own)}
           n == Cardinality(ids)
           rec(i) == CHOOSE x \in disk : x.id = i
<1>1. /\ disk \in SUBSET Records /\ IsFiniteSet(disk) /\ Owned(own) \subseteq disk
      /\ \A x, y \in disk : (x.id < y.id => x.ref < y.ref) /\ (x.id = y.id => x = y)
  BY DEF OutboxInv, OutboxType, RefsInOrder, Owned
<1>2. ids \in SUBSET Nat /\ IsFiniteSet(ids)
  <2>1. IsFiniteSet(Owned(own))
    BY <1>1, FS_Subset
  <2>2. IsFiniteSet(ids)
    <3> DEFINE f == [x \in Owned(own) |-> x.id]
    <3>1. f \in Surjection(Owned(own), ids)
      BY DEF Surjection
    <3> HIDE DEF f, ids
    <3> QED BY <2>1, <3>1, FS_Surjection
  <2>3. \A x \in disk : x.id \in Nat
    BY <1>1 DEF Records
  <2> QED BY <1>1, <2>2, <2>3
<1>3. \A i \in ids : rec(i) \in disk /\ rec(i).id = i
  <2> SUFFICES ASSUME NEW i \in ids PROVE rec(i) \in disk /\ rec(i).id = i
    OBVIOUS
  <2>1. \E x \in disk : x.id = i
    BY <1>1
  <2> QED BY <2>1
<1>4. \A x \in Owned(own) : x.id \in ids /\ rec(x.id) = x
  BY <1>1, <1>3
<1>5. Kept(own) = [k \in 1..n |-> rec(Nth(ids, k))]
  BY DEF Kept, Sorted
<1> HIDE DEF ids, rec
<1>6. /\ n \in Nat
      /\ \A k \in 1..n : Nth(ids, k) \in ids
      /\ \A k, l \in 1..n : k < l => Nth(ids, k) < Nth(ids, l)
      /\ \A i \in ids : \E k \in 1..n : Nth(ids, k) = i
  BY <1>2, NthLists
<1> HIDE DEF n
<1>7. /\ Kept(own) \in Seq(Records)
      /\ DOMAIN Kept(own) = 1..n
      /\ \A k \in 1..n : Kept(own)[k] = rec(Nth(ids, k))
  <2>1. \A k \in 1..n : rec(Nth(ids, k)) \in Records
    BY <1>1, <1>3, <1>6
  <2>2. Kept(own) \in [1..n -> Records]
    BY <1>5, <2>1
  <2> QED BY <1>5, <1>6, <2>2
<1>8. \A k \in DOMAIN Kept(own) : Kept(own)[k] \in disk /\ Kept(own)[k].id = Nth(ids, k)
  BY <1>3, <1>6, <1>7
<1>9. \A k, l \in DOMAIN Kept(own) : k < l => Kept(own)[k].ref < Kept(own)[l].ref
  <2> SUFFICES ASSUME NEW k \in DOMAIN Kept(own), NEW l \in DOMAIN Kept(own), k < l
               PROVE  Kept(own)[k].ref < Kept(own)[l].ref
    OBVIOUS
  <2>1. Kept(own)[k].id < Kept(own)[l].id
    BY <1>6, <1>7, <1>8
  <2> QED BY <1>1, <1>8, <2>1
<1>10. \A x \in Owned(own) : \E l \in DOMAIN Kept(own) : Kept(own)[l] = x
  <2> SUFFICES ASSUME NEW x \in Owned(own) PROVE \E l \in DOMAIN Kept(own) : Kept(own)[l] = x
    OBVIOUS
  <2>1. PICK l \in 1..n : Nth(ids, l) = x.id
    BY <1>4, <1>6
  <2>2. rec(Nth(ids, l)) = x
    BY <1>4, <2>1
  <2> QED BY <1>7, <2>1, <2>2
<1> QED BY <1>7, <1>8, <1>9, <1>10

\* What a restart does to the histories.
LEMMA ForeignFacts ==
    ASSUME OutboxInv, NEW own, Restart(own)
    PROVE  /\ outcome' \in Seq(Outcomes)
           /\ DOMAIN outcome' = DOMAIN outcome
           /\ \A r \in DOMAIN outcome :
                 /\ outcome'[r].fp = outcome[r].fp /\ outcome'[r].by = outcome[r].by
                 /\ outcome'[r].sent = outcome[r].sent
                 /\ outcome'[r].saved = outcome[r].saved
                 /\ outcome'[r].retried = outcome[r].retried
                 /\ outcome'[r].end = "open" => outcome[r].end = "open" /\ r \notin Foreign(own)
<1>0. /\ DOMAIN outcome = 1..Len(outcome) /\ Len(outcome) \in Nat
      /\ \A r \in DOMAIN outcome : outcome[r] \in Outcomes
  BY RefFacts
<1>1. outcome' = [r \in DOMAIN outcome |->
                     IF r \in Foreign(own) /\ outcome[r].end = "open"
                     THEN [outcome[r] EXCEPT !.end = "foreign"] ELSE outcome[r]]
  BY DEF Restart
<1>2. ASSUME NEW r \in DOMAIN outcome
      PROVE  /\ outcome'[r] \in Outcomes
             /\ outcome'[r].fp = outcome[r].fp /\ outcome'[r].by = outcome[r].by
             /\ outcome'[r].sent = outcome[r].sent
             /\ outcome'[r].saved = outcome[r].saved
             /\ outcome'[r].retried = outcome[r].retried
             /\ outcome'[r].end = "open" => outcome[r].end = "open" /\ r \notin Foreign(own)
  <2>1. PICK o \in Outcomes : o = outcome[r]
    BY <1>0
  <2>2. LET w == [o EXCEPT !.end = "foreign"]
        IN  w \in Outcomes /\ w.fp = o.fp /\ w.by = o.by /\ w.sent = o.sent /\ w.saved = o.saved
            /\ w.retried = o.retried /\ w.end = "foreign"
    BY DEF Outcomes
  <2>3. CASE r \in Foreign(own) /\ outcome[r].end = "open"
    <3>1. outcome'[r] = [o EXCEPT !.end = "foreign"]
      BY <1>1, <2>1, <2>3
    <3> QED BY <2>1, <2>2, <3>1
  <2>4. CASE ~(r \in Foreign(own) /\ outcome[r].end = "open")
    BY <1>1, <2>1, <2>4
  <2> QED BY <2>3, <2>4
<1>3. outcome' \in [1..Len(outcome) -> Outcomes]
  BY <1>0, <1>1, <1>2
<1> QED BY <1>0, <1>1, <1>2, <1>3

LEMMA RestartKeeps ==
    ASSUME OutboxInv, NEW own, Restart(own)
    PROVE  OutboxInv'
<1>0. /\ job' = <<>> /\ ref' = <<>> /\ pending' = {} /\ phase' = "run"
      /\ restarts' = restarts + 1 /\ disk' = disk /\ replay' = Kept(own)
      /\ PoolInit'
  BY DEF Restart, NewProcess, PoolInit
<1>1. PoolInv'
  <2>1. PoolInit' => PoolInv'
    BY InitPoolInv, PTL
  <2> QED BY <1>0, <2>1
<1>2. Ids' = {} /\ Saved' = {} /\ \A r : ~SentHere(r)'
  BY <1>0 DEF Ids, Saved, SentHere
<1>3. /\ Kept(own) \in Seq(Records)
      /\ \A k \in DOMAIN Kept(own) : Kept(own)[k].ref \in DOMAIN outcome
      /\ \A k, l \in DOMAIN Kept(own) : k < l => Kept(own)[k].ref < Kept(own)[l].ref
      /\ \A x \in Owned(own) : \E l \in DOMAIN Kept(own) : Kept(own)[l] = x
  BY KeptFacts DEF OutboxInv, RefsKnown
<1>4. /\ outcome' \in Seq(Outcomes)
      /\ DOMAIN outcome' = DOMAIN outcome
      /\ \A r \in DOMAIN outcome :
            /\ outcome'[r].sent = outcome[r].sent
            /\ outcome'[r].saved = outcome[r].saved
            /\ outcome'[r].end = "open" => outcome[r].end = "open" /\ r \notin Foreign(own)
  BY ForeignFacts
<1>5. OutboxType'
  <2>1. ref' \in Seq(Nat) /\ Len(ref') = Len(job')
    BY <1>0, EmptySeq
  <2> QED BY <1>0, <1>3, <1>4, <2>1 DEF OutboxInv, OutboxType
<1>6. RefsKnown' /\ RefsInOrder'
  BY <1>0, <1>2, <1>3, <1>4 DEF OutboxInv, RefsKnown, RefsInOrder
<1>7. ReplayedBeforeShutdown' /\ UndoneIsFinal'
  BY <1>0, <1>2 DEF ReplayedBeforeShutdown, UndoneIsFinal
<1>8. OpenIsOnDisk'
  BY <1>0, <1>4 DEF OutboxInv, OpenIsOnDisk, OnDisk
<1>9. SentIsCounted'
  <2> SUFFICES ASSUME NEW r \in DOMAIN outcome PROVE outcome'[r].sent <= restarts'
    BY <1>2, <1>4 DEF SentIsCounted
  <2>1. outcome[r].sent \in Nat /\ restarts \in Nat
    BY RefFacts DEF OutboxInv, OutboxType, Outcomes
  <2>2. outcome[r].sent <= IF SentHere(r) THEN restarts + 1 ELSE restarts
    BY DEF OutboxInv, SentIsCounted
  <2> QED BY <1>0, <1>4, <2>1, <2>2
<1>10. SavedIsNeverLost'
  <2> SUFFICES ASSUME NEW r \in DOMAIN outcome, outcome'[r].saved, outcome'[r].end = "open"
               PROVE  \E l \in DOMAIN Kept(own) : Kept(own)[l].ref = r
    BY <1>0, <1>4 DEF SavedIsNeverLost
  <2>1. PICK x \in disk : x.ref = r
    BY <1>4 DEF OutboxInv, OpenIsOnDisk, OnDisk
  <2>2. x \in Owned(own)
    BY <1>4, <2>1 DEF Foreign
  <2> QED BY <1>3, <2>1, <2>2
<1> QED BY <1>1, <1>5, <1>6, <1>7, <1>8, <1>9, <1>10 DEF OutboxInv

LEMMA ColdStartKeeps ==
    ASSUME OutboxInv, ColdStart
    PROVE  OutboxInv'
<1>0. /\ job' = <<>> /\ ref' = <<>> /\ pending' = {} /\ phase' = "run"
      /\ restarts' = restarts + 1 /\ disk' = disk /\ replay' = <<>> /\ outcome' = outcome
      /\ passed' = passed \cup {x.ref : x \in disk}
      /\ PoolInit'
  BY DEF ColdStart, NewProcess, PoolInit
<1>1. PoolInv'
  <2>1. PoolInit' => PoolInv'
    BY InitPoolInv, PTL
  <2> QED BY <1>0, <2>1
<1>2. Ids' = {} /\ DOMAIN replay' = {} /\ \A r : ~SentHere(r)'
  BY <1>0 DEF Ids, SentHere
<1>3. OutboxType'
  <2>1. ref' \in Seq(Nat) /\ Len(ref') = Len(job') /\ replay' \in Seq(Records)
    BY <1>0, EmptySeq
  <2> QED BY <1>0, <2>1 DEF OutboxInv, OutboxType
<1>4. RefsKnown' /\ RefsInOrder' /\ ReplayedBeforeShutdown' /\ UndoneIsFinal'
  BY <1>0, <1>2 DEF OutboxInv, RefsKnown, RefsInOrder, ReplayedBeforeShutdown, UndoneIsFinal
<1>5. OpenIsOnDisk'
  BY <1>0 DEF OutboxInv, OpenIsOnDisk, OnDisk
<1>6. SentIsCounted'
  <2> SUFFICES ASSUME NEW r \in DOMAIN outcome PROVE outcome[r].sent <= restarts'
    BY <1>0, <1>2 DEF SentIsCounted
  <2>1. outcome[r].sent \in Nat /\ restarts \in Nat
    BY RefFacts DEF OutboxInv, OutboxType, Outcomes
  <2>2. outcome[r].sent <= IF SentHere(r) THEN restarts + 1 ELSE restarts
    BY DEF OutboxInv, SentIsCounted
  <2> QED BY <1>0, <2>1, <2>2
<1>7. SavedIsNeverLost'
  BY <1>0 DEF OutboxInv, OpenIsOnDisk, OnDisk, SavedIsNeverLost
<1> QED BY <1>1, <1>3, <1>4, <1>5, <1>6, <1>7 DEF OutboxInv

-----------------------------------------------------------------------------
(***************************************************************************)
(* New deliveries and replayed ones.                                       *)
(***************************************************************************)
LEMMA EnqueueFacts ==
    ASSUME PoolInv, NEW p \in Producers, NEW fp \in FP, NEW k \in Kinds, enqueue(p, fp, k)
    PROVE  /\ PoolInv'
           /\ Len(job') = Len(job) + 1
           /\ Ids' = Ids \cup {Len(job) + 1} /\ Len(job) + 1 \notin Ids
           /\ \A j \in Ids : job'[j] = job[j] /\ j < Len(job) + 1
           /\ job'[Len(job) + 1].at = "entering" /\ job'[Len(job) + 1].fp = fp
           /\ job'[Len(job) + 1].by = p /\ job'[Len(job) + 1].retries = 0
           /\ pending' = pending \cup {Len(job) + 1}
           /\ UNCHANGED <<queue, phase>>
<1> DEFINE new == [by |-> p, fp |-> fp, kind |-> k, retries |-> 0, at |-> "entering"]
<1>1. job \in Seq(JobType) /\ job' = Append(job, new) /\ new \in JobType
      /\ new.at = "entering" /\ new.fp = fp /\ new.by = p /\ new.retries = 0
  BY DispatcherConstants DEF PoolInv, PoolTypeOK, enqueue, JobType, Places
<1> HIDE DEF new
<1>2. /\ job' \in Seq(JobType) /\ Len(job) \in Nat
      /\ Len(job') = Len(job) + 1
      /\ \A j \in 1..Len(job) : job'[j] = job[j]
      /\ job'[Len(job) + 1] = new
  BY <1>1, AppendProperties, LenProperties
<1>3. Ids = 1..Len(job) /\ Ids' = 1..(Len(job) + 1)
  BY <1>1, <1>2, LenProperties DEF Ids
<1>4. /\ Ids' = Ids \cup {Len(job) + 1} /\ Len(job) + 1 \notin Ids
      /\ \A j \in Ids : job'[j] = job[j] /\ j < Len(job) + 1
  BY <1>2, <1>3
<1>5. PoolInv'
  BY EnqueueKeepsInv
<1> QED BY <1>1, <1>2, <1>4, <1>5 DEF enqueue

LEMMA ReplayKeeps ==
    ASSUME OutboxInv, ReplayPending
    PROVE  OutboxInv'
<1> DEFINE h == Head(replay)
           n == Len(job) + 1
           m == Len(replay)
<1>0. /\ replay \in Seq(Records) /\ replay # <<>> /\ ref \in Seq(Nat) /\ Len(ref) = Len(job)
      /\ enqueue(Boot, h.fp, ReplayedAs(h.kind))
      /\ ref' = Append(ref, h.ref) /\ replay' = Tail(replay)
      /\ UNCHANGED <<disk, restarts, outcome, passed>>
  BY DEF OutboxInv, OutboxType, ReplayPending
<1>1. /\ h \in Records /\ h = replay[1] /\ m \in Nat /\ m # 0 /\ DOMAIN replay = 1..m
      /\ replay' \in Seq(Records) /\ Len(replay') = m - 1
      /\ \A k \in 1..(m - 1) : replay'[k] = replay[k + 1]
  BY <1>0, HeadTailProperties, LenProperties, EmptySeq
<1>2. DOMAIN replay' = 1..(m - 1)
  BY <1>1, LenProperties
<1>3. h.fp \in FP /\ ReplayedAs(h.kind) \in Kinds /\ h.ref \in Nat /\ Boot \in Producers
  BY <1>1, OutboxConstants DEF Records, ReplayedAs
<1>4. /\ PoolInv' /\ Len(job') = n /\ Ids' = Ids \cup {n} /\ n \notin Ids
      /\ \A j \in Ids : job'[j] = job[j] /\ j < n
      /\ job'[n].at = "entering" /\ pending' = pending \cup {n} /\ phase' = phase
  <2> HIDE DEF h
  <2> QED BY <1>0, <1>3, EnqueueFacts DEF OutboxInv
<1>5. Len(job) \in Nat /\ Ids = 1..Len(job) /\ n \in Nat
  BY RefFacts
<1>6. /\ ref' \in Seq(Nat) /\ Len(ref') = n /\ ref'[n] = h.ref
      /\ \A j \in Ids : ref'[j] = ref[j]
  <2> HIDE DEF h
  <2> QED BY <1>0, <1>3, <1>5, AppendProperties
<1>7. h.ref \in DOMAIN outcome /\ \A j \in Ids : ref[j] < h.ref
  BY <1>1 DEF OutboxInv, RefsKnown, RefsInOrder
<1> HIDE DEF h, n, m
<1>8. OutboxType'
  BY <1>0, <1>1, <1>4, <1>6 DEF OutboxInv, OutboxType
<1>9. \A k \in DOMAIN replay' : k + 1 \in DOMAIN replay /\ replay'[k] = replay[k + 1] /\ 1 < k + 1
      /\ k \in Nat
  BY <1>1, <1>2
<1>10. RefsKnown'
  BY <1>0, <1>4, <1>6, <1>7, <1>9 DEF OutboxInv, RefsKnown
<1>11. RefsInOrder'
  <2>1. \A i, j \in Ids' : i < j => ref'[i] < ref'[j]
    <3> SUFFICES ASSUME NEW i \in Ids', NEW j \in Ids', i < j PROVE ref'[i] < ref'[j]
      OBVIOUS
    <3>1. i \in Ids
      BY <1>4, <1>5
    <3> QED BY <1>4, <1>6, <1>7, <3>1 DEF OutboxInv, RefsInOrder
  <2>2. \A k, l \in DOMAIN replay' : k < l => replay'[k].ref < replay'[l].ref
    <3> SUFFICES ASSUME NEW k \in DOMAIN replay', NEW l \in DOMAIN replay', k < l
                 PROVE  replay'[k].ref < replay'[l].ref
      OBVIOUS
    <3>1. k + 1 < l + 1
      BY <1>9
    <3> QED BY <1>9, <3>1 DEF OutboxInv, RefsInOrder
  <2>3. \A i \in Ids', k \in DOMAIN replay' : ref'[i] < replay'[k].ref
    <3> SUFFICES ASSUME NEW i \in Ids', NEW k \in DOMAIN replay' PROVE ref'[i] < replay'[k].ref
      OBVIOUS
    <3>1. k + 1 \in DOMAIN replay /\ 1 \in DOMAIN replay /\ 1 < k + 1 /\ replay'[k] = replay[k + 1]
      BY <1>1, <1>9
    <3>2. h.ref < replay[k + 1].ref
      BY <1>1, <3>1 DEF OutboxInv, RefsInOrder
    <3>3. i \in Ids => ref[i] < replay[k + 1].ref
      BY <3>1 DEF OutboxInv, RefsInOrder
    <3> QED BY <1>4, <1>6, <3>1, <3>2, <3>3
  <2> QED BY <1>0, <2>1, <2>2, <2>3 DEF OutboxInv, RefsInOrder
<1>12. ReplayedBeforeShutdown'
  BY <1>0, <1>4 DEF OutboxInv, ReplayedBeforeShutdown
<1>13. OpenIsOnDisk'
  BY <1>0 DEF OutboxInv, OpenIsOnDisk, OnDisk
<1>14. UndoneIsFinal'
  BY <1>0, <1>4, <1>6 DEF OutboxInv, UndoneIsFinal
<1>15. SentIsCounted'
  <2>1. ASSUME NEW r PROVE SentHere(r)' <=> SentHere(r)
    BY <1>4, <1>6 DEF SentHere
  <2> QED BY <1>0, <2>1 DEF OutboxInv, SentIsCounted
<1>16. SavedIsNeverLost'
  <2> SUFFICES ASSUME NEW r \in DOMAIN outcome, outcome[r].saved, outcome[r].end = "open"
               PROVE  \/ r \in Saved' \/ \E k \in DOMAIN replay' : replay'[k].ref = r
                      \/ r \in passed /\ OnDisk(r)
    BY <1>0 DEF SavedIsNeverLost, OnDisk
  <2>0. pending \subseteq Ids
    BY DEF OutboxInv, PoolInv, PoolTypeOK
  <2>1. Saved \subseteq Saved' /\ h.ref \in Saved'
    BY <1>4, <1>6, <2>0 DEF Saved
  <2>2. \/ r \in Saved \/ \E k \in DOMAIN replay : replay[k].ref = r
        \/ r \in passed /\ OnDisk(r)
    BY DEF OutboxInv, SavedIsNeverLost
  <2>3. ASSUME NEW k \in DOMAIN replay, replay[k].ref = r
        PROVE  r \in Saved' \/ \E l \in DOMAIN replay' : replay'[l].ref = r
    <3>1. CASE k = 1
      BY <1>1, <2>1, <2>3, <3>1
    <3>2. CASE k # 1
      <4>1. k - 1 \in DOMAIN replay' /\ replay'[k - 1] = replay[k]
        BY <1>1, <1>2, <2>3, <3>2
      <4> QED BY <2>3, <4>1
    <3> QED BY <3>1, <3>2
  <2> QED BY <2>1, <2>2, <2>3
<1> QED BY <1>4, <1>8, <1>10, <1>11, <1>12, <1>13, <1>14, <1>15, <1>16 DEF OutboxInv

LEMMA AcceptKeeps ==
    ASSUME OutboxInv, NEW p \in Producers, Accept(p)
    PROVE  OutboxInv'
<1> DEFINE n == Len(job) + 1
           r0 == Len(outcome) + 1
<1>0. /\ outcome \in Seq(Outcomes) /\ ref \in Seq(Nat) /\ Len(ref) = Len(job)
      /\ replay = <<>> /\ UNCHANGED <<disk, replay, restarts, passed>>
      /\ ref' = Append(ref, r0)
  BY DEF OutboxInv, OutboxType, Accept, Booted
<1>1. PICK fp \in FP, k \in Kinds : enqueue(p, fp, k)
  BY DEF Accept, Enqueue
<1>2. /\ PoolInv' /\ Len(job') = n /\ Ids' = Ids \cup {n} /\ n \notin Ids
      /\ \A j \in Ids : job'[j] = job[j] /\ j < n
      /\ job'[n].at = "entering" /\ job'[n].fp = fp /\ pending' = pending \cup {n}
      /\ phase' = phase
  BY <1>1, EnqueueFacts DEF OutboxInv
<1>3. /\ Len(job) \in Nat /\ Ids = 1..Len(job) /\ n \in Nat
      /\ DOMAIN outcome = 1..Len(outcome) /\ Len(outcome) \in Nat /\ r0 \in Nat
      /\ \A i \in Ids : ref[i] \in Nat
  BY RefFacts
<1>4. /\ ref' \in Seq(Nat) /\ Len(ref') = n /\ ref'[n] = r0
      /\ \A j \in Ids : ref'[j] = ref[j]
  <2> HIDE DEF r0
  <2> QED BY <1>0, <1>3, AppendProperties
<1>5. PICK o \in Outcomes : /\ outcome' = Append(outcome, o)
                            /\ o.sent = 0 /\ o.saved = FALSE
  <2> DEFINE o == [fp |-> fp, by |-> p, sent |-> 0, end |-> "open", saved |-> FALSE,
                   retried |-> FALSE]
  <2>1. o \in Outcomes
    BY DEF Outcomes
  <2>2. o.sent = 0 /\ o.saved = FALSE
    OBVIOUS
  <2>3. outcome' = Append(outcome, o)
    BY <1>2 DEF Accept
  <2> HIDE DEF o
  <2> QED BY <2>1, <2>2, <2>3
<1>6. /\ outcome' \in Seq(Outcomes) /\ Len(outcome') = r0 /\ outcome'[r0] = o
      /\ \A r \in DOMAIN outcome : outcome'[r] = outcome[r]
  BY <1>0, <1>3, <1>5, AppendProperties
<1>7. DOMAIN outcome' = DOMAIN outcome \cup {r0} /\ \A r \in DOMAIN outcome : r \in Nat /\ r < r0
  <2>1. DOMAIN outcome' = 1..r0
    BY <1>6, LenProperties
  <2> QED BY <1>3, <2>1
<1>8. \A j \in Ids : ref[j] \in DOMAIN outcome
  BY DEF OutboxInv, RefsKnown
<1> HIDE DEF n, r0
<1>9. OutboxType'
  BY <1>0, <1>2, <1>4, <1>6 DEF OutboxInv, OutboxType
<1>10. RefsKnown'
  BY <1>0, <1>2, <1>4, <1>7 DEF OutboxInv, RefsKnown
<1>11. RefsInOrder'
  <2>1. \A i, j \in Ids' : i < j => ref'[i] < ref'[j]
    <3> SUFFICES ASSUME NEW i \in Ids', NEW j \in Ids', i < j PROVE ref'[i] < ref'[j]
      OBVIOUS
    <3>1. i \in Ids
      BY <1>2, <1>3
    <3> QED BY <1>2, <1>4, <1>7, <1>8, <3>1 DEF OutboxInv, RefsInOrder
  <2>2. DOMAIN replay' = {}
    BY <1>0
  <2> QED BY <1>0, <2>1, <2>2 DEF OutboxInv, RefsInOrder
<1>12. ReplayedBeforeShutdown'
  BY <1>0 DEF ReplayedBeforeShutdown
<1>13. OpenIsOnDisk'
  BY <1>0, <1>5, <1>6, <1>7 DEF OutboxInv, OpenIsOnDisk, OnDisk
<1>14. UndoneIsFinal'
  BY <1>2, <1>4, <1>6, <1>8 DEF OutboxInv, UndoneIsFinal
<1>15. SentIsCounted'
  <2> SUFFICES ASSUME NEW r \in DOMAIN outcome'
               PROVE  outcome'[r].sent <= IF SentHere(r)' THEN restarts + 1 ELSE restarts
    BY <1>0 DEF SentIsCounted
  <2>1. restarts \in Nat
    BY DEF OutboxInv, OutboxType
  <2>2. CASE r = r0
    BY <1>5, <1>6, <2>1, <2>2
  <2>3. CASE r \in DOMAIN outcome
    <3>1. SentHere(r) => SentHere(r)'
      BY <1>2, <1>4 DEF SentHere
    <3>2. outcome[r].sent \in Nat
      BY <2>3, RefFacts DEF Outcomes
    <3> QED BY <1>6, <2>1, <2>3, <3>1, <3>2 DEF OutboxInv, SentIsCounted
  <2> QED BY <1>7, <2>2, <2>3
<1>16. SavedIsNeverLost'
  <2>1. pending \subseteq Ids
    BY DEF OutboxInv, PoolInv, PoolTypeOK
  <2>2. Saved \subseteq Saved'
    BY <1>2, <1>4, <2>1 DEF Saved
  <2> QED BY <1>0, <1>5, <1>6, <1>7, <2>2 DEF OutboxInv, SavedIsNeverLost, OnDisk
<1> QED BY <1>2, <1>9, <1>10, <1>11, <1>12, <1>13, <1>14, <1>15, <1>16 DEF OutboxInv

-----------------------------------------------------------------------------
LEMMA OutboxStart == Init => OutboxInv
<1> SUFFICES ASSUME Init PROVE OutboxInv
  OBVIOUS
<1>1. PoolInv /\ Ids = {} /\ pending = {}
  BY InitPoolInv DEF Init, PoolInit, Ids
<1>2. disk = {} /\ replay = <<>> /\ restarts = 0 /\ ref = <<>> /\ outcome = <<>> /\ job = <<>>
  BY DEF Init, PoolInit
<1>3. OutboxType
  BY <1>2, EmptySeq, FS_EmptySet DEF OutboxType
<1> QED BY <1>1, <1>2, <1>3 DEF OutboxInv, RefsKnown, RefsInOrder, ReplayedBeforeShutdown,
           OpenIsOnDisk, UndoneIsFinal, SentIsCounted, SavedIsNeverLost

LEMMA OutboxStep == OutboxInv /\ [Next]_vars => OutboxInv'
<1> SUFFICES ASSUME OutboxInv, [Next]_vars PROVE OutboxInv'
  OBVIOUS
<1>1. CASE UNCHANGED vars
  <2>1. PoolInv /\ UNCHANGED poolVars
    BY <1>1 DEF OutboxInv, vars
  <2>2. PoolInv'
    BY <2>1, StepPoolInv
  <2>3. UNCHANGED <<job, pending, phase, disk, replay, restarts, ref, outcome, passed>>
    BY <1>1 DEF vars, poolVars, outboxVars
  <2>4. Saved' = Saved /\ Ids' = Ids /\ \A r : SentHere(r)' = SentHere(r) /\ OnDisk(r)' = OnDisk(r)
    BY <2>3 DEF Saved, Ids, SentHere, OnDisk
  <2> QED BY <2>2, <2>3, <2>4 DEF OutboxInv, OutboxType, RefsKnown, RefsInOrder,
           ReplayedBeforeShutdown, OpenIsOnDisk, UndoneIsFinal, SentIsCounted, SavedIsNeverLost
<1>2. CASE \E p \in Producers \ {Boot} : Accept(p)
  BY <1>2, AcceptKeeps
<1> QED BY <1>1, <1>2, PoolRunsKeeps, ShutdownRunsKeeps, PersistKeeps, RestartKeeps, ColdStartKeeps,
           ReplayKeeps
        DEF Next

LEMMA OutboxAlways == Spec => []OutboxInv
BY OutboxStart, OutboxStep, PTL DEF Spec

\* A delivery that some state save has recorded and whose outcome is open is in
\* the outbox or about to be replayed, through any number of crashes, restarts
\* in the middle of a replay and changes of shard (PendingSnapshot, ReplayPending);
\* after a cold start (restoreState) it is on the disk, until the next save.
THEOREM SavedSurvives == Spec => []SavedIsNeverLost
<1>1. OutboxInv => SavedIsNeverLost
  BY DEF OutboxInv
<1> QED BY <1>1, OutboxAlways, PTL

\* No process sends a delivery twice: the ids of one process carry distinct
\* deliveries, and a job that was sent is only ever settled (pendingDone).
THEOREM AtMostOncePerProcess == Spec => []SentOncePerProcess
<1>1. OutboxInv => SentOncePerProcess
  <2> SUFFICES ASSUME OutboxInv, NEW r \in DOMAIN outcome PROVE outcome[r].sent <= 1 + restarts
    BY DEF SentOncePerProcess
  <2>1. outcome[r].sent \in Nat /\ restarts \in Nat
    BY RefFacts DEF OutboxInv, OutboxType, Outcomes
  <2> QED BY <2>1 DEF OutboxInv, SentIsCounted
<1> QED BY <1>1, OutboxAlways, PTL

-----------------------------------------------------------------------------
(***************************************************************************)
(* OrderAcrossRestarts.  Deliveries of one producer for one fingerprint    *)
(* keep their line in every process, replayed ones ahead of new ones, and  *)
(* what was overtaken is not carried any more.                             *)
(***************************************************************************)
SameLine(r, s) == r < s /\ outcome[r].by = outcome[s].by /\ outcome[r].fp = outcome[s].fp

\* Jobs and records have the fingerprint of their delivery, and records are of
\* deliveries that were saved.
Labelled ==
    /\ \A i \in Ids : job[i].fp = outcome[ref[i]].fp
    /\ \A x \in disk : x.fp = outcome[x.ref].fp /\ outcome[x.ref].saved
    /\ \A k \in DOMAIN replay :
          replay[k].fp = outcome[replay[k].ref].fp /\ outcome[replay[k].ref].saved

\* A delivery is carried by its producer or by the replay, which comes first.
CarriedBy ==
    /\ \A i \in Ids : job[i].by \in {Boot, outcome[ref[i]].by}
    /\ replay # <<>> => \A i \in Ids : job[i].by = Boot

\* What has happened to a job is in the history of its delivery.
Recorded ==
    \A i \in Ids : /\ job[i].at = "over" => outcome[ref[i]].end # "open"
                   /\ job[i].retries # 0 => outcome[ref[i]].retried

Lined == \A i, j \in Ids : SameLine(ref[i], ref[j]) => InLine(i, j)

\* An open delivery that was overtaken was lost in a crash before any save, or
\* passed over by a cold start.
Overtaken ==
    \A r, s \in DOMAIN outcome :
        SameLine(r, s) /\ outcome[s].sent # 0 /\ outcome[r].end = "open" /\ ~outcome[r].retried
                       /\ r \notin passed
            => ~outcome[r].saved /\ \A i \in Ids : ref[i] # r

LineInv == TimerMeansRetry /\ Labelled /\ CarriedBy /\ Recorded /\ Lined /\ Overtaken

\* Whoever is sent has nothing open ahead of it, in this process, in what is
\* still to be replayed, or on the disk.
LEMMA NoneAhead ==
    ASSUME OutboxInv, LineInv, NEW j \in Ids, job[j].at = "sending",
           NEW r \in DOMAIN outcome, SameLine(r, ref[j]),
           outcome[r].end = "open", ~outcome[r].retried, r \notin passed
    PROVE  ~outcome[r].saved /\ \A i \in Ids : ref[i] # r
<1>1. \A i \in Ids : ref[i] # r
  <2> SUFFICES ASSUME NEW i \in Ids, ref[i] = r PROVE FALSE
    OBVIOUS
  <2>1. InLine(i, j)
    BY DEF LineInv, Lined
  <2>2. job[i].at # "over" /\ job[i].retries = 0
    BY DEF LineInv, Recorded
  <2> QED BY <2>1, <2>2 DEF InLine, OrderedPair
<1>2. r \in Nat /\ ref[j] \in Nat /\ r < ref[j]
  BY RefFacts DEF SameLine
<1>3. \A k \in DOMAIN replay : replay[k].ref # r
  <2> SUFFICES ASSUME NEW k \in DOMAIN replay, replay[k].ref = r PROVE FALSE
    OBVIOUS
  <2>1. ref[j] < r
    BY DEF OutboxInv, RefsInOrder
  <2> QED BY <1>2, <2>1
<1>4. pending \subseteq Ids
  BY DEF OutboxInv, PoolInv, PoolTypeOK
<1>5. r \notin Saved
  BY <1>1, <1>4 DEF Saved
<1>6. ~outcome[r].saved
  BY <1>3, <1>5 DEF OutboxInv, SavedIsNeverLost
<1> QED BY <1>1, <1>6

LEMMA PoolRunsInLine ==
    ASSUME OutboxInv, LineInv, PoolRuns
    PROVE  LineInv' /\ SendInOrder
<1>0. PoolInv /\ TimerMeansRetry /\ PoolStep /\ UNCHANGED <<disk, replay, restarts, ref, passed>>
  BY DEF OutboxInv, LineInv, PoolRuns
<1>1. PICK i \in Ids, p \in Places : MovedForward(i, p)
  BY <1>0, PoolStepMoves
<1>2. /\ DOMAIN outcome' = DOMAIN outcome
      /\ \A r \in DOMAIN outcome :
            /\ outcome'[r].fp = outcome[r].fp
            /\ outcome'[r].by = outcome[r].by
            /\ outcome'[r].saved = outcome[r].saved
            /\ outcome[r].retried => outcome'[r].retried
            /\ outcome'[r].end = "open" => outcome[r].end = "open"
            /\ outcome'[r].sent = IF r = ref[i] /\ p = "sent" THEN outcome[r].sent + 1
                                  ELSE outcome[r].sent
      /\ p \in {"undone", "over"} => outcome'[ref[i]].end # "open"
      /\ p = "timer" => outcome'[ref[i]].retried
  BY <1>1, PoolRunsFacts
<1>3. Ids' = Ids /\ job'[i].at = p /\ \A j \in Ids : j # i => job'[j] = job[j]
  BY <1>1 DEF MovedForward, Moved
<1>4. /\ TimerMeansRetry'
      /\ \A j \in Ids : job'[j].by = job[j].by /\ job'[j].fp = job[j].fp
      /\ \A a, b \in Ids : a # b /\ job[a].fp = job[b].fp /\ InLine(a, b) => InLine(a, b)'
  BY <1>0, PoolStepInLine
<1>5. /\ \A j \in Ids : ref[j] \in DOMAIN outcome /\ ref[j] \in Nat
      /\ \A x \in disk : x.ref \in DOMAIN outcome
      /\ \A k \in DOMAIN replay : replay[k].ref \in DOMAIN outcome
      /\ \A r \in DOMAIN outcome : r \in Nat /\ outcome[r].sent \in Nat
  BY RefFacts DEF OutboxInv, RefsKnown, Outcomes
<1>6. Labelled' /\ CarriedBy'
  <2>1. \A j \in Ids : /\ job'[j].fp = outcome'[ref[j]].fp
                       /\ job'[j].by \in {Boot, outcome'[ref[j]].by}
    BY <1>2, <1>4, <1>5 DEF LineInv, Labelled, CarriedBy
  <2>2. \A x \in disk : x.fp = outcome'[x.ref].fp /\ outcome'[x.ref].saved
    BY <1>2, <1>5 DEF LineInv, Labelled
  <2>3. \A k \in DOMAIN replay :
           replay[k].fp = outcome'[replay[k].ref].fp /\ outcome'[replay[k].ref].saved
    BY <1>2, <1>5 DEF LineInv, Labelled
  <2>4. replay # <<>> => \A j \in Ids : job'[j].by = Boot
    BY <1>4 DEF LineInv, CarriedBy
  <2>5. Labelled'
    BY <1>0, <1>3, <2>1, <2>2, <2>3 DEF Labelled
  <2>6. CarriedBy'
    BY <1>0, <1>3, <2>1, <2>4 DEF CarriedBy
  <2> QED BY <2>5, <2>6
<1>7. Recorded'
  <2> SUFFICES ASSUME NEW j \in Ids
               PROVE  /\ job'[j].at = "over" => outcome'[ref[j]].end # "open"
                      /\ job'[j].retries # 0 => outcome'[ref[j]].retried
    BY <1>0, <1>3 DEF Recorded
  <2>1. CASE j # i
    BY <1>2, <1>3, <1>5, <2>1 DEF LineInv, Recorded
  <2>2. CASE j = i
    BY <1>1, <1>2, <1>3, <1>5, <2>2 DEF LineInv, Recorded, MovedForward
  <2> QED BY <2>1, <2>2
<1>8. \A r, s \in DOMAIN outcome : SameLine(r, s)' <=> SameLine(r, s)
  BY <1>2 DEF SameLine
<1>9. Lined'
  <2> SUFFICES ASSUME NEW a \in Ids, NEW b \in Ids, SameLine(ref[a], ref[b])'
               PROVE  InLine(a, b)'
    BY <1>0, <1>3 DEF Lined
  <2>1. SameLine(ref[a], ref[b])
    BY <1>0, <1>2, <1>5 DEF SameLine
  <2>2. a # b /\ job[a].fp = job[b].fp
    BY <1>5, <2>1 DEF SameLine, LineInv, Labelled
  <2> QED BY <1>4, <2>1, <2>2 DEF LineInv, Lined
<1>10. Overtaken'
  <2> SUFFICES ASSUME NEW r \in DOMAIN outcome, NEW s \in DOMAIN outcome, SameLine(r, s)',
                      outcome'[s].sent # 0, outcome'[r].end = "open", ~outcome'[r].retried, r \notin passed
               PROVE  ~outcome'[r].saved /\ \A j \in Ids : ref[j] # r
    BY <1>0, <1>2, <1>3 DEF Overtaken
  <2>1. SameLine(r, s) /\ outcome[r].end = "open" /\ ~outcome[r].retried
    BY <1>2, <1>8
  <2>2. CASE outcome[s].sent # 0
    BY <1>2, <2>1, <2>2 DEF LineInv, Overtaken
  <2>3. CASE outcome[s].sent = 0
    <3>1. s = ref[i] /\ p = "sent"
      BY <1>2, <2>3
    <3>2. job[i].at = "sending"
      BY <1>1, <3>1 DEF MovedForward
    <3> QED BY <1>2, <2>1, <3>1, <3>2, NoneAhead
  <2> QED BY <2>2, <2>3
<1>11. SendInOrder
  <2> SUFFICES ASSUME NEW r \in DOMAIN outcome \ passed, FirstSent(r), outcome[r].end = "open",
                      ~outcome[r].retried, NEW s \in LaterOnes(r), outcome[s].sent # 0
               PROVE  FALSE
    BY DEF SendInOrder
  <2>1. r = ref[i]
    BY <1>2 DEF FirstSent
  <2>2. s \in DOMAIN outcome /\ SameLine(r, s)
    BY DEF LaterOnes, SameLine
  <2> QED BY <2>1, <2>2 DEF LineInv, Overtaken
<1> QED BY <1>4, <1>6, <1>7, <1>9, <1>10, <1>11 DEF LineInv

\* Nothing is sent by a step that is not the pool's.
LEMMA NothingSent ==
    ASSUME \A r \in DOMAIN outcome : outcome'[r].sent = outcome[r].sent
    PROVE  SendInOrder
BY DEF SendInOrder, FirstSent

LEMMA ShutdownInLine ==
    ASSUME OutboxInv, LineInv, ShutdownRuns \/ UNCHANGED vars
    PROVE  LineInv' /\ SendInOrder
<1>1. UNCHANGED <<job, queue, disk, replay, ref, outcome, passed>>
  BY DEF ShutdownRuns, ShutdownStep, unblockProducers, ShutdownLock, ShutdownClose,
         ShutdownReturns, outboxVars, vars, poolVars
<1>2. /\ Ids' = Ids
      /\ \A r, s : (SameLine(r, s)' <=> SameLine(r, s)) /\ (InLine(r, s)' <=> InLine(r, s))
  BY <1>1 DEF Ids, SameLine, InLine, OrderedPair, Q
<1>3. LineInv'
  BY <1>1, <1>2 DEF LineInv, TimerMeansRetry, Labelled, CarriedBy, Recorded, Lined, Overtaken
<1> QED BY <1>1, <1>3, NothingSent

LEMMA PersistInLine ==
    ASSUME OutboxInv, LineInv, Save \/ FinalSave
    PROVE  LineInv' /\ SendInOrder
<1>0. /\ Persist /\ UNCHANGED <<job, pending, queue, replay, ref, passed>>
      /\ disk' = PendingSnapshot
  BY DEF Save, FinalSave, Persist
<1>1. /\ DOMAIN outcome' = DOMAIN outcome
      /\ \A r \in DOMAIN outcome :
            /\ outcome'[r].fp = outcome[r].fp /\ outcome'[r].by = outcome[r].by
            /\ outcome'[r].sent = outcome[r].sent
            /\ outcome'[r].end = "open" => outcome[r].end = "open"
            /\ outcome'[r].retried = outcome[r].retried
            /\ outcome'[r].saved <=> outcome[r].saved \/ r \in Saved
  BY <1>0, MarkFacts
<1>2. /\ \A i \in Ids : ref[i] \in DOMAIN outcome
      /\ \A k \in DOMAIN replay : replay[k].ref \in DOMAIN outcome
      /\ pending \subseteq Ids
  BY DEF OutboxInv, RefsKnown, PoolInv, PoolTypeOK
<1>3. Ids' = Ids /\ \A i, j : InLine(i, j)' <=> InLine(i, j)
  BY <1>0 DEF Ids, InLine, OrderedPair, Q
<1>4. \A r, s \in DOMAIN outcome : SameLine(r, s)' <=> SameLine(r, s)
  BY <1>1 DEF SameLine
<1>5. Labelled'
  <2>1. ASSUME NEW x \in disk' PROVE x.fp = outcome'[x.ref].fp /\ outcome'[x.ref].saved
    <3>1. PICK i \in pending : x.ref = ref[i] /\ x.fp = job[i].fp
      BY <1>0, <2>1, SnapshotFacts
    <3>2. i \in Ids /\ ref[i] \in DOMAIN outcome /\ ref[i] \in Saved
      BY <1>2 DEF Saved
    <3> QED BY <1>1, <3>1, <3>2 DEF LineInv, Labelled
  <2> QED BY <1>0, <1>1, <1>2, <1>3, <2>1 DEF LineInv, Labelled
<1>6. TimerMeansRetry' /\ CarriedBy' /\ Recorded'
  BY <1>0, <1>1, <1>2, <1>3 DEF LineInv, TimerMeansRetry, CarriedBy, Recorded
<1>7. Lined'
  BY <1>0, <1>2, <1>3, <1>4 DEF LineInv, Lined
<1>8. Overtaken'
  <2> SUFFICES ASSUME NEW r \in DOMAIN outcome, NEW s \in DOMAIN outcome, SameLine(r, s),
                      outcome[s].sent # 0, outcome[r].end = "open", ~outcome[r].retried,
                      r \notin passed
               PROVE  ~outcome'[r].saved /\ \A i \in Ids : ref[i] # r
    BY <1>0, <1>1, <1>3, <1>4 DEF Overtaken
  <2>1. ~outcome[r].saved /\ \A i \in Ids : ref[i] # r
    BY DEF LineInv, Overtaken
  <2>2. r \notin Saved
    BY <1>2, <2>1 DEF Saved
  <2> QED BY <1>1, <2>1, <2>2
<1> QED BY <1>1, <1>5, <1>6, <1>7, <1>8, NothingSent DEF LineInv

LEMMA RestartInLine ==
    ASSUME OutboxInv, LineInv, NEW own, Restart(own)
    PROVE  LineInv' /\ SendInOrder
<1>0. job' = <<>> /\ disk' = disk /\ replay' = Kept(own) /\ passed' = passed
  BY DEF Restart, NewProcess
<1>1. Ids' = {}
  BY <1>0 DEF Ids
<1>2. /\ DOMAIN outcome' = DOMAIN outcome
      /\ \A r \in DOMAIN outcome :
            /\ outcome'[r].fp = outcome[r].fp /\ outcome'[r].by = outcome[r].by
            /\ outcome'[r].sent = outcome[r].sent
            /\ outcome'[r].saved = outcome[r].saved
            /\ outcome'[r].retried = outcome[r].retried
            /\ outcome'[r].end = "open" => outcome[r].end = "open"
  BY ForeignFacts
<1>3. \A k \in DOMAIN Kept(own) : Kept(own)[k] \in disk
  BY KeptFacts
<1>4. \A x \in disk : x.ref \in DOMAIN outcome
  BY DEF OutboxInv, RefsKnown
<1>5. \A x \in disk : x.fp = outcome'[x.ref].fp /\ outcome'[x.ref].saved
  BY <1>2, <1>4 DEF LineInv, Labelled
<1>6. Labelled'
  BY <1>0, <1>1, <1>3, <1>5 DEF Labelled
<1>7. TimerMeansRetry' /\ CarriedBy' /\ Recorded' /\ Lined'
  BY <1>1 DEF TimerMeansRetry, CarriedBy, Recorded, Lined
<1>8. Overtaken'
  <2> SUFFICES ASSUME NEW r \in DOMAIN outcome, NEW s \in DOMAIN outcome, SameLine(r, s)',
                      outcome'[s].sent # 0, outcome'[r].end = "open", ~outcome'[r].retried, r \notin passed
               PROVE  ~outcome'[r].saved
    BY <1>0, <1>1, <1>2 DEF Overtaken
  <2>1. SameLine(r, s)
    BY <1>2 DEF SameLine
  <2> QED BY <1>2, <2>1 DEF LineInv, Overtaken
<1> QED BY <1>2, <1>6, <1>7, <1>8, NothingSent DEF LineInv

LEMMA ColdStartInLine ==
    ASSUME OutboxInv, LineInv, ColdStart
    PROVE  LineInv' /\ SendInOrder
<1>0. /\ job' = <<>> /\ disk' = disk /\ replay' = <<>> /\ outcome' = outcome
      /\ passed \subseteq passed'
  BY DEF ColdStart, NewProcess
<1>1. Ids' = {} /\ DOMAIN replay' = {}
  BY <1>0 DEF Ids
<1>2. Labelled'
  BY <1>0, <1>1 DEF LineInv, Labelled
<1>3. TimerMeansRetry' /\ CarriedBy' /\ Recorded' /\ Lined'
  BY <1>1 DEF TimerMeansRetry, CarriedBy, Recorded, Lined
<1>4. Overtaken'
  BY <1>0, <1>1 DEF LineInv, Overtaken, SameLine
<1> QED BY <1>0, <1>2, <1>3, <1>4, NothingSent DEF LineInv

LEMMA ReplayInLine ==
    ASSUME OutboxInv, LineInv, ReplayPending
    PROVE  LineInv' /\ SendInOrder
<1> DEFINE h == Head(replay)
<1>0. /\ replay \in Seq(Records) /\ replay # <<>> /\ ref \in Seq(Nat) /\ Len(ref) = Len(job)
      /\ enqueue(Boot, h.fp, ReplayedAs(h.kind))
      /\ ref' = Append(ref, h.ref) /\ replay' = Tail(replay)
      /\ UNCHANGED <<disk, outcome, passed>>
  BY DEF OutboxInv, OutboxType, ReplayPending
<1>1. /\ h \in Records /\ h = replay[1] /\ 1 \in DOMAIN replay
      /\ \A k \in DOMAIN replay' : k + 1 \in DOMAIN replay /\ replay'[k] = replay[k + 1]
  <2>1. /\ h \in Records /\ h = replay[1] /\ Len(replay) \in Nat /\ Len(replay) # 0
        /\ DOMAIN replay = 1..Len(replay)
        /\ replay' \in Seq(Records) /\ Len(replay') = Len(replay) - 1
        /\ \A k \in 1..(Len(replay) - 1) : replay'[k] = replay[k + 1]
    BY <1>0, HeadTailProperties, LenProperties, EmptySeq
  <2>2. DOMAIN replay' = 1..(Len(replay) - 1)
    BY <2>1, LenProperties
  <2> QED BY <2>1, <2>2
<1>2. h.fp \in FP /\ ReplayedAs(h.kind) \in Kinds /\ h.ref \in Nat /\ Boot \in Producers
  BY <1>1, OutboxConstants DEF Records, ReplayedAs
<1>3. Len(job) \in Nat /\ Ids = 1..Len(job)
  BY RefFacts
<1>4. PICK n \in Nat : n = Len(job) + 1
  BY <1>3
<1>5. /\ TimerMeansRetry'
      /\ Ids' = Ids \cup {n} /\ n \notin Ids
      /\ \A j \in Ids : job'[j] = job[j] /\ j \in Nat /\ j < n
      /\ job'[n].by = Boot /\ job'[n].fp = h.fp
      /\ job'[n].at = "entering" /\ job'[n].retries = 0
      /\ \A a, b \in Ids : InLine(a, b) => InLine(a, b)'
      /\ \A a \in Ids : Idle(job[a].by) => InLine(a, n)'
  <2> HIDE DEF h
  <2> QED BY <1>0, <1>2, <1>4, EnqueueInLine DEF OutboxInv, LineInv
<1>6. /\ ref'[n] = h.ref
      /\ \A j \in Ids : ref'[j] = ref[j] /\ ref[j] \in Nat
  <2>1. \A j \in Ids : ref[j] \in Nat
    BY RefFacts
  <2> HIDE DEF h
  <2> QED BY <1>0, <1>2, <1>3, <1>4, <2>1, AppendProperties
<1>7. /\ h.fp = outcome[h.ref].fp /\ outcome[h.ref].saved
      /\ \A j \in Ids : ref[j] < h.ref /\ job[j].by = Boot
  BY <1>0, <1>1 DEF OutboxInv, RefsInOrder, LineInv, Labelled, CarriedBy
<1>8. Idle(Boot)
  BY <1>0 DEF enqueue
<1> HIDE DEF h
<1>9. ASSUME NEW j \in Ids'
      PROVE  /\ job'[j].fp = outcome[ref'[j]].fp /\ job'[j].by = Boot
             /\ job'[j].at = "over" => outcome[ref'[j]].end # "open"
             /\ job'[j].retries # 0 => outcome[ref'[j]].retried
  <2>1. CASE j \in Ids
    BY <1>5, <1>6, <1>7, <2>1 DEF LineInv, Labelled, Recorded
  <2>2. CASE j = n
    BY <1>5, <1>6, <1>7, <2>2
  <2> QED BY <1>5, <2>1, <2>2
<1>10. Labelled' /\ CarriedBy' /\ Recorded'
  <2>1. \A k \in DOMAIN replay' :
           replay'[k].fp = outcome[replay'[k].ref].fp /\ outcome[replay'[k].ref].saved
    BY <1>1 DEF LineInv, Labelled
  <2>2. \A x \in disk : x.fp = outcome[x.ref].fp /\ outcome[x.ref].saved
    BY DEF LineInv, Labelled
  <2>3. Labelled'
    BY <1>0, <1>9, <2>1, <2>2 DEF Labelled
  <2>4. CarriedBy' /\ Recorded'
    BY <1>0, <1>9 DEF CarriedBy, Recorded
  <2> QED BY <2>3, <2>4
<1>11. Lined'
  <2> SUFFICES ASSUME NEW a \in Ids', NEW b \in Ids', SameLine(ref'[a], ref'[b])
               PROVE  InLine(a, b)'
    BY <1>0 DEF Lined, SameLine
  <2>1. ref'[a] < ref'[b]
    BY DEF SameLine
  <2>2. a \in Ids
    <3> SUFFICES ASSUME a = n PROVE FALSE
      BY <1>5
    <3>1. h.ref < ref'[b]
      BY <1>6, <2>1
    <3> QED BY <1>2, <1>5, <1>6, <1>7, <3>1
  <2>3. CASE b \in Ids
    BY <1>5, <1>6, <2>2, <2>3 DEF LineInv, Lined
  <2>4. CASE b = n
    BY <1>5, <1>7, <1>8, <2>2, <2>4
  <2> QED BY <1>5, <2>3, <2>4
<1>12. Overtaken'
  <2> SUFFICES ASSUME NEW r \in DOMAIN outcome, NEW s \in DOMAIN outcome, SameLine(r, s),
                      outcome[s].sent # 0, outcome[r].end = "open", ~outcome[r].retried,
                      r \notin passed
               PROVE  ~outcome[r].saved /\ \A i \in Ids' : ref'[i] # r
    BY <1>0 DEF Overtaken, SameLine
  <2>1. ~outcome[r].saved /\ \A i \in Ids : ref[i] # r
    BY DEF LineInv, Overtaken
  <2> QED BY <1>5, <1>6, <1>7, <2>1
<1> QED BY <1>0, <1>5, <1>10, <1>11, <1>12, NothingSent DEF LineInv

LEMMA AcceptInLine ==
    ASSUME OutboxInv, LineInv, NEW p \in Producers, Accept(p)
    PROVE  LineInv' /\ SendInOrder
<1>0. /\ outcome \in Seq(Outcomes) /\ ref \in Seq(Nat) /\ Len(ref) = Len(job)
      /\ replay = <<>> /\ Idle(Boot) /\ UNCHANGED <<disk, replay, passed>>
      /\ ref' = Append(ref, Len(outcome) + 1)
  BY DEF OutboxInv, OutboxType, Accept, Booted
<1>1. PICK fp \in FP, k \in Kinds : enqueue(p, fp, k)
  BY DEF Accept, Enqueue
<1>2. /\ Len(job) \in Nat /\ Ids = 1..Len(job)
      /\ DOMAIN outcome = 1..Len(outcome) /\ Len(outcome) \in Nat
      /\ \A i \in Ids : ref[i] \in Nat
  BY RefFacts
<1>3. PICK n \in Nat, r0 \in Nat : n = Len(job) + 1 /\ r0 = Len(outcome) + 1
  BY <1>2
<1>4. /\ TimerMeansRetry'
      /\ Ids' = Ids \cup {n} /\ n \notin Ids
      /\ \A j \in Ids : job'[j] = job[j] /\ j \in Nat /\ j < n
      /\ job'[n].by = p /\ job'[n].fp = fp
      /\ job'[n].at = "entering" /\ job'[n].retries = 0
      /\ \A a, b \in Ids : InLine(a, b) => InLine(a, b)'
      /\ \A a \in Ids : Idle(job[a].by) => InLine(a, n)'
  BY <1>1, <1>3, EnqueueInLine DEF OutboxInv, LineInv
<1>5. ref'[n] = r0 /\ \A j \in Ids : ref'[j] = ref[j]
  BY <1>0, <1>2, <1>3, AppendProperties
<1>6. PICK o \in Outcomes : /\ outcome' = Append(outcome, o)
                            /\ o.fp = fp /\ o.by = p /\ o.sent = 0 /\ o.saved = FALSE
                            /\ o.retried = FALSE
  <2> DEFINE o == [fp |-> fp, by |-> p, sent |-> 0, end |-> "open", saved |-> FALSE,
                   retried |-> FALSE]
  <2>1. o \in Outcomes
    BY DEF Outcomes
  <2>2. o.fp = fp /\ o.by = p /\ o.sent = 0 /\ o.saved = FALSE /\ o.retried = FALSE
    OBVIOUS
  <2>3. Len(job') = n
    BY <1>1, EnqueueFacts, <1>3 DEF OutboxInv
  <2>4. outcome' = Append(outcome, o)
    BY <1>4, <2>3 DEF Accept
  <2> HIDE DEF o
  <2> QED BY <2>1, <2>2, <2>4
<1>7. /\ outcome' \in Seq(Outcomes) /\ Len(outcome') = r0 /\ outcome'[r0] = o
      /\ \A r \in DOMAIN outcome : outcome'[r] = outcome[r]
  BY <1>0, <1>2, <1>3, <1>6, AppendProperties
<1>8. DOMAIN outcome' = DOMAIN outcome \cup {r0} /\ \A r \in DOMAIN outcome : r \in Nat /\ r < r0
  <2>1. DOMAIN outcome' = 1..r0
    BY <1>7, LenProperties
  <2> QED BY <1>2, <1>3, <2>1
<1>9. /\ \A j \in Ids : ref[j] \in DOMAIN outcome
      /\ \A x \in disk : x.ref \in DOMAIN outcome
      /\ DOMAIN replay = {} /\ Idle(p)
  BY <1>0, <1>1 DEF OutboxInv, RefsKnown, enqueue
<1>10. ASSUME NEW j \in Ids'
       PROVE  /\ job'[j].fp = outcome'[ref'[j]].fp
              /\ job'[j].by \in {Boot, outcome'[ref'[j]].by}
              /\ job'[j].at = "over" => outcome'[ref'[j]].end # "open"
              /\ job'[j].retries # 0 => outcome'[ref'[j]].retried
  <2>1. CASE j \in Ids
    BY <1>4, <1>5, <1>7, <1>9, <2>1 DEF LineInv, Labelled, CarriedBy, Recorded
  <2>2. CASE j = n
    BY <1>4, <1>5, <1>6, <1>7, <2>2
  <2> QED BY <1>4, <2>1, <2>2
<1>11. Labelled' /\ CarriedBy' /\ Recorded'
  <2>1. \A x \in disk : x.fp = outcome'[x.ref].fp /\ outcome'[x.ref].saved
    BY <1>7, <1>9 DEF LineInv, Labelled
  <2>2. replay' = <<>> /\ DOMAIN replay' = {} /\ disk' = disk
    BY <1>0, <1>9
  <2>3. Labelled'
    BY <1>10, <2>1, <2>2 DEF Labelled
  <2>4. CarriedBy' /\ Recorded'
    BY <1>10, <2>2 DEF CarriedBy, Recorded
  <2> QED BY <2>3, <2>4
<1>12. Lined'
  <2> SUFFICES ASSUME NEW a \in Ids', NEW b \in Ids', SameLine(ref[a], ref[b])'
               PROVE  InLine(a, b)'
    BY DEF Lined
  <2>1. ref'[a] < ref'[b] /\ outcome'[ref'[a]].by = outcome'[ref'[b]].by
    BY DEF SameLine
  <2>2. a \in Ids
    <3> SUFFICES ASSUME a = n PROVE FALSE
      BY <1>4
    <3>1. r0 < ref'[b]
      BY <1>5, <2>1
    <3>2. CASE b = n
      BY <1>5, <3>1, <3>2
    <3>3. CASE b \in Ids
      <4>1. ref'[b] = ref[b] /\ ref[b] \in Nat /\ ref[b] < r0
        BY <1>5, <1>8, <1>9, <3>3
      <4> QED BY <3>1, <4>1
    <3> QED BY <1>4, <3>2, <3>3
  <2>3. CASE b \in Ids
    <3>1. SameLine(ref[a], ref[b])
      BY <1>5, <1>7, <1>9, <2>2, <2>3 DEF SameLine
    <3> QED BY <1>4, <2>2, <2>3, <3>1 DEF LineInv, Lined
  <2>4. CASE b = n
    <3>1. outcome[ref[a]].by = p
      BY <1>5, <1>6, <1>7, <1>9, <2>1, <2>2, <2>4
    <3>2. Idle(job[a].by)
      BY <1>0, <1>9, <2>2, <3>1 DEF LineInv, CarriedBy
    <3> QED BY <1>4, <2>2, <2>4, <3>2
  <2> QED BY <1>4, <2>3, <2>4
<1>13. Overtaken'
  <2> SUFFICES ASSUME NEW r \in DOMAIN outcome', NEW s \in DOMAIN outcome', SameLine(r, s)',
                      outcome'[s].sent # 0, outcome'[r].end = "open", ~outcome'[r].retried, r \notin passed
               PROVE  ~outcome'[r].saved /\ \A i \in Ids' : ref'[i] # r
    BY <1>0 DEF Overtaken
  <2>1. s \in DOMAIN outcome
    BY <1>6, <1>7, <1>8
  <2>2. r < s
    BY DEF SameLine
  <2>3. r \in DOMAIN outcome
    BY <1>8, <2>1, <2>2
  <2>4. SameLine(r, s)
    BY <1>7, <2>1, <2>3 DEF SameLine
  <2>5. ~outcome[r].saved /\ \A i \in Ids : ref[i] # r
    BY <1>7, <2>1, <2>3, <2>4 DEF LineInv, Overtaken
  <2> QED BY <1>4, <1>5, <1>7, <1>8, <2>3, <2>5
<1> QED BY <1>4, <1>7, <1>11, <1>12, <1>13, NothingSent DEF LineInv

\* Replay by id keeps a fire ahead of its resolve (ReplayPending, restoreState): an
\* open delivery is not sent for the first time after a later one of its producer
\* and fingerprint, through any number of restarts, unless it is a retried resolve
\* or a cold start passed it over.
THEOREM OrderSurvivesRestarts == Spec => OrderAcrossRestarts
<1>1. Init => LineInv
  <2> SUFFICES ASSUME Init PROVE LineInv
    OBVIOUS
  <2>1. Ids = {} /\ disk = {} /\ replay = <<>> /\ DOMAIN outcome = {}
    BY DEF Init, PoolInit, Ids
  <2> QED BY <2>1 DEF LineInv, TimerMeansRetry, Labelled, CarriedBy, Recorded, Lined, Overtaken
<1>2. OutboxInv /\ LineInv /\ [Next]_vars => LineInv' /\ SendInOrder
  <2> SUFFICES ASSUME OutboxInv, LineInv, [Next]_vars PROVE LineInv' /\ SendInOrder
    OBVIOUS
  <2>1. CASE \E p \in Producers \ {Boot} : Accept(p)
    BY <2>1, AcceptInLine
  <2> QED BY <2>1, PoolRunsInLine, ShutdownInLine, PersistInLine, RestartInLine, ColdStartInLine,
             ReplayInLine
          DEF Next
<1> QED BY <1>1, <1>2, OutboxAlways, PTL DEF Spec, OrderAcrossRestarts

-----------------------------------------------------------------------------
(***************************************************************************)
(* DanglingIsExplained.  What is not active any more, and was not given up *)
(* in a way that is marked, has no fire between the store and the queue,   *)
(* and whoever can open its incident is followed by who closes it: a       *)
(* resolve in the hands of a goroutine, or one that is behind every fire   *)
(* on the queue.                                                           *)
(***************************************************************************)
Unsent(i) == job[i].at \notin {"sent", "undone", "over"}
FireOf(i, fp) == job[i].fp = fp /\ job[i].kind = "fire"
UnsentResolve(i, fp) == job[i].fp = fp /\ job[i].kind = "resolve" /\ Unsent(i)

HandsType ==
    /\ doing \in [Producers -> [fp : FP, step : {"enrich", "fire", "resolve"}] \cup {Nothing}]
    /\ open \subseteq FP

\* Only fires and resolves are enqueued, and only resolves are retried.
FiresOnce ==
    \A i \in Ids : /\ job[i].kind \in {"fire", "resolve"}
                   /\ job[i].kind = "fire" => job[i].retries = 0

Opening(fp) == fp \in open \/ \E i \in Ids : FireOf(i, fp) /\ Unsent(i)
InHand(fp) == \E p \in Producers : doing[p].fp = fp /\ doing[p].step = "resolve"
LastInLine(j, fp) == UnsentResolve(j, fp) /\ \A i \in Ids : FireOf(i, fp) => InLine(i, j)
Closing(fp) == InHand(fp) \/ \E j \in Ids : LastInLine(j, fp)

Cared(fp) == fp \in active \/ (~Loose(fp) /\ (Opening(fp) => Closing(fp)))
WillClose == \A fp \in FP \ Excused : Cared(fp)

IncidentInv == OrderInv /\ HandsType /\ FiresOnce /\ WillClose

LEMMA IncidentStart == IncidentInit => IncidentInv
<1> SUFFICES ASSUME IncidentInit PROVE IncidentInv
  OBVIOUS
<1>1. Ids = {} /\ PoolInv
  BY InitPoolInv DEF IncidentInit, PoolInit, Ids
<1>2. OrderInv
  BY <1>1 DEF OrderInv, TimerMeansRetry, Ordered
<1>3. open = {} /\ doing = [p \in Producers |-> Nothing] /\ Nothing.step = "none"
  BY DEF IncidentInit, Nothing
<1>4. HandsType
  BY <1>3 DEF HandsType
<1>5. ASSUME NEW fp PROVE ~Loose(fp) /\ ~Opening(fp)
  BY <1>1, <1>3 DEF Loose, Opening
<1> QED BY <1>1, <1>2, <1>4, <1>5 DEF IncidentInv, FiresOnce, WillClose, Cared

\* The pool's part of a step.
LEMMA IncidentPool ==
    ASSUME IncidentInv, IncidentNext
    PROVE  OrderInv'
<1>1. ASSUME NEW p \in Producers, Enqueues(p) PROVE Enqueue(p)
  <2>1. doing[p] # Nothing
    BY <1>1 DEF Enqueues, Nothing
  <2>2. doing[p].fp \in FP /\ doing[p].step \in Kinds
    BY <1>1, <2>1, IncidentConstants DEF IncidentInv, HandsType, Enqueues
  <2> QED BY <1>1, <2>2 DEF Enqueues, Enqueue
<1>2. ASSUME NEW i \in Ids, Worker(i) PROVE PoolStep
  BY <1>2 DEF Worker, Moves, Delivers, Fails, Retries, PoolStep, settle
<1>3. ASSUME NEW q \in Queues, Takes(q) PROVE PoolStep
  BY <1>3 DEF Takes, PoolStep
<1>4. ASSUME NEW fp \in FP, ConditionChanges(fp) \/ MuteEnds(fp) PROVE UNCHANGED poolVars
  BY <1>4 DEF ConditionChanges, MuteEnds
<1>5. ASSUME NEW p \in Producers, NEW fp \in FP,
             Evaluate(p, fp) \/ resolve(p, fp) \/ ServeHTTP(p, fp)
      PROVE  UNCHANGED poolVars
  BY <1>5 DEF Evaluate, resolve, ServeHTTP, onResolved
<1>6. ASSUME NEW p \in Producers, emit(p) PROVE UNCHANGED poolVars
  BY <1>6 DEF emit
<1>7. [PoolNext]_poolVars
  BY <1>1, <1>2, <1>3, <1>4, <1>5, <1>6 DEF IncidentNext, Producer, PoolNext
<1> QED BY <1>7, StepOrder DEF IncidentInv

\* Steps that leave the pool and the sink alone, and this alert active: no fire of
\* it is let loose and no resolve of it is let go.
LEMMA CaredInHands ==
    ASSUME UNCHANGED <<job, queue, open>>,
           NEW fp \in FP, Cared(fp), fp \in active => fp \in active',
           \A q \in Producers : /\ (doing[q].fp = fp /\ doing[q].step = "resolve")
                                      => doing'[q] = doing[q]
                                /\ (doing'[q].fp = fp /\ doing'[q].step = "fire")
                                      => doing'[q] = doing[q]
    PROVE  Cared(fp)'
<1>1. Ids' = Ids
  BY DEF Ids
<1>2. Loose(fp)' => Loose(fp)
  BY <1>1 DEF Loose
<1>3. Opening(fp)' => Opening(fp)
  BY <1>1 DEF Opening, FireOf, Unsent
<1>4. InHand(fp) => InHand(fp)'
  BY DEF InHand
<1>5. \A j \in Ids : LastInLine(j, fp) => LastInLine(j, fp)'
  BY <1>1 DEF LastInLine, UnsentResolve, Unsent, FireOf, InLine, OrderedPair, Q
<1> QED BY <1>1, <1>2, <1>3, <1>4, <1>5 DEF Cared, Closing

\* The steps before the pool.
LEMMA ProducersClose ==
    ASSUME IncidentInv, NEW p \in Producers, NEW f0 \in FP,
           Evaluate(p, f0) \/ resolve(p, f0) \/ ServeHTTP(p, f0)
    PROVE  HandsType' /\ FiresOnce' /\ WillClose'
<1>1. Evaluate(p, f0) \/ resolve(p, f0) \/ onResolved(p, f0)
  BY DEF ServeHTTP
<1>2. doing \in [Producers -> [fp : FP, step : {"enrich", "fire", "resolve"}] \cup {Nothing}]
  BY DEF IncidentInv, HandsType
<1>3. doing[p].step = "none" /\ UNCHANGED <<job, queue, open>>
  BY <1>1 DEF Evaluate, resolve, onResolved, Free, Nothing, poolVars
<1>4. PICK s \in {"enrich", "resolve"} :
         /\ doing' = [doing EXCEPT ![p] = [fp |-> f0, step |-> s]]
         /\ \A f \in active \ active' : f = f0
         /\ \A f \in Excused \ Excused' : FALSE
         /\ s = "resolve" /\ Loose(f0) => f0 \in Excused'
         /\ s = "enrich" => active' = active
  BY <1>1 DEF Evaluate, resolve, onResolved, Hands, Forgets, Excused, excuses
<1>5. [fp |-> f0, step |-> s] \in [fp : FP, step : {"enrich", "fire", "resolve"}]
  OBVIOUS
<1>6. /\ doing' \in [Producers -> [fp : FP, step : {"enrich", "fire", "resolve"}] \cup {Nothing}]
      /\ doing'[p].fp = f0 /\ doing'[p].step = s
      /\ \A q \in Producers : q # p => doing'[q] = doing[q]
  BY <1>2, <1>4, <1>5
<1>7. HandsType' /\ FiresOnce'
  BY <1>3, <1>6 DEF IncidentInv, HandsType, FiresOnce, Ids
<1>8. WillClose'
  <2> SUFFICES ASSUME NEW fp \in FP \ Excused' PROVE Cared(fp)'
    BY DEF WillClose
  <2>1. Cared(fp)
    BY <1>4 DEF IncidentInv, WillClose
  <2>2. CASE fp = f0 /\ s = "resolve"
    <3>1. InHand(fp)'
      BY <1>6, <2>2 DEF InHand
    <3>2. ~Loose(fp)'
      BY <1>3, <1>4, <1>6, <2>2 DEF Loose, Ids
    <3> QED BY <3>1, <3>2 DEF Cared, Closing
  <2>3. CASE ~(fp = f0 /\ s = "resolve")
    <3>1. fp \in active => fp \in active'
      BY <1>4, <2>3
    <3> QED BY <1>3, <1>6, <2>1, <3>1, CaredInHands
  <2> QED BY <2>2, <2>3
<1> QED BY <1>7, <1>8

LEMMA EmitCloses ==
    ASSUME IncidentInv, NEW p \in Producers, emit(p)
    PROVE  HandsType' /\ FiresOnce' /\ WillClose'
<1> DEFINE f0 == doing[p].fp
<1>1. doing \in [Producers -> [fp : FP, step : {"enrich", "fire", "resolve"}] \cup {Nothing}]
  BY DEF IncidentInv, HandsType
<1>2. doing[p].step = "enrich" /\ UNCHANGED <<job, queue, open>> /\ Nothing.step = "none"
  BY DEF emit, Nothing, poolVars
<1>3. f0 \in FP
  BY <1>1, <1>2
<1>4. active \subseteq active' /\ \A f \in Excused : f = f0 \/ f \in Excused'
  BY DEF emit, Excused, excuses
<1>5. /\ doing' \in [Producers -> [fp : FP, step : {"enrich", "fire", "resolve"}] \cup {Nothing}]
      /\ \A q \in Producers : q # p => doing'[q] = doing[q]
      /\ \/ doing'[p] = Nothing /\ Excused' = Excused
         \/ doing'[p].fp = f0 /\ f0 \in active'
  <2>1. CASE f0 \in muted
    BY <1>1, <1>2, <2>1 DEF emit, LetsGo, excuses, Excused
  <2>2. CASE f0 \notin muted
    <3>1. /\ doing' = [doing EXCEPT ![p] = [fp |-> f0, step |-> "fire"]]
          /\ active' = active \cup {f0}
      BY <2>2 DEF emit, Hands
    <3> HIDE DEF f0
    <3>2. [fp |-> f0, step |-> "fire"] \in [fp : FP, step : {"enrich", "fire", "resolve"}]
      BY <1>3
    <3> QED BY <1>1, <3>1, <3>2
  <2> QED BY <2>1, <2>2
<1>6. HandsType' /\ FiresOnce'
  BY <1>2, <1>5 DEF IncidentInv, HandsType, FiresOnce, Ids
<1>7. WillClose'
  <2> SUFFICES ASSUME NEW fp \in FP \ Excused', fp \notin active' PROVE Cared(fp)'
    BY DEF WillClose, Cared
  <2>1. Cared(fp)
    BY <1>4, <1>5 DEF IncidentInv, WillClose
  <2>2. fp \in active => fp \in active'
    BY <1>4
  <2> QED BY <1>2, <1>5, <2>1, <2>2, CaredInHands
<1> QED BY <1>6, <1>7

\* An enqueue: a fire in hand is an active alert's, and a resolve goes behind
\* every fire, none of which is loose.
LEMMA EnqueueCloses ==
    ASSUME IncidentInv, NEW p \in Producers, Enqueues(p)
    PROVE  HandsType' /\ FiresOnce' /\ WillClose'
<1> DEFINE f0 == doing[p].fp
           k0 == doing[p].step
<1>1. /\ doing \in [Producers -> [fp : FP, step : {"enrich", "fire", "resolve"}] \cup {Nothing}]
      /\ open \subseteq FP
  BY DEF IncidentInv, HandsType
<1>2. /\ k0 \in {"fire", "resolve"} /\ enqueue(p, f0, k0)
      /\ UNCHANGED <<active, open>> /\ Excused' = Excused
      /\ doing' = [doing EXCEPT ![p] = Nothing] /\ Nothing.step = "none"
  BY DEF Enqueues, LetsGo, Nothing, excuses, Excused
<1>3. f0 \in FP /\ k0 \in Kinds
  BY <1>1, <1>2, IncidentConstants
<1>4. /\ HandsType' /\ doing'[p] = Nothing
      /\ \A q \in Producers : q # p => doing'[q] = doing[q]
  BY <1>1, <1>2 DEF HandsType
<1>5. job \in Seq(JobType) /\ Len(job) \in Nat
  BY LenProperties DEF IncidentInv, OrderInv, PoolInv, PoolTypeOK
<1>6. PICK n \in Nat : n = Len(job) + 1
  BY <1>5
<1>7. /\ Ids' = Ids \cup {n} /\ n \notin Ids
      /\ \A j \in Ids : job'[j] = job[j]
      /\ job'[n].fp = f0 /\ job'[n].retries = 0 /\ job'[n].at = "entering"
      /\ \A a, b \in Ids : InLine(a, b) => InLine(a, b)'
      /\ \A a \in Ids : job[a].at \notin {"entering", "waiting", "parked"} => InLine(a, n)'
  BY <1>2, <1>3, <1>6, EnqueueInLine DEF IncidentInv, OrderInv
<1>8. job'[n].kind = k0
  <2> DEFINE new == [by |-> p, fp |-> f0, kind |-> k0, retries |-> 0, at |-> "entering"]
  <2>1. job' = Append(job, new) /\ new.kind = k0 /\ new \in JobType
    BY <1>2, <1>3, DispatcherConstants DEF enqueue, JobType, Places
  <2> HIDE DEF new, f0, k0
  <2>2. job'[n] = new
    BY <1>5, <1>6, <2>1, AppendProperties
  <2> QED BY <2>1, <2>2
<1> HIDE DEF f0, k0
<1>9. FiresOnce'
  <2> SUFFICES ASSUME NEW i \in Ids'
               PROVE  /\ job'[i].kind \in {"fire", "resolve"}
                      /\ job'[i].kind = "fire" => job'[i].retries = 0
    BY DEF FiresOnce
  <2>1. CASE i \in Ids
    BY <1>7, <2>1 DEF IncidentInv, FiresOnce
  <2>2. CASE i = n
    BY <1>2, <1>7, <1>8, <2>2
  <2> QED BY <1>7, <2>1, <2>2
<1>10. WillClose'
  <2> SUFFICES ASSUME NEW fp \in FP \ Excused, fp \notin active PROVE Cared(fp)'
    BY <1>2 DEF WillClose, Cared
  <2>1. ~Loose(fp) /\ (Opening(fp) => Closing(fp))
    BY DEF IncidentInv, WillClose, Cared
  <2>2. ~(fp = f0 /\ k0 = "fire")
    BY <2>1 DEF Loose, f0, k0
  <2>3. \A i \in Ids' : FireOf(i, fp)' => i \in Ids /\ FireOf(i, fp)
    BY <1>2, <1>7, <1>8, <2>2 DEF FireOf
  <2>4. ~Loose(fp)'
    <3>1. ASSUME NEW q \in Producers, doing'[q].fp = fp, doing'[q].step = "fire" PROVE FALSE
      BY <1>2, <1>4, <2>1, <3>1 DEF Loose
    <3>2. ASSUME NEW i \in Ids', FireOf(i, fp)', job'[i].at \in {"entering", "waiting", "parked"}
          PROVE  FALSE
      BY <1>7, <2>1, <2>3, <3>2 DEF Loose, FireOf
    <3> QED BY <3>1, <3>2 DEF Loose, FireOf
  <2>5. CASE fp = f0 /\ k0 = "resolve"
    <3>1. UnsentResolve(n, fp)'
      BY <1>7, <1>8, <2>5 DEF UnsentResolve, Unsent
    <3>2. \A i \in Ids' : FireOf(i, fp)' => InLine(i, n)'
      BY <1>7, <2>1, <2>3 DEF Loose, FireOf
    <3>3. LastInLine(n, fp)' /\ n \in Ids'
      BY <1>7, <3>1, <3>2 DEF LastInLine
    <3> QED BY <2>4, <3>3 DEF Cared, Closing
  <2>6. CASE fp # f0
    <3>1. Opening(fp)' => Opening(fp)
      BY <1>2, <1>7, <2>3 DEF Opening, Unsent
    <3>2. InHand(fp) => InHand(fp)'
      BY <1>4, <2>6 DEF InHand, f0
    <3>3. ASSUME NEW j \in Ids, LastInLine(j, fp) PROVE LastInLine(j, fp)'
      BY <1>7, <2>3, <3>3 DEF LastInLine, UnsentResolve, Unsent
    <3> QED BY <1>7, <2>1, <2>4, <3>1, <3>2, <3>3 DEF Cared, Closing
  <2> QED BY <1>2, <2>2, <2>5, <2>6
<1> QED BY <1>4, <1>9, <1>10

\* What a step of a worker does to the jobs.
LEMMA WorkerMoves ==
    ASSUME IncidentInv, (\E i \in Ids : Worker(i)) \/ (\E q \in Queues : Takes(q))
    PROVE  /\ Ids' = Ids /\ doing' = doing
           /\ \A j \in Ids : job'[j].fp = job[j].fp /\ job'[j].kind = job[j].kind
           /\ FiresOnce'
           /\ \A a, b \in Ids :
                 a # b /\ job[a].fp = job[b].fp /\ InLine(a, b) => InLine(a, b)'
           /\ \A fp \in FP : Loose(fp)' => Loose(fp)
<1>0. PoolInv /\ PoolTypeOK /\ TimerMeansRetry
  BY DEF IncidentInv, OrderInv, PoolInv
<1>1. doing' = doing
  BY DEF Worker, Moves, Takes, Delivers, Fails, Retries, incidentVars
<1>2. PoolStep
  BY DEF Worker, Moves, Takes, Delivers, Fails, Retries, PoolStep, settle
<1>3. PICK i \in Ids, p \in Places : MovedForward(i, p)
  BY <1>0, <1>2, PoolStepMoves
<1>4. Ids' = Ids /\ \A j \in Ids : job'[j].fp = job[j].fp /\ job'[j].kind = job[j].kind
  BY <1>3 DEF MovedForward, Moved
<1>5. /\ p = "timer" => job[i].kind = "resolve"
      /\ p \in {"entering", "waiting", "parked"}
            => job[i].at \in {"entering", "timer", "waiting", "parked"}
  <2>1. job'[i].at = p /\ job[i].at # p
    BY <1>3 DEF MovedForward, Moved
  <2>2. ASSUME NEW j \in Ids, NEW r \in Places, Move(j, r) PROVE j = i /\ p = r
    <3>1. Moved(j, r)
      BY <1>0, <2>2, MoveFacts
    <3> QED BY <2>1, <3>1 DEF Moved
  <2>3. ASSUME NEW j \in Ids, submit(j)
        PROVE  p # "timer" /\ job[i].at \in {"entering", "timer", "waiting", "parked"}
    <3>1. \E r \in {"dropped", "waiting", "parked", "queued"} : Move(j, r)
      BY <2>3 DEF submit, Enter, TryQueue, Unpark, GiveUp
    <3>2. job[j].at \in {"entering", "timer", "waiting", "parked"}
      BY <2>3 DEF submit, Enter, TryQueue, Unpark, GiveUp
    <3> QED BY <2>2, <3>1, <3>2 DEF Places
  <2>4. ASSUME NEW j \in Ids, Deliver(j) \/ Fail(j) \/ pendingDone(j)
        PROVE  p \in {"sent", "undone", "over"}
    <3>1. \E r \in {"sent", "undone", "over"} : Move(j, r)
      BY <2>4 DEF Deliver, Fail, pendingDone
    <3> QED BY <2>2, <3>1 DEF Places
  <2>5. ASSUME NEW q \in Queues, Take(q) PROVE p = "sending"
    <3>1. Head(queue[q]) \in Ids
      BY <1>0, <2>5, HeadTailProperties DEF PoolTypeOK, Take
    <3> QED BY <2>2, <2>5, <3>1 DEF Take, Places
  <2>6. ASSUME NEW j \in Ids, scheduleResolveRetry(j)
        PROVE  p = "timer" /\ job[i].kind = "resolve"
    <3>1. Moved(j, "timer") /\ job[j].kind = "resolve"
      BY <1>0, <2>6, RetryFacts DEF scheduleResolveRetry, mayRetry
    <3> QED BY <2>1, <3>1 DEF Moved
  <2> QED BY <1>2, <2>3, <2>4, <2>5, <2>6 DEF PoolStep, settle
<1>6. FiresOnce'
  <2> SUFFICES ASSUME NEW j \in Ids
               PROVE  /\ job'[j].kind \in {"fire", "resolve"}
                      /\ job'[j].kind = "fire" => job'[j].retries = 0
    BY <1>4 DEF FiresOnce
  <2>1. CASE j = i
    BY <1>3, <1>4, <1>5, <2>1 DEF IncidentInv, FiresOnce, MovedForward
  <2>2. CASE j # i
    BY <1>3, <2>2 DEF IncidentInv, FiresOnce, MovedForward, Moved
  <2> QED BY <2>1, <2>2
<1>7. ASSUME NEW fp \in FP, Loose(fp)' PROVE Loose(fp)
  <2>1. ASSUME NEW j \in Ids, job'[j].kind = "fire",
               job'[j].at \in {"entering", "waiting", "parked"}
        PROVE  job[j].at \in {"entering", "waiting", "parked"}
    <3>1. CASE j = i
      <4>1. job[i].at \in {"entering", "timer", "waiting", "parked"}
        BY <1>3, <1>5, <2>1, <3>1 DEF MovedForward, Moved
      <4>2. job[i].kind = "fire" /\ job[i].retries = 0
        BY <1>4, <2>1, <3>1 DEF IncidentInv, FiresOnce
      <4>3. job[i].at # "timer"
        BY <1>0, <4>2 DEF TimerMeansRetry
      <4> QED BY <3>1, <4>1, <4>3
    <3>2. CASE j # i
      BY <1>3, <2>1, <3>2 DEF MovedForward, Moved
    <3> QED BY <3>1, <3>2
  <2> QED BY <1>1, <1>4, <1>7, <2>1 DEF Loose
<1>8. \A a, b \in Ids : a # b /\ job[a].fp = job[b].fp /\ InLine(a, b) => InLine(a, b)'
  BY <1>0, <1>2, PoolStepInLine
<1> QED BY <1>1, <1>4, <1>6, <1>7, <1>8

\* A resolve that stays unsent stays last in line.
LEMMA StaysLast ==
    ASSUME IncidentInv, (\E i \in Ids : Worker(i)) \/ (\E q \in Queues : Takes(q)),
           NEW fp \in FP, NEW j \in Ids, LastInLine(j, fp), Unsent(j)'
    PROVE  LastInLine(j, fp)'
<1>1. /\ Ids' = Ids
      /\ \A k \in Ids : job'[k].fp = job[k].fp /\ job'[k].kind = job[k].kind
      /\ \A a, b \in Ids : a # b /\ job[a].fp = job[b].fp /\ InLine(a, b) => InLine(a, b)'
  BY WorkerMoves
<1>2. UnsentResolve(j, fp)'
  BY <1>1 DEF LastInLine, UnsentResolve
<1>3. ASSUME NEW i \in Ids, FireOf(i, fp)' PROVE InLine(i, j)'
  <2>1. FireOf(i, fp) /\ i # j /\ job[i].fp = job[j].fp
    BY <1>1, <1>3 DEF FireOf, LastInLine, UnsentResolve
  <2> QED BY <1>1, <2>1 DEF LastInLine
<1> QED BY <1>1, <1>2, <1>3 DEF LastInLine

\* The alerts that a step of a worker does not concern.
LEMMA CaredInPool ==
    ASSUME IncidentInv, (\E i \in Ids : Worker(i)) \/ (\E q \in Queues : Takes(q)),
           NEW fp \in FP, Cared(fp), fp \in active => fp \in active',
           fp \in open' => Opening(fp),
           \A j \in Ids : job[j].fp = fp /\ Unsent(j)' => Unsent(j),
           \A j \in Ids : UnsentResolve(j, fp) => Unsent(j)'
    PROVE  Cared(fp)'
<1>1. /\ Ids' = Ids /\ doing' = doing
      /\ \A k \in Ids : job'[k].fp = job[k].fp /\ job'[k].kind = job[k].kind
      /\ Loose(fp)' => Loose(fp)
  BY WorkerMoves
<1>2. Opening(fp)' => Opening(fp)
  BY <1>1 DEF Opening, FireOf
<1>3. \A j \in Ids : LastInLine(j, fp) => LastInLine(j, fp)'
  BY StaysLast DEF LastInLine
<1>4. Closing(fp) => Closing(fp)'
  BY <1>1, <1>3 DEF Closing, InHand
<1> QED BY <1>1, <1>2, <1>4 DEF Cared

\* A step that moves an unsent job to where it is unsent still, or a sent one on.
LEMMA QuietCloses ==
    ASSUME IncidentInv, UNCHANGED incidentVars,
           (\E i \in Ids : Moves(i) \/ Retries(i)) \/ (\E q \in Queues : Takes(q))
    PROVE  HandsType' /\ FiresOnce' /\ WillClose'
<1>0. PoolInv /\ PoolTypeOK
  BY DEF IncidentInv, OrderInv, PoolInv
<1>1. FiresOnce' /\ ((\E i \in Ids : Worker(i)) \/ (\E q \in Queues : Takes(q)))
  BY WorkerMoves DEF Worker
<1>2. \A j \in Ids : Unsent(j)' <=> Unsent(j)
  <2>1. ASSUME NEW i \in Ids, NEW r \in Places, Moved(i, r),
               r \in {"sent", "undone", "over"} <=> job[i].at \in {"sent", "undone", "over"}
        PROVE  \A j \in Ids : Unsent(j)' <=> Unsent(j)
    BY <2>1 DEF Unsent, Moved
  <2>2. ASSUME NEW i \in Ids, submit(i) PROVE \A j \in Ids : Unsent(j)' <=> Unsent(j)
    <3>1. PICK r \in {"dropped", "waiting", "parked", "queued"} : Move(i, r)
      BY <2>2 DEF submit, Enter, TryQueue, Unpark, GiveUp
    <3>2. job[i].at \in {"entering", "timer", "waiting", "parked"}
      BY <2>2 DEF submit, Enter, TryQueue, Unpark, GiveUp
    <3>3. Moved(i, r) /\ r \in Places
      BY <1>0, <3>1, MoveFacts DEF Places
    <3> QED BY <2>1, <3>1, <3>2, <3>3
  <2>3. ASSUME NEW i \in Ids, pendingDone(i) PROVE \A j \in Ids : Unsent(j)' <=> Unsent(j)
    <3>1. Moved(i, "over") /\ "over" \in Places /\ job[i].at \in {"sent", "undone"}
      BY <1>0, <2>3, MoveFacts DEF pendingDone, Places
    <3> QED BY <2>1, <3>1
  <2>4. ASSUME NEW i \in Ids, scheduleResolveRetry(i) PROVE \A j \in Ids : Unsent(j)' <=> Unsent(j)
    <3>1. Moved(i, "timer") /\ "timer" \in Places /\ job[i].at = "sending"
      BY <1>0, <2>4, RetryFacts DEF scheduleResolveRetry, Places
    <3> QED BY <2>1, <3>1
  <2>5. ASSUME NEW q \in Queues, Take(q) PROVE \A j \in Ids : Unsent(j)' <=> Unsent(j)
    <3>1. queue[q] \in Seq(Ids) /\ queue[q] # <<>> /\ Move(Head(queue[q]), "sending")
      BY <1>0, <2>5 DEF PoolTypeOK, Take
    <3>2. Head(queue[q]) \in Ids /\ job[Head(queue[q])].at = "queued"
      <4>1. Head(queue[q]) \in Ids /\ Head(queue[q]) = queue[q][1] /\ 1 \in DOMAIN queue[q]
        BY <3>1, HeadTailProperties, LenProperties, EmptySeq
      <4> QED BY <1>0, <4>1 DEF PoolInv, QueuesConsistent
    <3>3. Moved(Head(queue[q]), "sending") /\ "sending" \in Places
      BY <1>0, <3>1, <3>2, MoveFacts DEF Places
    <3> QED BY <2>1, <3>2, <3>3
  <2> QED BY <2>2, <2>3, <2>4, <2>5 DEF Moves, Retries, Takes
<1>3. HandsType' /\ UNCHANGED <<active, open>> /\ Excused' = Excused
  BY DEF IncidentInv, HandsType, incidentVars, excuses, Excused
<1>4. WillClose'
  <2> SUFFICES ASSUME NEW fp \in FP \ Excused PROVE Cared(fp)'
    BY <1>3 DEF WillClose
  <2>1. Cared(fp)
    BY DEF IncidentInv, WillClose
  <2>2. \A j \in Ids : UnsentResolve(j, fp) => Unsent(j)'
    BY <1>2 DEF UnsentResolve
  <2>3. fp \in open' => Opening(fp)
    BY <1>3 DEF Opening
  <2> QED BY <1>1, <1>2, <1>3, <2>1, <2>2, <2>3, CaredInPool
<1> QED BY <1>1, <1>3, <1>4

\* A delivery: a resolve that is sent has no unsent fire before it in line.
LEMMA DeliverCloses ==
    ASSUME IncidentInv, NEW i \in Ids, Delivers(i)
    PROVE  HandsType' /\ FiresOnce' /\ WillClose'
<1>1. /\ Ids' = Ids /\ Worker(i)
      /\ \A j \in Ids : job'[j].fp = job[j].fp /\ job'[j].kind = job[j].kind
      /\ FiresOnce'
      /\ \A fp \in FP : Loose(fp)' => Loose(fp)
  BY WorkerMoves DEF Worker
<1>2. PoolTypeOK /\ \A j \in Ids : job[j] \in JobType
  BY ElementOfSeq, LenProperties DEF IncidentInv, OrderInv, PoolInv, PoolTypeOK, Ids
<1>3. Moved(i, "sent") /\ job[i].at = "sending"
  BY <1>2, MoveFacts DEF Delivers, Deliver, Places
<1>4. UNCHANGED <<active, doing>> /\ Excused' = Excused /\ open' \subseteq FP
  BY <1>2 DEF Delivers, IncidentInv, HandsType, JobType, excuses, Excused
<1>5. HandsType'
  BY <1>4 DEF IncidentInv, HandsType
<1>6. ~Unsent(i)' /\ Unsent(i) /\ \A j \in Ids : j # i => (Unsent(j)' <=> Unsent(j))
  BY <1>3 DEF Unsent, Moved
<1>7. WillClose'
  <2> SUFFICES ASSUME NEW fp \in FP \ Excused, fp \notin active PROVE Cared(fp)'
    BY <1>4 DEF WillClose, Cared
  <2>1. Cared(fp) /\ ~Loose(fp) /\ (Opening(fp) => Closing(fp))
    BY DEF IncidentInv, WillClose, Cared
  <2>2. CASE fp = job[i].fp /\ job[i].kind = "resolve"
    <3> SUFFICES ASSUME Opening(fp)' PROVE Closing(fp)'
      BY <1>1, <2>1 DEF Cared
    <3>1. fp \notin open'
      BY <2>2 DEF Delivers
    <3>2. PICK f \in Ids : FireOf(f, fp)' /\ Unsent(f)'
      BY <1>1, <3>1 DEF Opening
    <3>3. FireOf(f, fp) /\ Unsent(f) /\ f # i
      BY <1>1, <1>6, <3>2 DEF FireOf
    <3>4. Closing(fp)
      BY <2>1, <3>3 DEF Opening
    <3>5. ~LastInLine(i, fp)
      <4> SUFFICES ASSUME InLine(f, i) PROVE FALSE
        BY <3>3 DEF LastInLine
      <4>1. job[f].retries = 0 /\ job[f].at # "over"
        BY <3>3 DEF IncidentInv, FiresOnce, FireOf, Unsent
      <4>2. OrderedPair(f, i)
        BY <4>1 DEF InLine
      <4> QED BY <1>3, <4>2 DEF OrderedPair
    <3>6. ASSUME NEW j \in Ids, LastInLine(j, fp) PROVE LastInLine(j, fp)'
      <4>1. Unsent(j)'
        BY <1>6, <3>5, <3>6 DEF LastInLine, UnsentResolve
      <4> QED BY <1>1, <3>6, <4>1, StaysLast
    <3> QED BY <1>1, <1>4, <3>4, <3>6 DEF Closing, InHand
  <2>3. CASE ~(fp = job[i].fp /\ job[i].kind = "resolve")
    <3>1. fp \in open' => Opening(fp)
      <4> SUFFICES ASSUME fp \in open', fp \notin open PROVE Opening(fp)
        BY DEF Opening
      <4>1. fp = job[i].fp /\ job[i].kind # "resolve"
        BY DEF Delivers
      <4>2. FireOf(i, fp)
        BY <4>1 DEF FireOf, IncidentInv, FiresOnce
      <4> QED BY <1>6, <4>2 DEF Opening
    <3>2. \A j \in Ids : UnsentResolve(j, fp) => Unsent(j)'
      BY <1>6, <2>3 DEF UnsentResolve
    <3>3. \A j \in Ids : Unsent(j)' => Unsent(j)
      BY <1>6
    <3> QED BY <1>1, <1>4, <2>1, <3>1, <3>2, <3>3, CaredInPool
  <2> QED BY <2>2, <2>3
<1> QED BY <1>1, <1>5, <1>7

\* A failed fire is rolled back and a resolve that is given up is dead-lettered:
\* both are marked.
LEMMA FailCloses ==
    ASSUME IncidentInv, NEW i \in Ids, Fails(i)
    PROVE  HandsType' /\ FiresOnce' /\ WillClose'
<1>1. FiresOnce' /\ Worker(i)
  BY WorkerMoves DEF Worker
<1>2. Moved(i, "undone") /\ job[i].at = "sending"
  BY MoveFacts DEF Fails, Fail, Places, IncidentInv, OrderInv, PoolInv
<1>3. /\ UNCHANGED <<doing, open>> /\ Excused' = Excused \cup {job[i].fp}
      /\ \A f \in active : f # job[i].fp => f \in active'
  BY DEF Fails, Excused
<1>4. HandsType'
  BY <1>3 DEF IncidentInv, HandsType
<1>5. \A j \in Ids : j # i => (Unsent(j)' <=> Unsent(j))
  BY <1>2 DEF Unsent, Moved
<1>6. WillClose'
  <2> SUFFICES ASSUME NEW fp \in FP \ Excused' PROVE Cared(fp)'
    BY DEF WillClose
  <2>1. fp \notin Excused /\ fp # job[i].fp
    BY <1>3
  <2>2. Cared(fp)
    BY <2>1 DEF IncidentInv, WillClose
  <2>3. \A j \in Ids : job[j].fp = fp => (Unsent(j)' <=> Unsent(j))
    BY <1>5, <2>1
  <2>4. \A j \in Ids : UnsentResolve(j, fp) => Unsent(j)'
    BY <2>3 DEF UnsentResolve
  <2>5. fp \in open' => Opening(fp)
    BY <1>3 DEF Opening
  <2> QED BY <1>1, <1>3, <2>1, <2>2, <2>3, <2>4, <2>5, CaredInPool
<1> QED BY <1>1, <1>4, <1>6

\* An open incident whose condition is over is known to something that will close
\* it, whatever the goroutines between the store and the pool do and whatever
\* fails, but in three cases: its resolve was dead-lettered, it was resolved while
\* a fire of it was between ShouldSend and the queue (event_emitter.go), or
\* MarkFailed forgot it after a failed fire.
THEOREM IncidentsAreCaredFor == IncidentSpec => []DanglingIsExplained
<1>1. IncidentInv /\ [IncidentNext]_allVars => IncidentInv'
  <2> SUFFICES ASSUME IncidentInv, [IncidentNext]_allVars PROVE IncidentInv'
    OBVIOUS
  <2>1. ASSUME UNCHANGED <<job, queue, active, doing, open, excuses>>
        PROVE  HandsType' /\ FiresOnce' /\ WillClose'
    <3>1. HandsType' /\ FiresOnce'
      BY <2>1 DEF IncidentInv, HandsType, FiresOnce, Ids
    <3>2. Excused' = Excused
      BY <2>1 DEF Excused, excuses
    <3>3. ASSUME NEW fp \in FP, Cared(fp) PROVE Cared(fp)'
      BY <2>1, <3>3, CaredInHands
    <3> QED BY <3>1, <3>2, <3>3 DEF IncidentInv, WillClose
  <2>2. CASE UNCHANGED allVars
    <3>1. UNCHANGED <<job, queue, active, doing, open, excuses>>
      BY <2>2 DEF allVars, poolVars, incidentVars
    <3>2. OrderInv'
      BY <2>2, StepOrder DEF IncidentInv, allVars
    <3> QED BY <2>1, <3>1, <3>2 DEF IncidentInv
  <2>3. CASE IncidentNext
    <3>1. ASSUME NEW fp \in FP, ConditionChanges(fp) \/ MuteEnds(fp)
          PROVE  HandsType' /\ FiresOnce' /\ WillClose'
      <4>1. UNCHANGED <<job, queue, active, doing, open, excuses>>
        BY <3>1 DEF ConditionChanges, MuteEnds, poolVars
      <4> QED BY <2>1, <4>1
    <3>2. ASSUME NEW i \in Ids, Worker(i)
          PROVE  HandsType' /\ FiresOnce' /\ WillClose'
      <4>1. CASE Moves(i) \/ Retries(i)
        BY <4>1, QuietCloses DEF Moves, Retries
      <4>2. CASE Delivers(i)
        BY <4>2, DeliverCloses
      <4>3. CASE Fails(i)
        BY <4>3, FailCloses
      <4> QED BY <3>2, <4>1, <4>2, <4>3 DEF Worker
    <3>3. ASSUME NEW q \in Queues, Takes(q)
          PROVE  HandsType' /\ FiresOnce' /\ WillClose'
      BY <3>3, QuietCloses DEF Takes
    <3>4. OrderInv'
      BY <2>3, IncidentPool
    <3>5. HandsType' /\ FiresOnce' /\ WillClose'
      BY <2>3, <3>1, <3>2, <3>3, ProducersClose, EmitCloses, EnqueueCloses
         DEF IncidentNext, Producer
    <3> QED BY <3>4, <3>5 DEF IncidentInv
  <2> QED BY <2>2, <2>3
<1>2. IncidentInv => DanglingIsExplained
  <2> SUFFICES ASSUME IncidentInv, NEW fp \in open \ Excused, fp \notin active PROVE Known(fp)
    BY DEF DanglingIsExplained, Known
  <2>1. fp \in FP /\ Opening(fp)
    BY DEF IncidentInv, HandsType, Opening
  <2>2. Closing(fp)
    BY <2>1 DEF IncidentInv, WillClose, Cared
  <2>3. \A j \in Ids : LastInLine(j, fp) => j \in pending /\ job[j].fp = fp
    BY DEF LastInLine, UnsentResolve, Unsent, IncidentInv, OrderInv, PoolInv, OutboxIsExact
  <2> QED BY <2>2, <2>3 DEF Closing, InHand, Known
<1> QED BY <1>1, <1>2, IncidentStart, PTL DEF IncidentSpec
=============================================================================
