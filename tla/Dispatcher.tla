----------------------------- MODULE Dispatcher -----------------------------
(***************************************************************************)
(* The dispatch worker pool of internal/app: producers put deliveries on   *)
(* bounded per-worker queues, one worker per queue sends them, and every   *)
(* accepted delivery stays in the outbox ("pending") until its outcome is  *)
(* final.                                                                  *)
(*                                                                         *)
(* A delivery is carried by one goroutine or one queue slot, so its        *)
(* whereabouts are one value, job[id].at:                                  *)
(*   "entering"  recorded in the outbox, about to enter submit             *)
(*   "waiting"   in submit, holds mu.RLock, wants queueMu                  *)
(*   "parked"    in submit, holds queueMu, the queue is full               *)
(*   "queued"    in the channel                                            *)
(*   "sending"   its worker is in dispatch                                 *)
(*   "sent"      delivered, settle has not acked it                        *)
(*   "undone"    onFail or onDeadLetter has run, settle has not acked it   *)
(*   "timer"     a failed resolve waits out resolveRetryDelay              *)
(*   "dropped"   submit gave it up; only the outbox record is left         *)
(*   "over"      settled                                                   *)
(***************************************************************************)
EXTENDS Naturals, Sequences

CONSTANTS
    Producers,   \* goroutines that call enqueue
    FP,          \* fingerprints
    Kinds,       \* what is enqueued: "fire" has an onFail, "resolve" is
                 \* retried, "once" (event, summary) and "escalation" neither
    Queues,      \* one queue and one worker each
    QueueOf,     \* queueIndex
    Cap,         \* slots per queue
    MaxRetries,  \* maxResolveRetries
    MaxJobs      \* bound on the enqueues of one process

ASSUME DispatcherConstants ==
    /\ Kinds \subseteq {"fire", "resolve", "once", "escalation"}
    /\ QueueOf \in [FP -> Queues]
    /\ Cap \in Nat \ {0}
    /\ MaxRetries \in Nat
    /\ MaxJobs \in Nat

Places == {"entering", "waiting", "parked", "queued", "sending", "sent",
           "undone", "timer", "dropped", "over"}

VARIABLES
    job,       \* sequence of the deliveries of this process, indexed by id
    pending,   \* ids in the outbox
    queue,     \* queue -> sequence of ids
    draining,  \* queue -> submit has dropped a job from it after stop closed
    stop,      \* unblockProducers has closed stop
    phase      \* Shutdown: "run", "lock", "drain", "off" when it has returned,
               \* and "saved" after the controller's final state save

poolVars == <<job, pending, queue, draining, stop, phase>>

Ids == DOMAIN job
closed == phase \in {"drain", "off", "saved"}
At(p) == {i \in Ids : job[i].at = p}
Q(i) == QueueOf[job[i].fp]
Move(i, p) == job' = [job EXCEPT ![i].at = p]

\* The jobs whose goroutine holds mu.RLock, and the one that holds queueMu[q].
InSubmit == At("waiting") \cup At("parked")
Holding(q) == {i \in At("parked") : Q(i) = q}

\* What the worker of a queue has in its hands.
Busy(q) == {i \in At("sending") \cup At("sent") \cup At("undone") : Q(i) = q}

PoolInit ==
    /\ job = <<>>
    /\ pending = {}
    /\ queue = [q \in Queues |-> <<>>]
    /\ draining = [q \in Queues |-> FALSE]
    /\ stop = FALSE
    /\ phase = "run"

(***************************************************************************)
(* enqueue: the id is minted and recorded in the outbox, then submitted.   *)
(* Nothing can see the id before it is recorded, so the two are one step.  *)
(* Submits may still happen in another order than the ids were minted.     *)
(***************************************************************************)
\* A producer is one goroutine: it is busy until submit returns.
Idle(p) ==
    \A i \in Ids : job[i].by = p /\ job[i].retries = 0
        => job[i].at \notin {"entering", "waiting", "parked"}

enqueue(p, fp, k) ==
    /\ Idle(p)
    /\ job' = Append(job, [by |-> p, fp |-> fp, kind |-> k, retries |-> 0, at |-> "entering"])
    /\ pending' = pending \cup {Len(job) + 1}
    /\ UNCHANGED <<queue, draining, stop, phase>>

(***************************************************************************)
(* submit, called by enqueue and by the retry timer.                       *)
(***************************************************************************)
\* mutation: the write lock of Shutdown does not hold submits back
EnterAnyTime(i) ==
    /\ job[i].at \in {"entering", "timer"}
    /\ Move(i, "waiting")
    /\ UNCHANGED <<pending, queue, draining, stop, phase>>

\* mutation: the retry timer does not submit again
EnterFirstTime(i) ==
    /\ job[i].at = "entering"
    /\ phase # "lock"
    /\ Move(i, IF closed THEN "dropped" ELSE "waiting")
    /\ UNCHANGED <<pending, queue, draining, stop, phase>>

\* mu.RLock waits while Shutdown wants the write lock.
Enter(i) ==
    /\ job[i].at \in {"entering", "timer"}
    /\ phase # "lock"
    /\ Move(i, IF closed THEN "dropped" ELSE "waiting")
    /\ UNCHANGED <<pending, queue, draining, stop, phase>>

Room(q) == Len(queue[q]) < Cap

\* queueMu is free: look at draining, then try the queue without blocking.
TryQueue(i) ==
    /\ job[i].at = "waiting"
    /\ Holding(Q(i)) = {}
    /\ IF ~draining[Q(i)] /\ Room(Q(i))
       THEN /\ queue' = [queue EXCEPT ![Q(i)] = Append(@, i)]
            /\ Move(i, "queued")
       ELSE /\ Move(i, IF draining[Q(i)] THEN "dropped" ELSE "parked")
            /\ UNCHANGED queue
    /\ UNCHANGED <<pending, draining, stop, phase>>

Unpark(i) ==
    /\ job[i].at = "parked"
    /\ Room(Q(i))
    /\ queue' = [queue EXCEPT ![Q(i)] = Append(@, i)]
    /\ Move(i, "queued")
    /\ UNCHANGED <<pending, draining, stop, phase>>

GiveUp(i) ==
    /\ job[i].at = "parked"
    /\ stop
    /\ draining' = [draining EXCEPT ![Q(i)] = TRUE]
    /\ Move(i, "dropped")
    /\ UNCHANGED <<pending, queue, stop, phase>>

submit(i) == Enter(i) \/ TryQueue(i) \/ Unpark(i) \/ GiveUp(i)

(***************************************************************************)
(* The workers: take a job, send it, settle the outcome.                   *)
(***************************************************************************)
\* mutation: a worker does not wait for the delivery it has in its hands
TakeEager(q) ==
    /\ queue[q] # <<>>
    /\ Move(Head(queue[q]), "sending")
    /\ queue' = [queue EXCEPT ![q] = Tail(@)]
    /\ UNCHANGED <<pending, draining, stop, phase>>

\* mutation: the job stays on the queue while it is being sent
TakePeek(q) ==
    /\ Busy(q) = {}
    /\ queue[q] # <<>>
    /\ Move(Head(queue[q]), "sending")
    /\ UNCHANGED <<pending, queue, draining, stop, phase>>

Take(q) ==
    /\ Busy(q) = {}
    /\ queue[q] # <<>>
    /\ Move(Head(queue[q]), "sending")
    /\ queue' = [queue EXCEPT ![q] = Tail(@)]
    /\ UNCHANGED <<pending, draining, stop, phase>>

Deliver(i) ==
    /\ job[i].at = "sending"
    /\ Move(i, "sent")
    /\ UNCHANGED <<pending, queue, draining, stop, phase>>

mayRetry(i) == job[i].kind = "resolve" /\ job[i].retries < MaxRetries

\* A failed send: settle rolls back or dead-letters ...
Fail(i) ==
    /\ job[i].at = "sending"
    /\ ~mayRetry(i)
    /\ Move(i, "undone")
    /\ UNCHANGED <<pending, queue, draining, stop, phase>>

\* mutation: the outbox record goes before the retry
scheduleRetryAcked(i) ==
    /\ job[i].at = "sending"
    /\ mayRetry(i)
    /\ job' = [job EXCEPT ![i].at = "timer", ![i].retries = @ + 1]
    /\ pending' = pending \ {i}
    /\ UNCHANGED <<queue, draining, stop, phase>>

\* ... or keeps the outbox record and starts the retry timer.
scheduleResolveRetry(i) ==
    /\ job[i].at = "sending"
    /\ mayRetry(i)
    /\ job' = [job EXCEPT ![i].at = "timer", ![i].retries = @ + 1]
    /\ UNCHANGED <<pending, queue, draining, stop, phase>>

\* mutation: only a delivered job leaves the outbox
pendingDoneIfSent(i) ==
    /\ job[i].at = "sent"
    /\ pending' = pending \ {i}
    /\ Move(i, "over")
    /\ UNCHANGED <<queue, draining, stop, phase>>

pendingDone(i) ==
    /\ job[i].at \in {"sent", "undone"}
    /\ pending' = pending \ {i}
    /\ Move(i, "over")
    /\ UNCHANGED <<queue, draining, stop, phase>>

settle(i) == Deliver(i) \/ Fail(i) \/ scheduleResolveRetry(i) \/ pendingDone(i)

(***************************************************************************)
(* Shutdown                                                                *)
(***************************************************************************)
\* Controller shutdown calls it before anything else.
unblockProducers ==
    /\ ~stop
    /\ stop' = TRUE
    /\ UNCHANGED <<job, pending, queue, draining, phase>>

\* mutation: Shutdown goes for the lock without closing stop
ShutdownLockOnly ==
    /\ phase = "run"
    /\ phase' = "lock"
    /\ UNCHANGED <<job, pending, queue, draining, stop>>

ShutdownLock ==
    /\ phase = "run"
    /\ stop' = TRUE
    /\ phase' = "lock"
    /\ UNCHANGED <<job, pending, queue, draining>>

\* The write lock is granted once no submit holds the read lock.
ShutdownClose ==
    /\ phase = "lock"
    /\ InSubmit = {}
    /\ phase' = "drain"
    /\ UNCHANGED <<job, pending, queue, draining, stop>>

\* The workers are done, or the deadline has passed.
ShutdownReturns ==
    /\ phase = "drain"
    /\ phase' = "off"
    /\ UNCHANGED <<job, pending, queue, draining, stop>>

-----------------------------------------------------------------------------
\* What the pool's own goroutines do.  They go on after Shutdown has returned
\* at its deadline, until the process exits.
PoolStep ==
    \/ \E i \in Ids : submit(i) \/ settle(i)
    \/ \E q \in Queues : Take(q)

ShutdownStep == unblockProducers \/ ShutdownLock \/ ShutdownClose \/ ShutdownReturns

Enqueue(p) == Len(job) < MaxJobs /\ \E fp \in FP, k \in Kinds : enqueue(p, fp, k)

PoolNext ==
    \/ \E p \in Producers : Enqueue(p)
    \/ PoolStep
    \/ ShutdownStep

PoolSpec == PoolInit /\ [][PoolNext]_poolVars

(***************************************************************************)
(* Goroutines and timers make progress, but a send may hang for long (only *)
(* dispatchTimeout ends it): that the sends end is an assumption of its    *)
(* own, for the properties that need it.                                   *)
(***************************************************************************)
FairSpec ==
    /\ PoolSpec
    /\ \A i \in 1..MaxJobs : WF_poolVars(i \in Ids /\ submit(i))
    /\ WF_poolVars(ShutdownClose)

SendsEnd ==
    /\ \A i \in 1..MaxJobs : WF_poolVars(i \in Ids /\ settle(i))
    /\ \A q \in Queues : WF_poolVars(Take(q))

-----------------------------------------------------------------------------
(***************************************************************************)
(* Properties.                                                             *)
(***************************************************************************)
JobType ==
    [by : Producers, fp : FP, kind : Kinds, retries : 0..MaxRetries, at : Places]

\* The sequences and sets of the pool hold deliveries and their ids.
PoolTypeOK ==
    /\ job \in Seq(JobType)
    /\ pending \subseteq Ids
    /\ queue \in [Queues -> Seq(Ids)]
    /\ draining \in [Queues -> BOOLEAN]
    /\ stop \in BOOLEAN
    /\ phase \in {"run", "lock", "drain", "off", "saved"}

\* The outbox holds exactly the deliveries whose outcome is not final, wherever
\* they are: on a queue, with a worker, parked, waiting for a retry timer, or
\* dropped by a shutdown.
OutboxIsExact == pending = {i \in Ids : job[i].at # "over"}

\* A queue holds the deliveries that are on it, each once, at most Cap of them.
QueuesConsistent ==
    \A q \in Queues :
        /\ Len(queue[q]) <= Cap
        /\ \A k \in DOMAIN queue[q] : job[queue[q][k]].at = "queued" /\ Q(queue[q][k]) = q
        /\ \A k, l \in DOMAIN queue[q] : queue[q][k] = queue[q][l] => k = l

\* No submit is between its check of closed and its send when Shutdown has
\* closed the channels: a send on a closed channel panics.
NoSendAfterClose == closed => InSubmit = {}

\* Deliveries of one producer for one fingerprint are attempted in the order
\* they were enqueued, also while a shutdown drops some of them, unless the
\* earlier one is a resolve that is being retried.
Attempted(i) == job[i].at \in {"sending", "sent", "undone", "over"}
EnqueuedBefore(i, j) == i < j /\ job[i].by = job[j].by /\ job[i].fp = job[j].fp
AttemptedInOrder ==
    \A i, j \in Ids :
        EnqueuedBefore(i, j) /\ Attempted(j) => job[i].at = "over" \/ job[i].retries > 0

\* Once submit has dropped a delivery of a queue into the outbox, nothing is
\* put on that queue any more, so nothing of it is delivered ahead of the
\* dropped one (comment on draining).
DropSticks ==
    \A i, j \in Ids :
        (job[i].at = "dropped" /\ job[j].at # "queued" /\ Q(i) = Q(j))
            => job'[j].at # "queued"
NothingOvertakesADrop == [][DropSticks]_poolVars

\* Shutdown gets its write lock although a stuck sink keeps a worker busy and
\* producers were parked on the full queue.
ShutdownGetsLock == (phase = "lock") ~> closed

\* If sends end, a recorded delivery does not stay in limbo: it is settled or,
\* after a shutdown began, left to the next boot.
EveryDeliverySettles ==
    SendsEnd =>
        \A i \in 1..MaxJobs : (i \in pending) ~> (i \notin pending \/ job[i].at = "dropped")
=============================================================================
