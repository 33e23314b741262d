------------------------------- MODULE Outbox -------------------------------
(***************************************************************************)
(* The durable outbox across process restarts: the dispatcher's pending    *)
(* set is part of every state save, and the next process replays the last  *)
(* one saved, or starts cold when it cannot read it.  A process may crash  *)
(* at any point.                                                           *)
(*                                                                         *)
(* outcome is a history variable with one entry per delivery ever accepted;*)
(* ref says which of them a job of the running process carries.            *)
(***************************************************************************)
EXTENDS Dispatcher, FiniteSets

CONSTANTS
    Boot,        \* the goroutine of runController, which replays the outbox
    Shards,      \* the sets of fingerprints a starting replica may own
    MaxRestarts  \* bound on the number of restarts

ASSUME OutboxConstants ==
    /\ Boot \in Producers
    /\ "escalation" \in Kinds => "fire" \in Kinds
    /\ Shards \subseteq SUBSET FP
    /\ MaxRestarts \in Nat

VARIABLES
    disk,      \* the records of the last state save
    replay,    \* the records this process has still to re-enqueue
    restarts,  \* number of restarts so far
    ref,       \* id -> delivery
    outcome,   \* delivery -> what has become of it
    passed     \* history: the deliveries on the disk of some cold start

outboxVars == <<disk, replay, restarts, ref, outcome, passed>>
vars == <<poolVars, outboxVars>>

Init ==
    /\ PoolInit
    /\ disk = {}
    /\ replay = <<>>
    /\ restarts = 0
    /\ ref = <<>>
    /\ outcome = <<>>
    /\ passed = {}

\* restoreState has returned: the sweeper and the other producers may run.
Booted == replay = <<>> /\ Idle(Boot)

Accept(p) ==
    /\ Booted
    /\ Len(outcome) < MaxJobs
    /\ Enqueue(p)
    /\ ref' = Append(ref, Len(outcome) + 1)
    /\ outcome' = Append(outcome, [fp |-> job'[Len(job')].fp, by |-> p, sent |-> 0,
                                   end |-> "open", saved |-> FALSE, retried |-> FALSE])
    /\ UNCHANGED <<disk, replay, restarts, passed>>

(***************************************************************************)
(* What a step of the pool means for the delivery a job carries.           *)
(***************************************************************************)
Observed(o, from, to, kind) ==
    [o EXCEPT !.sent = IF to = "sent" /\ from # "sent" THEN @ + 1 ELSE @,
              !.retried = @ \/ to = "timer",
              !.end = IF to = "undone" THEN IF kind = "fire" THEN "rolledBack" ELSE "deadLettered"
                      ELSE IF to = "over" /\ from = "sent" THEN "delivered"
                      ELSE @]

PoolRuns ==
    /\ PoolStep
    /\ outcome' = [r \in DOMAIN outcome |->
          IF \E i \in Ids : ref[i] = r
          THEN LET i == CHOOSE i \in Ids : ref[i] = r
               IN  Observed(outcome[r], job[i].at, job'[i].at, job[i].kind)
          ELSE outcome[r]]
    /\ UNCHANGED <<disk, replay, restarts, ref, passed>>

ShutdownRuns == Booted /\ ShutdownStep /\ UNCHANGED outboxVars

(***************************************************************************)
(* State saves.  What order the records are written in does not matter,    *)
(* ReplayPending sorts them.                                               *)
(***************************************************************************)
Record(i) == [id |-> i, fp |-> job[i].fp, kind |-> job[i].kind, ref |-> ref[i]]

PendingSnapshot == {Record(i) : i \in pending}

Saved == {ref[i] : i \in pending}

OnDisk(r) == \E x \in disk : x.ref = r

\* The deliveries that go with the snapshot a cold start did not read.
Overwritten == {r \in passed : outcome[r].end = "open" /\ r \notin Saved}

Persist ==
    /\ disk' = PendingSnapshot
    /\ outcome' = [r \in DOMAIN outcome |->
          [outcome[r] EXCEPT !.saved = @ \/ r \in Saved,
                             !.end = IF r \in Overwritten THEN "overwritten" ELSE @]]
    /\ UNCHANGED <<job, pending, queue, draining, stop, replay, restarts, ref, passed>>

\* A periodic save by the sweeper, which has ended when Shutdown is called.
Save == phase = "run" /\ Booted /\ Persist /\ UNCHANGED phase

\* The save at the end of the controller's shutdown; the process exits soon.
FinalSave == phase = "off" /\ Persist /\ phase' = "saved"

(***************************************************************************)
(* A new process, after an orderly exit or a crash.                        *)
(***************************************************************************)
NewProcess ==
    /\ restarts < MaxRestarts
    /\ restarts' = restarts + 1
    /\ job' = <<>>
    /\ ref' = <<>>
    /\ pending' = {}
    /\ queue' = [q \in Queues |-> <<>>]
    /\ draining' = [q \in Queues |-> FALSE]
    /\ stop' = FALSE
    /\ phase' = "run"
    /\ UNCHANGED disk

\* The k-th smallest member of a set of numbers.
Nth(S, k) == CHOOSE i \in S : Cardinality({j \in S : j < i}) = k - 1

\* The records of the disk with these ids, sorted by id.
Sorted(ids) == [k \in 1..Cardinality(ids) |-> CHOOSE x \in disk : x.id = Nth(ids, k)]

\* Records of objects that another shard owns by now are discarded.
Owned(own) == {x \in disk : x.fp \in own}
Foreign(own) == {x.ref : x \in disk \ Owned(own)}

\* mutation: the newest record is taken for the last one delivered
KeptButLast(own) ==
    LET ids == {x.id : x \in Owned(own)}
    IN  Sorted(ids \ {i \in ids : \A j \in ids : j <= i})

\* mutation: the records are sorted the other way round
KeptReversed(own) ==
    LET kept == Sorted({x.id : x \in Owned(own)})
    IN  [k \in DOMAIN kept |-> kept[Len(kept) + 1 - k]]

Kept(own) == Sorted({x.id : x \in Owned(own)})

Restart(own) ==
    /\ NewProcess
    /\ replay' = Kept(own)
    /\ outcome' = [r \in DOMAIN outcome |->
                      IF r \in Foreign(own) /\ outcome[r].end = "open"
                      THEN [outcome[r] EXCEPT !.end = "foreign"] ELSE outcome[r]]
    /\ UNCHANGED passed

\* The load fails, or the snapshot is of a newer version: nothing is replayed, and
\* the snapshot stays where it is until the first save.
ColdStart ==
    /\ NewProcess
    /\ replay' = <<>>
    /\ passed' = passed \cup {x.ref : x \in disk}
    /\ UNCHANGED outcome

\* A record does not say what it was enqueued as: whatever is not a resolve, an
\* event or a summary is replayed with a rollback, also an escalation.
ReplayedAs(k) == IF k = "escalation" THEN "fire" ELSE k

\* One record after the other, each with a fresh id, before anything else is
\* enqueued; the workers run already.
ReplayPending ==
    /\ replay # <<>>
    /\ enqueue(Boot, Head(replay).fp, ReplayedAs(Head(replay).kind))
    /\ ref' = Append(ref, Head(replay).ref)
    /\ replay' = Tail(replay)
    /\ UNCHANGED <<disk, restarts, outcome, passed>>

-----------------------------------------------------------------------------
Next ==
    \/ \E p \in Producers \ {Boot} : Accept(p)
    \/ PoolRuns
    \/ ShutdownRuns
    \/ Save
    \/ FinalSave
    \/ \E own \in Shards : Restart(own)
    \/ ColdStart
    \/ ReplayPending

Spec == Init /\ [][Next]_vars

-----------------------------------------------------------------------------
(***************************************************************************)
(* Properties.                                                             *)
(***************************************************************************)
\* A delivery that some state save has recorded is lost in one way only.  Until
\* it is delivered, rolled back, dead-lettered or found to be another shard's, it
\* is in the outbox or about to be replayed, whatever crashes in between; if a
\* process started cold it is at least on the disk, where a later process may
\* find it, until the first save after the cold start overwrites it.
SavedIsNeverLost ==
    \A r \in DOMAIN outcome :
        outcome[r].saved /\ outcome[r].end = "open"
            => \/ r \in Saved \cup {replay[k].ref : k \in DOMAIN replay}
               \/ r \in passed /\ OnDisk(r)

\* At least once, but at most once per process: an acknowledged delivery is
\* sent again only by a process that found it in the snapshot.
SentOncePerProcess == \A r \in DOMAIN outcome : outcome[r].sent <= 1 + restarts

\* Replay by id keeps a fire ahead of its resolve: a delivery whose outcome is
\* open is not sent for the first time after a later one of the same producer
\* and fingerprint, restarts included, unless it is a retried resolve or a cold
\* start passed it over (a process after that one may replay it, late).
FirstSent(r) == outcome[r].sent = 0 /\ outcome'[r].sent = 1
LaterOnes(r) == {s \in DOMAIN outcome : r < s /\ outcome[r].by = outcome[s].by
                                              /\ outcome[r].fp = outcome[s].fp}
SendInOrder ==
    \A r \in DOMAIN outcome \ passed :
        FirstSent(r) /\ outcome[r].end = "open" /\ ~outcome[r].retried
            => \A s \in LaterOnes(r) : outcome[s].sent = 0
OrderAcrossRestarts == [][SendInOrder]_vars
=============================================================================
