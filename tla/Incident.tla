------------------------------ MODULE Incident ------------------------------
(***************************************************************************)
(* The life of a stateful incident (PagerDuty, Opsgenie) end to end: the   *)
(* watched condition, the alert store, the goroutines between the store    *)
(* and the dispatch pool, the pool, and the sink that opens an incident on *)
(* a fire and closes it on a resolve.                                      *)
(*                                                                         *)
(* The store is reduced to which fingerprints are active and muted; that   *)
(* an active alert whose condition stands is not swept is StandingAlert's  *)
(* subject.  A producer goes from the store to the pool in several steps,  *)
(* so the steps of another one fall in between.  The process runs on.      *)
(***************************************************************************)
EXTENDS Dispatcher, FiniteSets

CONSTANTS
    Failing,  \* the kinds of delivery that may fail at every sink
    Received  \* the fingerprints that the webhook receiver is told of

ASSUME IncidentConstants ==
    /\ {"fire", "resolve"} \subseteq Kinds
    /\ Failing \subseteq Kinds
    /\ Received \subseteq FP

VARIABLES
    cond,       \* fingerprints whose condition holds in the cluster
    active,     \* Store.active
    muted,      \* fingerprints inside their mute window
    doing,      \* producer -> the alert in its hands: "enrich" before it asks
                \* the store, then what it is going to enqueue
    open,       \* external: fingerprints with an open incident at the sink
    \* history, each until the alert fires again:
    lost,       \* its resolve was dead-lettered
    overtaken,  \* resolved while a fire was on its way to the queue
    rolledBack  \* forgotten by MarkFailed

excuses == <<lost, overtaken, rolledBack>>
incidentVars == <<cond, active, muted, doing, open, excuses>>
allVars == <<poolVars, incidentVars>>

Nothing == [fp |-> 0, step |-> "none"]
Free(p) == doing[p] = Nothing /\ Idle(p)
Hands(p, fp, step) == doing' = [doing EXCEPT ![p] = [fp |-> fp, step |-> step]]
LetsGo(p) == doing' = [doing EXCEPT ![p] = Nothing]

IncidentInit ==
    /\ PoolInit
    /\ cond = {}
    /\ active = {}
    /\ muted = {}
    /\ doing = [p \in Producers |-> Nothing]
    /\ open = {}
    /\ lost = {}
    /\ overtaken = {}
    /\ rolledBack = {}

\* Bound: after n more enqueues there is room for what the producers have in their
\* hands, with its resolve, and for the resolves of the active alerts.
RoomFor(n) ==
    Len(job) + 2 * Cardinality({p \in Producers : doing[p] # Nothing})
             + Cardinality(active) + n <= MaxJobs

ConditionChanges(fp) ==
    /\ cond' = IF fp \in cond THEN cond \ {fp} ELSE cond \cup {fp}
    /\ UNCHANGED <<poolVars, active, muted, doing, open, excuses>>

MuteEnds(fp) ==
    /\ fp \in muted
    /\ muted' = muted \ {fp}
    /\ UNCHANGED <<poolVars, cond, active, doing, open, excuses>>

(***************************************************************************)
(* The firing path.  Pods are enriched on a goroutine of their own before  *)
(* the emitter sees them, and a request of the receiver goes through its   *)
(* items one by one.                                                       *)
(***************************************************************************)
Evaluate(p, fp) ==
    /\ Free(p)
    /\ fp \in cond
    /\ RoomFor(2)
    /\ Hands(p, fp, "enrich")
    /\ UNCHANGED <<poolVars, cond, active, muted, open, excuses>>

\* Muted, Touch and ShouldSend: a muted alert goes no further.
emit(p) ==
    LET fp == doing[p].fp IN
    /\ doing[p].step = "enrich"
    /\ IF fp \in muted
       THEN LetsGo(p) /\ UNCHANGED <<active, muted, excuses>>
       ELSE /\ active' = active \cup {fp}
            /\ muted' = muted \cup {fp}
            /\ lost' = lost \ {fp}
            /\ overtaken' = overtaken \ {fp}
            /\ rolledBack' = rolledBack \ {fp}
            /\ Hands(p, fp, "fire")
    /\ UNCHANGED <<poolVars, cond, open>>

(***************************************************************************)
(* The resolving path: SweepResolved after the TTL, or ResolveObject when  *)
(* the object is deleted.                                                  *)
(***************************************************************************)
\* A fire has passed ShouldSend and is not on the queue yet.
Loose(fp) ==
    \/ \E p \in Producers : doing[p].fp = fp /\ doing[p].step = "fire"
    \/ \E i \in Ids : /\ job[i].fp = fp /\ job[i].kind = "fire"
                      /\ job[i].at \in {"entering", "waiting", "parked"}

Forgets(fp) ==
    /\ active' = active \ {fp}
    /\ muted' = muted \ {fp}
    /\ overtaken' = overtaken \cup {f \in {fp} : Loose(f)}
    /\ UNCHANGED <<lost, rolledBack>>

\* mutation: the alert is dropped like a forgotten one, without a resolve
resolveQuietly(p, fp) ==
    /\ Free(p)
    /\ fp \in active \ cond
    /\ Forgets(fp)
    /\ UNCHANGED <<poolVars, cond, doing, open>>

resolve(p, fp) ==
    /\ Free(p)
    /\ fp \in active \ cond
    /\ Forgets(fp)
    /\ Hands(p, fp, "resolve")
    /\ UNCHANGED <<poolVars, cond, open>>

\* The alert is forgotten first, so that the sweep does not resolve it as well,
\* and resolved whether or not this process knew of it.  (Bound: what it did not
\* know of leaves room for a fire and its resolve.)
onResolved(p, fp) ==
    /\ Free(p)
    /\ fp \in active \/ RoomFor(3)
    /\ Forgets(fp)
    /\ Hands(p, fp, "resolve")
    /\ UNCHANGED <<poolVars, cond, open>>

\* One item of a request: its upstream sends what holds, as often as it likes.
ServeHTTP(p, fp) ==
    /\ fp \in Received
    /\ \/ fp \in cond /\ Evaluate(p, fp)
       \/ fp \notin cond /\ onResolved(p, fp)

Enqueues(p) ==
    /\ doing[p].step \in {"fire", "resolve"}
    /\ Len(job) < MaxJobs
    /\ enqueue(p, doing[p].fp, doing[p].step)
    /\ LetsGo(p)
    /\ UNCHANGED <<cond, active, muted, open, excuses>>

(***************************************************************************)
(* The pool, the sink and the rollback.                                    *)
(***************************************************************************)
Moves(i) ==
    /\ submit(i) \/ pendingDone(i)
    /\ UNCHANGED incidentVars

Takes(q) == Take(q) /\ UNCHANGED incidentVars

\* The sink opens and closes incidents keyed by fingerprint.
Delivers(i) ==
    /\ Deliver(i)
    /\ open' = IF job[i].kind = "resolve" THEN open \ {job[i].fp} ELSE open \cup {job[i].fp}
    /\ UNCHANGED <<cond, active, muted, doing, excuses>>

\* A failed fire calls MarkFailed; an exhausted resolve is dead-lettered.
Fails(i) ==
    LET gone == {job[i].fp} IN
    /\ job[i].kind \in Failing
    /\ Fail(i)
    /\ IF job[i].kind = "fire"
       THEN /\ active' = active \ gone
            /\ muted' = muted \ gone
            /\ rolledBack' = rolledBack \cup gone
            /\ UNCHANGED lost
       ELSE lost' = lost \cup gone /\ UNCHANGED <<active, muted, rolledBack>>
    /\ UNCHANGED <<cond, doing, open, overtaken>>

Retries(i) ==
    /\ job[i].kind \in Failing
    /\ scheduleResolveRetry(i)
    /\ UNCHANGED incidentVars

Worker(i) == i \in Ids /\ (Moves(i) \/ Delivers(i) \/ Fails(i) \/ Retries(i))

Producer(p) == emit(p) \/ Enqueues(p)

IncidentNext ==
    \/ \E fp \in FP : ConditionChanges(fp) \/ MuteEnds(fp)
    \/ \E p \in Producers, fp \in FP : Evaluate(p, fp) \/ resolve(p, fp) \/ ServeHTTP(p, fp)
    \/ \E p \in Producers : Producer(p)
    \/ \E i \in Ids : Worker(i)
    \/ \E q \in Queues : Takes(q)

IncidentSpec == IncidentInit /\ [][IncidentNext]_allVars

\* Goroutines and workers go on, and the sweeper gets to an expired alert.
FairIncidentSpec ==
    /\ IncidentSpec
    /\ \A p \in Producers : WF_allVars(Producer(p))
    /\ \A p \in Producers, fp \in FP : WF_allVars(resolve(p, fp))
    /\ \A i \in 1..MaxJobs : WF_allVars(Worker(i))
    /\ \A q \in Queues : WF_allVars(Takes(q))

-----------------------------------------------------------------------------
(***************************************************************************)
(* Properties.                                                             *)
(***************************************************************************)
\* Something in the process still knows of fp: its condition, its active alert,
\* a goroutine or a delivery.
Known(fp) ==
    \/ fp \in cond \cup active
    \/ \E p \in Producers : doing[p].fp = fp
    \/ \E i \in pending : job[i].fp = fp

\* No incident dangles: an open incident whose condition is over is known to
\* something that will close it, unless its resolve was dead-lettered ("resolves
\* always follow their trigger", CHANGELOG.md).
NoDanglingIncident == \A fp \in open \ lost : Known(fp)

\* What the program keeps of that claim.  An open incident is forgotten in three
\* ways only: its resolve was dead-lettered; it was resolved by one goroutine
\* while the fire of another was between ShouldSend and the queue; or a fire of it
\* failed and MarkFailed forgot it although an earlier one had opened it.  Each
\* excuses it only until it fires again.
Excused == lost \cup overtaken \cup rolledBack
DanglingIsExplained == \A fp \in open \ Excused : Known(fp)

\* An incident is closed once its condition is over, however often the resolve
\* has to be retried and whoever else fires and resolves, unless the condition
\* returns or it is forgotten in one of these ways.
IncidentEnds ==
    \A fp \in FP : (fp \in open \ cond) ~> (fp \notin open \/ fp \in cond \cup Excused)
=============================================================================
