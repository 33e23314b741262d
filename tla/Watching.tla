------------------------------ MODULE Watching ------------------------------
(***************************************************************************)
(* An informer, the watcher of one kind and one object.  The informer sees *)
(* the changes of the object late, and several at once: what it delivers   *)
(* is the difference between its cache and the present.  Deleting and      *)
(* recreating an object between two deliveries looks like an update.  Pod  *)
(* alerts are emitted by a bounded pool of enrichment goroutines, or       *)
(* inline when the pool is full.                                           *)
(***************************************************************************)
EXTENDS Detection, Watchers

CONSTANTS
    MaxObjectChanges, \* bound on the changes of a watched object
    Resync,          \* informerResyncPeriod
    EnrichWorkers,   \* enrichWorkers
    EnrichTime       \* how long an enrichment may take

ASSUME WatchingConstants ==
    /\ MaxObjectChanges \in Nat
    /\ Resync \in Nat \ {0}
    /\ EnrichWorkers \in Nat \ {0}
    /\ EnrichTime \in Nat

VARIABLES
    allowed,     \* the object passes the namespace and name filters
    cached,      \* the informer's copy, as a set of at most one object
    resyncedAt,  \* when the informer last resynced
    enriching,   \* the enrichments under way: [reason, at]
    replaced,    \* history: the object was deleted since the last delivery
    oomKilled,   \* history: the containers of a pod known to the informer whose
                 \* last death, not delivered yet, was an OOM kill
    oomDue       \* history: the last delivery was the first one after such a death

watchVars == <<allowed, cached, resyncedAt, enriching, replaced, oomKilled, oomDue>>
watching == detector \in Kinds

(***************************************************************************)
(* Claims: what stands about an object as it is.                           *)
(***************************************************************************)
\* The findings of a pod that no other one outranks.
podWorst(pod) ==
    LET all == UNION {standingOf(pod, pod.containers[i]) : i \in DOMAIN pod.containers}
    IN  {r \in all : \A s \in all : severityRank(s) <= severityRank(r)}

ClaimsOf(obj, t) ==
    IF detector = "pod" THEN {podWorst(obj)} \ {{}}
    ELSE {{r} : r \in evaluate(detector, {obj}, obj, TRUE, t)}

WatchClaims(objs, t) == IF allowed THEN UNION {ClaimsOf(o, t) : o \in objs} ELSE {}

(***************************************************************************)
(* The cluster.  A container runs, dies, waits in back-off and is started  *)
(* again; every start after the first counts as a restart.                 *)
(***************************************************************************)
Running(last, n) == [state |-> "running", why |-> "none", last |-> last, restarts |-> n]
Waiting(why, last, n) == [state |-> "waiting", why |-> why, last |-> last, restarts |-> n]
Dead(term, last, n) == [state |-> "terminated", why |-> term, last |-> last, restarts |-> n]

ContainerMoves(c) ==
    CASE c.state = "running" -> {Dead(t, c.last, c.restarts) : t \in Terminations}
      [] c.state = "terminated" ->
            IF c.restarts = MaxRestartCount THEN {}
            ELSE {Running(c.why, c.restarts + 1), Waiting("CrashLoopBackOff", c.why, c.restarts)}
      [] c.state = "waiting" ->
            {Running(c.last, IF c.last = "none" THEN 0 ELSE c.restarts + 1)}
            \cup {Waiting(r, c.last, c.restarts) : r \in {s \in ImageReasons : c.why \in ImageReasons}}

PodMoves(pod) ==
    (UNION {{[pod EXCEPT !.containers[i] = c] : c \in ContainerMoves(pod.containers[i])}
              : i \in DOMAIN pod.containers})
    \cup {[pod EXCEPT !.deleting = TRUE]}
    \cup {[pod EXCEPT !.evicted = TRUE,
                      !.containers = [i \in DOMAIN @ |->
                          IF @[i].state = "running" THEN Dead("SIGKILL", @[i].last, @[i].restarts)
                          ELSE @[i]]]}

\* The other container is fine or waits for its image.
NewPods ==
    {[containers |-> <<side, Running("none", 0)>>, deleting |-> FALSE, evicted |-> FALSE]
        : side \in {Running("none", 0), Waiting("ErrImagePull", "none", 0)}}

New(kind) ==
    CASE kind = "deployment"  -> Deployments
      [] kind = "statefulset" -> StatefulSets
      [] kind = "daemonset"   -> DaemonSets
      [] kind = "hpa"         -> HPAs
      [] kind = "job"         -> Jobs
      [] kind = "pvc"         -> [phase : {"Bound", "Pending", "Lost"}, created : {0, now}]
      [] kind = "node"        -> Nodes
      [] kind = "cronjob"     -> CronJobs
      [] kind = "pod"         -> NewPods

\* What an object can become in one change.
Moves(kind, obj) ==
    CASE kind = "pvc" -> {[obj EXCEPT !.phase = p] : p \in {"Bound", "Pending", "Lost"}}
      [] kind = "cronjob" ->
            {c \in CronJobs : c.sched >= obj.sched /\ c.success >= obj.success}
      [] kind = "pod" -> PodMoves(obj)
      [] OTHER -> New(kind)

WatchInit(kind) ==
    /\ allowed \in IF kind \in Namespaced THEN BOOLEAN ELSE {TRUE}
    /\ cached = {}
    /\ resyncedAt = now
    /\ enriching = {}
    /\ replaced = FALSE
    /\ oomKilled = {}
    /\ oomDue = FALSE
    /\ real \in {{}} \cup {{o} : o \in New(kind)}

NoWatch ==
    /\ allowed = TRUE
    /\ cached = {}
    /\ resyncedAt = now
    /\ enriching = {}
    /\ replaced = FALSE
    /\ oomKilled = {}
    /\ oomDue = FALSE

\* The containers that died in a change of a pod.
Died(old, pod) ==
    {i \in DOMAIN pod.containers :
        pod.containers[i].state = "terminated" /\ old.containers[i].state # "terminated"}

\* A death counts if the informer knows this pod already, until the container
\* dies again.
oomAfter(old, pod) ==
    (oomKilled \ Died(old, pod))
    \cup {i \in Died(old, pod) : /\ pod.containers[i].why = "OOMKilled"
                                 /\ cached # {} /\ ~replaced}

ObjectChanges ==
    /\ watching
    /\ changes < MaxObjectChanges
    /\ changes' = changes + 1
    /\ \/ /\ real = {}
          /\ real' \in {{o} : o \in New(detector)}
          /\ UNCHANGED <<oomKilled, replaced>>
       \/ \E o \in real :
            /\ \E m \in Moves(detector, o) \ {o} :
                /\ real' = {m}
                /\ oomKilled' = IF detector = "pod" THEN oomAfter(o, m) ELSE {}
            /\ UNCHANGED replaced
       \/ /\ real # {}
          /\ real' = {}
          /\ oomKilled' = {}
          /\ replaced' = (cached # {})
    /\ standing' = Hold(WatchClaims(real', now), now)
    /\ changedAt' = now
    /\ oomDue' = FALSE
    /\ UNCHANGED <<storeVars, detector, allowed, cached, resyncedAt, enriching>>

(***************************************************************************)
(* The handlers.                                                           *)
(***************************************************************************)
\* Emits the reasons one after the other on the handler's goroutine.  (At most
\* three; the steps of other goroutines commute with them.)
EmitAll(R) ==
    LET muted == {r \in R : mutedLocked(r)}
        touched == muted \cap DOMAIN active
        sent == R \ muted
    IN  /\ active' = [r \in DOMAIN active \cup sent |->
                        [startsAt |-> startOf(r, now),
                         endsAt |-> IF r \in sent \cup touched THEN now + ResolveTTL
                                    ELSE active[r].endsAt]]
        /\ lastSent' = [r \in DOMAIN lastSent \cup sent |->
                          IF r \in sent THEN now ELSE lastSent[r]]
        /\ notified' = [r \in DOMAIN notified \cup sent |->
                          IF r \in sent THEN now ELSE notified[r]]
        /\ gen' = gen + Cardinality(sent \cup touched)
        /\ UNCHANGED <<escalated, booting, now, escalations>>

\* emitContainerAlert: through the pool, or inline when it is full.
emitContainerAlert(R) ==
    \/ /\ Cardinality(enriching) < EnrichWorkers
       /\ enriching' = enriching \cup {[reason |-> r, at |-> now] : r \in R}
       /\ UNCHANGED storeVars
    \/ /\ Cardinality(enriching) >= EnrichWorkers
       /\ EmitAll(R)
       /\ UNCHANGED enriching

\* handleDiff's change: the filter, then the watcher's evaluate.
Handle(old, obj, resync) ==
    LET R == IF allowed THEN evaluate(detector, old, obj, resync, now) ELSE {} IN
    IF detector = "pod" THEN emitContainerAlert(R) ELSE EmitAll(R) /\ UNCHANGED enriching

\* mutation: the object's alerts are left to the sweeper
deleteQuietly == UNCHANGED storeVars

\* handleDiff's DeleteFunc: the resolve marker.
handleDelete == IF allowed THEN Clear ELSE UNCHANGED storeVars

Delivered ==
    /\ cached' = real
    /\ replaced' = FALSE
    /\ oomKilled' = {}
    /\ oomDue' = (oomDue \/ oomKilled # {})
    /\ UNCHANGED <<subject, allowed, resyncedAt>>

Add ==
    /\ watching
    /\ cached = {}
    /\ \E o \in real : \/ detector \in IncludeAdd /\ Handle({}, o, FALSE)
                       \/ detector \notin IncludeAdd /\ UNCHANGED <<storeVars, enriching>>
    /\ Delivered

Update ==
    /\ watching
    /\ cached # {}
    /\ \E o \in real : Handle(cached, o, FALSE)
    /\ Delivered

ResyncDue == watching /\ now >= resyncedAt + Resync

\* The informer re-delivers its copy, changed or not in the meantime.
ResyncObject ==
    /\ ResyncDue
    /\ \/ \E o \in cached : Handle({o}, o, TRUE)
       \/ cached = {} /\ UNCHANGED <<storeVars, enriching>>
    /\ resyncedAt' = now
    /\ UNCHANGED <<subject, allowed, cached, replaced, oomKilled, oomDue>>

\* Also for a tombstone of an object whose deletion the watch missed.
Delete ==
    /\ watching
    /\ cached # {}
    /\ real = {} \/ replaced
    /\ handleDelete
    /\ cached' = {}
    /\ replaced' = FALSE
    /\ oomKilled' = {}
    /\ oomDue' = FALSE
    /\ UNCHANGED <<subject, allowed, resyncedAt, enriching>>

\* An enrichment goroutine is done and emits.
Enriched ==
    /\ watching
    /\ \E e \in enriching :
        /\ EmitAll({e.reason})
        /\ enriching' = enriching \ {e}
    /\ UNCHANGED <<subject, allowed, cached, resyncedAt, replaced, oomKilled, oomDue>>

WatchMayWait ==
    watching => /\ cached = real
                /\ ~replaced
                /\ ~ResyncDue
                /\ \A e \in enriching : now < e.at + EnrichTime

WatchNext ==
    \/ ObjectChanges
    \/ Add
    \/ Update
    \/ ResyncObject
    \/ Delete
    \/ Enriched
=============================================================================
