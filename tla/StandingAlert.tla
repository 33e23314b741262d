--------------------------- MODULE StandingAlert ---------------------------
(***************************************************************************)
(* The firing path from a watched condition to the alert store and back:   *)
(* informers re-deliver every object that is in trouble, makeEmitter       *)
(* decides what that means for the store, the sweeper resolves what has    *)
(* not been seen for resolveTTL, failed deliveries roll the store back,    *)
(* and a restarted process goes on from the last state save.               *)
(*                                                                         *)
(* The process is down while booting is TRUE.                              *)
(***************************************************************************)
EXTENDS AlertStore

CONSTANTS
    Resync,      \* informerResyncPeriod
    Grace,       \* behavior.startupGraceSeconds
    Grouping,    \* grouping is enabled
    MaxChanges,  \* bound on the changes in the cluster and of the silences
    MaxRestarts  \* bound on the number of crashes

\* validateBehavior.
ASSUME BehaviorConstants ==
    /\ Resync \in Nat \ {0}
    /\ Resync < MuteWindow
    /\ Resync < ResolveTTL
    /\ Grace \in Nat
    /\ Grouping \in BOOLEAN
    /\ MaxChanges \in Nat
    /\ MaxRestarts \in Nat

VARIABLES
    cond,        \* the fingerprints whose condition holds in the cluster
    suppressed,  \* those that Route answers with nil (silence, maintenance,
                 \* inhibition)
    changes,     \* number of changes so far
    observed,    \* fp -> when this process last emitted it
    synced,      \* the informers have delivered their initial lists
    started,     \* controllerStart
    unsettled,   \* the fires that are in the outbox
    exported,    \* the store part of a save under way, as a set of at most one
    disk,        \* the last state save
    crashes,
    steadySince, \* history: fp -> since when cond has held without suppression
    page,        \* history: fp -> time of its last page, until it is resolved or
                 \* rolled back, or lost because no save was made before a crash
    setback      \* history: when a rollback, or the absorption of a chat-only
                 \* alert by its group, last kept an alert from being active

process == <<synced, started, crashes>>
saves == <<exported, disk>>
cluster == <<cond, suppressed, changes>>
pipeVars == <<cluster, observed, unsettled, process, saves, steadySince, page, setback>>
allVars == <<storeVars, pipeVars>>

PipeInit ==
    /\ Init
    /\ cond = {}
    /\ suppressed = {}
    /\ changes = 0
    /\ observed = EmptyMap
    /\ synced = FALSE
    /\ started = 0
    /\ unsettled = {}
    /\ exported = {}
    /\ disk = [store |-> [active |-> EmptyMap, valid |-> FP, lastSent |-> EmptyMap,
                          escalated |-> EmptyMap],
               pending |-> {}]
    /\ crashes = 0
    /\ steadySince = EmptyMap
    /\ page = EmptyMap
    /\ setback = 0

(***************************************************************************)
(* The cluster.  Deleting an object sends the resolve marker through the   *)
(* emitter, which clears every alert of the object.                        *)
(***************************************************************************)
Changes == changes < MaxChanges /\ changes' = changes + 1

ConditionStarts(fp) ==
    /\ Changes
    /\ fp \notin cond
    /\ cond' = cond \cup {fp}
    /\ observed' = Without(observed, {fp})
    /\ steadySince' = IF fp \in suppressed THEN steadySince ELSE Put(steadySince, fp, now)
    /\ UNCHANGED <<storeVars, suppressed, unsettled, process, saves, page, setback>>

ConditionEnds(fp) ==
    /\ Changes
    /\ fp \in cond
    /\ cond' = cond \ {fp}
    /\ steadySince' = Without(steadySince, {fp})
    /\ UNCHANGED <<storeVars, suppressed, observed, unsettled, process, saves, page, setback>>

ObjectDeleted(o) ==
    LET F == {fp \in FP : ObjectOf[fp] = o} IN
    /\ Changes
    /\ ~booting
    /\ synced
    /\ \/ ResolveObject(o)
       \/ OfObject(o) = {} /\ UNCHANGED storeVars
    /\ cond' = cond \ F
    /\ steadySince' = Without(steadySince, F)
    /\ page' = Without(page, F)
    /\ UNCHANGED <<suppressed, observed, unsettled, process, saves, setback>>

\* A silence, a maintenance window or an inhibition begins or ends.
SuppressionChanges(fp) ==
    /\ Changes
    /\ IF fp \in suppressed
       THEN /\ suppressed' = suppressed \ {fp}
            /\ steadySince' = IF fp \in cond THEN Put(steadySince, fp, now) ELSE steadySince
       ELSE /\ suppressed' = suppressed \cup {fp}
            /\ steadySince' = Without(steadySince, {fp})
    /\ UNCHANGED <<storeVars, cond, observed, unsettled, process, saves, page, setback>>

(***************************************************************************)
(* makeEmitter, for a firing alert that is not an event.  An absorbed      *)
(* alert with a chat-only route is seeded like one in the startup grace.   *)
(***************************************************************************)
\* mutation: the grace never ends
InGraceForever == Grace > 0

InGrace == now - started < Grace

Goes(fp) == ~InGrace /\ ~mutedLocked(fp) /\ fp \notin suppressed

\* mutation: a muted alert is not kept alive
NoTouchIfMuted(fp) == ~InGrace /\ mutedLocked(fp) /\ UNCHANGED storeVars

TouchIfMuted(fp) ==
    /\ ~InGrace
    /\ mutedLocked(fp)
    /\ Touch(fp) \/ (fp \notin DOMAIN active /\ UNCHANGED storeVars)

Emitter(fp) ==
    \/ InGrace /\ Seed(fp) /\ UNCHANGED <<unsettled, page, setback>>
    \/ TouchIfMuted(fp) /\ UNCHANGED <<unsettled, page, setback>>
    \/ /\ ~InGrace
       /\ ~mutedLocked(fp)
       /\ fp \in suppressed
       /\ UNCHANGED <<storeVars, unsettled, page, setback>>
    \/ Goes(fp) /\ Grouping /\ Seed(fp) /\ setback' = now /\ UNCHANGED <<unsettled, page>>
    \/ /\ Goes(fp)
       /\ ShouldSend(fp, now)
       /\ unsettled' = unsettled \cup {fp}
       /\ page' = Put(page, fp, now)
       /\ UNCHANGED setback

\* An informer delivers the object: a watch event, the initial list or a
\* resync.  (Bound: once per time unit.)
Observe(fp) ==
    /\ ~booting
    /\ fp \in cond
    /\ fp \in DOMAIN observed => observed[fp] < now
    /\ Emitter(fp)
    /\ observed' = Put(observed, fp, now)
    /\ UNCHANGED <<cluster, process, saves, steadySince>>

\* The dispatcher settles a fire: acked, or every sink failed and onFail calls
\* MarkFailed.
Settle(fp) ==
    /\ ~booting
    /\ fp \in unsettled
    /\ unsettled' = unsettled \ {fp}
    /\ \/ UNCHANGED <<storeVars, page, setback>>
       \/ /\ Forget(fp)
          /\ page' = Without(page, {fp})
          /\ setback' = now
    /\ UNCHANGED <<cluster, observed, process, saves, steadySince>>

(***************************************************************************)
(* The sweeper starts when the informers have synced.                      *)
(***************************************************************************)
Sweep ==
    /\ ~booting
    /\ synced
    /\ exported = {}
    /\ \/ SweepResolved /\ page' = Without(page, Expired)
       \/ CleanOldHistory /\ UNCHANGED page
    /\ UNCHANGED <<cluster, observed, unsettled, process, saves, steadySince, setback>>

\* A save reads the store, then the outbox: other goroutines run in between.
Export ==
    /\ ~booting
    /\ synced
    /\ exported = {}
    /\ exported' = {[active |-> active, valid |-> FP, lastSent |-> lastSent,
                     escalated |-> escalated]}
    /\ UNCHANGED <<storeVars, cluster, observed, unsettled, process, disk,
                   steadySince, page, setback>>

Save ==
    /\ ~booting
    /\ \E e \in exported : disk' = [store |-> e, pending |-> unsettled]
    /\ exported' = {}
    /\ UNCHANGED <<storeVars, cluster, observed, unsettled, process,
                   steadySince, page, setback>>

Crash ==
    /\ ~booting
    /\ crashes < MaxRestarts
    /\ crashes' = crashes + 1
    /\ booting' = TRUE
    /\ synced' = FALSE
    /\ active' = EmptyMap
    /\ lastSent' = EmptyMap
    /\ escalated' = EmptyMap
    /\ gen' = 0
    /\ notified' = EmptyMap
    /\ escalations' = {}
    /\ observed' = EmptyMap
    /\ unsettled' = {}
    /\ exported' = {}
    /\ page' = Restrict(page, {fp \in DOMAIN page : /\ fp \in DOMAIN disk.store.lastSent
                                                    /\ disk.store.lastSent[fp] >= page[fp]})
    /\ UNCHANGED <<now, cluster, started, disk, steadySince, setback>>

\* restoreState, then the informers start.
Boot ==
    /\ Restore(disk.store)
    /\ unsettled' = disk.pending
    /\ started' = now
    /\ UNCHANGED <<cluster, observed, synced, crashes, saves, steadySince, page, setback>>

\* The load fails: nothing is known of earlier pages.
BootCold ==
    /\ ColdStart
    /\ started' = now
    /\ page' = EmptyMap
    /\ UNCHANGED <<cluster, observed, unsettled, synced, crashes, saves, steadySince, setback>>

\* The initial lists are handled well within the sweeper's first interval.
InitialSync ==
    /\ ~booting
    /\ ~synced
    /\ cond \subseteq DOMAIN observed
    /\ synced' = TRUE
    /\ UNCHANGED <<storeVars, cluster, observed, unsettled, started, crashes, saves,
                   steadySince, page, setback>>

\* A standing condition is observed when it starts and at every resync.
Due(fp) == fp \notin DOMAIN observed \/ now - observed[fp] >= Resync

TimePasses ==
    /\ booting \/ synced
    /\ booting \/ \A fp \in cond : ~Due(fp)
    /\ Tick
    /\ UNCHANGED pipeVars

PipeNext ==
    \/ \E fp \in FP : \/ ConditionStarts(fp) \/ ConditionEnds(fp) \/ SuppressionChanges(fp)
                      \/ Observe(fp) \/ Settle(fp)
    \/ \E o \in Objects : ObjectDeleted(o)
    \/ Sweep
    \/ Export
    \/ Save
    \/ Crash
    \/ Boot
    \/ BootCold
    \/ InitialSync
    \/ TimePasses

PipeSpec == PipeInit /\ [][PipeNext]_allVars

-----------------------------------------------------------------------------
(***************************************************************************)
(* Properties.                                                             *)
(***************************************************************************)
\* Resyncs keep the alert of a standing condition alive once the startup grace
\* is over, through rollbacks, restarts and absorbed reminders: two resyncs after
\* that its deadline is never in the past when the sweeper may run.  With grouping
\* this takes a resolveTTL of two resyncs: an absorbed reminder does not refresh.
AfterGrace(fp) ==
    IF steadySince[fp] < started + Grace THEN started + Grace ELSE steadySince[fp]
AliveWhileStanding ==
    ~booting /\ synced =>
        \A fp \in DOMAIN active \cap DOMAIN steadySince :
            now > AfterGrace(fp) + 2 * Resync => now <= active[fp].endsAt

\* One mute window lies between two pages of one incident, however its condition
\* comes and goes, and also across a restart if the first page was saved (comment
\* on restoreState).
PagesSpaced ==
    \A fp \in DOMAIN page \cap DOMAIN page' :
        page'[fp] # page[fp] => page'[fp] >= page[fp] + MuteWindow
NoRepageWhileStanding == [][PagesSpaced]_allVars

\* The startup grace only delays: a condition that has stood for the grace, a
\* mute window and a resync is active, unless a rollback or an absorbing group
\* came in between.
StandingBecomesActive ==
    ~booting /\ synced =>
        \A fp \in DOMAIN steadySince :
            (\A t \in {steadySince[fp], started, setback} :
                now > t + Grace + MuteWindow + Resync)
                => fp \in DOMAIN active
=============================================================================
