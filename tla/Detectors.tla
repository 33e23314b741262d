------------------------------ MODULE Detectors ------------------------------
(***************************************************************************)
(* The detectors beside each other.  They share the alert store but work   *)
(* on different objects, so a behaviour follows one object: its detector   *)
(* is chosen at the start.                                                 *)
(***************************************************************************)
EXTENDS Polling, CloudTrail, Watching

\* Every alert has a fingerprint.
ASSUME Fingerprints ==
    /\ EventId \in FP
    /\ WatcherReasons \subseteq FP
    /\ \A kind \in DOMAIN Services : \A status \in Statuses(kind) :
          Services[kind].verdict[status] \in FP \cup {Resolve, Skip}
    /\ {Resolve, Skip} \cap FP = {}

detectorVars == <<storeVars, subject, runner, cloudVars, trailVars, watchVars>>
idle == <<runner, cloudVars, trailVars>>

DetectorsInit ==
    /\ Init
    /\ changes = 0
    /\ changedAt = now
    /\ \/ /\ detector \in DOMAIN Services
          /\ CloudInit(detector)
          /\ NoTrail /\ NoWatch
          /\ standing = [c \in CloudClaims(real) |-> now]
       \/ /\ detector = "CloudTrail"
          /\ TrailInit
          /\ NoWatch /\ listed = {} /\ evaluated = FALSE
          /\ standing = EmptyMap
       \/ /\ detector \in Build(FALSE)
          /\ WatchInit(detector)
          /\ NoCloud /\ NoTrail
          /\ standing = [c \in WatchClaims(real, now) |-> now]

\* Time may make a claim: a PVC that stays pending.
TimePasses ==
    /\ CloudMayWait
    /\ TrailMayWait
    /\ WatchMayWait
    /\ Tick
    /\ RunnerTicks
    /\ standing' = IF watching THEN Hold(WatchClaims(real, now + 1), now + 1) ELSE standing
    /\ UNCHANGED <<detector, real, changes, changedAt, cloudVars, trailVars, watchVars>>

DetectorsNext ==
    \/ CloudNext /\ UNCHANGED <<trailVars, watchVars>>
    \/ TrailNext /\ UNCHANGED <<cloudVars, watchVars>>
    \/ WatchNext /\ UNCHANGED idle
    \/ Sweep /\ UNCHANGED <<runner, cloudVars, trailVars, watchVars>>
    \/ TimePasses

DetectorsSpec == DetectorsInit /\ [][DetectorsNext]_detectorVars

-----------------------------------------------------------------------------
(***************************************************************************)
(* Properties.                                                             *)
(***************************************************************************)
\* How long after a change the detector has seen it and made it known, and how
\* long it may still act on what it saw before.
Lag == IF watching THEN Resync + EnrichTime ELSE PollLag
Slack == IF watching THEN EnrichTime ELSE pollDeadline + Teardown

\* Whatever stands about an object is known: a standing condition has an alert
\* that is alive, and a cloud resource that recovered has none, once every poll
\* since then got to it.  That needs a resolveTTL beyond the longest gap between
\* two evaluations.
StandingIsKnown ==
    poll # "stopped" =>
        \A c \in DOMAIN standing : now > standing[c] + Lag => Holds(c)

\* Nothing is re-asserted that does not stand: the deadline of an alert without
\* a claim was set no later than the detector could still act on the old state,
\* so the alert of a deleted cloud resource or an ended event ends.
EndedIsNotReasserted ==
    \A fp \in DOMAIN active :
        fp \notin UNION DOMAIN standing =>
            active[fp].endsAt <= changedAt + Slack + ResolveTTL

\* A deleted object has no alert once its deletion was delivered ("on Delete the
\* object's active alerts resolve immediately rather than waiting out
\* resolveTTL"), pods excepted, whose enrichment may still emit.
DeletedIsCleared ==
    watching /\ detector # "pod" /\ cached = {} => DOMAIN active = {}

\* An OOM kill that is a container's last death when the informer delivers the
\* pod is reported, however fast the container was started again and whatever
\* else is wrong with the pod.
OOMIsReported ==
    oomDue /\ allowed /\ now <= changedAt + ResolveTTL =>
        \E fp \in Critical : Alive(fp) \/ \E e \in enriching : e.reason = fp

\* No event falls between two windows, nor gets lost in one failed lookup or
\* one overrun: it is sent before the windows leave it behind, and in time.
NoEventLost ==
    /\ tailing /\ faults < 2 /\ poll # "stopped"
    /\ changedAt < window.from \/ now > changedAt + 2 * PollLag
    => eventToAlert \subseteq DOMAIN notified

\* Overlapping windows show an event several times; it is sent once, if the mute
\* window outlasts the time in which it is shown.
EventSentOnce == pages <= 1
=============================================================================
