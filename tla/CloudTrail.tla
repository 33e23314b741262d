----------------------------- MODULE CloudTrail -----------------------------
(***************************************************************************)
(* The CloudTrail source: each poll looks up the events of a window that   *)
(* reaches back twice the interval, or to the end of the previous window   *)
(* if that is earlier.  The monitored thing is one management event of one *)
(* region; it happens once and has its EventId as a fingerprint.           *)
(***************************************************************************)
EXTENDS Runner

CONSTANT EventId   \* the fingerprint of the event

VARIABLES
    window,    \* [from, to] of the current poll
    prevEnd,   \* where the previous window ended, 0 before the first poll
    looked,    \* this poll has looked up the event's name
    faults,    \* history: failed lookups and overruns since the event
    pages      \* history: how often the event was sent

trailVars == <<window, prevEnd, looked, faults, pages>>
tailing == detector = "CloudTrail"
lookback == 2 * Interval
happened == real # {}

NoTrail ==
    /\ window = [from |-> 0, to |-> 0]
    /\ prevEnd = 0
    /\ looked = FALSE
    /\ faults = 0
    /\ pages = 0

TrailInit == RunnerInit(TRUE) /\ NoTrail /\ real = {}

EventHappens ==
    /\ tailing
    /\ ~happened
    /\ real' \in {{"with id"}, {"without id"}}
    /\ changedAt' = now
    /\ UNCHANGED <<storeVars, detector, changes, standing, runner, trailVars>>

\* mutation: the lookback alone decides
lookbackStart == IF now > lookback THEN now - lookback ELSE 0

windowStart ==
    IF prevEnd # 0 /\ prevEnd + lookback < now THEN prevEnd
    ELSE IF now > lookback THEN now - lookback ELSE 0

StartTrailPoll ==
    /\ tailing
    /\ PollBegins
    /\ window' = [from |-> windowStart, to |-> now]
    /\ prevEnd' = now
    /\ looked' = FALSE
    /\ UNCHANGED <<storeVars, subject, faults, pages>>

\* LookupEvents finds an event from the moment it happens; CloudTrail's own delivery
\* delay is not modelled.
InWindow == happened /\ window.from <= changedAt /\ changedAt <= window.to

\* eventToAlert: the EventId is the fingerprint; an event without one is skipped.
eventToAlert == IF real = {"with id"} THEN {EventId} ELSE {}

\* mutation: events are not deduplicated
emitsAlways ==
    /\ notified' = Put(notified, EventId, now)
    /\ pages' = pages + 1
    /\ UNCHANGED <<active, lastSent, escalated, gen, booting, now, escalations>>

\* makeEmitter on an event.
emits ==
    \/ ShouldSendEvent(EventId) /\ pages' = pages + 1
    \/ mutedLocked(EventId) /\ UNCHANGED <<storeVars, pages>>

\* The lookup of the event's name in its region, all pages of it.
lookupEvent ==
    /\ tailing
    /\ InTime
    /\ ~looked
    /\ looked' = TRUE
    /\ \/ InWindow /\ eventToAlert # {} /\ emits
       \/ ~(InWindow /\ eventToAlert # {}) /\ UNCHANGED <<storeVars, pages>>
    /\ UNCHANGED <<subject, runner, window, prevEnd, faults>>

\* A failed lookup does not fail the poll, and the window moves on.  An overrun
\* delays the next poll; so does the first poll, which no ticker paces yet.
TrailPollReturns ==
    LET failed  == InWindow /\ ~looked
        overran == now > pollStart + (IF ticker = 0 THEN 0 ELSE Interval)
        n       == (IF failed THEN 1 ELSE 0) + (IF happened /\ overran THEN 1 ELSE 0)
    IN  /\ tailing
        /\ PollReturns
        /\ faults' = IF faults + n < 2 THEN faults + n ELSE 2
        /\ UNCHANGED <<storeVars, subject, window, prevEnd, looked, pages>>

StopTrail ==
    /\ tailing
    /\ Cancelled
    /\ UNCHANGED <<storeVars, subject, trailVars>>

TrailMayWait == tailing => RunnerMayWait

TrailNext ==
    \/ EventHappens
    \/ StartTrailPoll
    \/ lookupEvent
    \/ TrailPollReturns
    \/ StopTrail
=============================================================================
