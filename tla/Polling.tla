------------------------------- MODULE Polling -------------------------------
(***************************************************************************)
(* A cloud source and one of its resources.  A poll lists the resource at  *)
(* some moment and evaluates it at a later one, or never gets to it: a     *)
(* page, a describe call or a whole list fails, the deadline passes, the   *)
(* list is truncated, an earlier region uses up the time, or the poll      *)
(* panics.  A resource that is gone is not listed any more, and nothing    *)
(* resolves its alerts but the sweeper.                                    *)
(***************************************************************************)
EXTENDS Runner, CloudServices

CONSTANT MaxStatusChanges   \* bound on the changes of the resource's status

VARIABLES
    listed,     \* the status this poll's list returned, as a set of at most one
    evaluated   \* this poll is done with the resource

cloudVars == <<listed, evaluated>>
polling == detector \in DOMAIN Services

Verdict(status) == Services[detector].verdict[status]
Statuses(kind) == DOMAIN Services[kind].verdict

\* A status that fires or resolves is a claim; one that is skipped is none.
CloudClaims(states) ==
    {IF Verdict(s) = Resolve THEN {} ELSE {Verdict(s)} : s \in {x \in states : Verdict(x) # Skip}}

CloudInit(kind) ==
    /\ RunnerInit(TRUE)
    /\ listed = {}
    /\ evaluated = FALSE
    /\ real \in {{s} : s \in Statuses(kind)}

NoCloud == RunnerInit(FALSE) /\ listed = {} /\ evaluated = FALSE

StatusChanges ==
    /\ polling
    /\ changes < MaxStatusChanges
    /\ changes' = changes + 1
    /\ real' \in {{}} \cup {{s} : s \in Statuses(detector)}
    /\ real' # real
    /\ standing' = Hold(CloudClaims(real'), now)
    /\ changedAt' = now
    /\ UNCHANGED <<storeVars, detector, runner, cloudVars>>

StartPoll ==
    /\ polling
    /\ PollBegins
    /\ listed' = {}
    /\ evaluated' = FALSE
    /\ UNCHANGED <<storeVars, subject>>

\* The call that returns the resource: a page, a describe, a full list.
ListReturns ==
    /\ polling
    /\ InTime
    /\ ~evaluated
    /\ listed = {}
    /\ real # {}
    /\ listed' = real
    /\ UNCHANGED <<storeVars, subject, runner, evaluated>>

\* The evaluator: EmitFiring, EmitResolve or nothing.
Evaluate(status) ==
    \/ Verdict(status) = Skip /\ UNCHANGED storeVars
    \/ Verdict(status) = Resolve /\ Clear
    \/ Verdict(status) \notin {Skip, Resolve} /\ Fire(Verdict(status))

\* drainPager: the whole list comes first; then the deadline is checked before
\* each item.
drainPager == Services[detector].list = "Drain"

EvaluatesListed ==
    /\ polling
    /\ poll = "polling"
    /\ drainPager => InTime
    /\ \E s \in listed : Evaluate(s)
    /\ listed' = {}
    /\ evaluated' = TRUE
    /\ UNCHANGED <<subject, runner>>

\* A poll that did not get to a resource, or evaluated what it was before it
\* changed, disturbs what its status claims.
ReturnFromPoll ==
    /\ polling
    /\ PollReturns
    /\ standing' = IF evaluated \/ real = {} THEN standing
                   ELSE Disturb(CloudClaims(real), now)
    /\ listed' = {}
    /\ UNCHANGED <<storeVars, detector, real, changes, changedAt, evaluated>>

StopPolling ==
    /\ polling
    /\ Cancelled
    /\ UNCHANGED <<storeVars, subject, cloudVars>>

CloudMayWait == polling => RunnerMayWait

CloudNext ==
    \/ StatusChanges
    \/ StartPoll
    \/ ListReturns
    \/ EvaluatesListed
    \/ ReturnFromPoll
    \/ StopPolling
=============================================================================
