------------------------------ MODULE EmitPath ------------------------------
(***************************************************************************)
(* makeEmitter with all it calls: the startup grace, the mute window, the  *)
(* rule engine, the router and the store; and the resolver.  Informers     *)
(* deliver the alert of a condition when it begins and at every resync.    *)
(* Every emission runs on a goroutine of its own, whose steps are the      *)
(* critical sections: it may be held up between the clock reading of       *)
(* Observe and the engine's lock.                                          *)
(*                                                                         *)
(* Grouping and failed deliveries are the subject of StandingAlert and     *)
(* Incident and absent here.                                               *)
(***************************************************************************)
EXTENDS RuleEngine

CONSTANTS
    Resync,           \* informerResyncPeriod
    Grace,            \* behavior.startupGraceSeconds
    EscalationSinks,  \* Escalation.Sinks of each rule of Rules
    Saved,            \* ends of the runtime silences that a snapshot may hold
    Stall,            \* bound on the wait for the engine's lock
    MaxSilenced       \* bound on the changes of silences

ASSUME EmitConstants ==
    /\ Resync \in Nat \ {0} /\ Resync < MuteWindow /\ Resync < ResolveTTL
    /\ Grace \in Nat
    /\ Stall \in Nat

VARIABLES
    delivered,  \* the conditions that stand -> their last delivery, 0 for none
    flows,      \* emissions under way: [fp, stage, at]
    changes,    \* number of changes of [conditions, silences]
    told,       \* fp -> the stateful sinks that hold an open incident of it
    history     \* history: when each fingerprint last was down (did not stand),
                \* stood, and was held (down unless it is derived, or with a
                \* reason to be quiet); and the observations in the order of
                \* the engine's lock

emitVars == <<config, activeInhibits, delivered, flows, changes, told>>
pathVars == <<storeVars, silenceVars, engineVars, emitVars, history>>

cond == DOMAIN delivered
graceEnd == engineStart + Grace
inGrace == Grace > 0 /\ now < graceEnd

PathInit ==
    /\ Init
    /\ RouterInit
    /\ EngineInit
    /\ delivered = EmptyMap
    /\ flows = {}
    /\ changes = [conditions |-> 0, silences |-> 0]
    /\ told = [fp \in FP |-> {}]
    /\ history = [down |-> [fp \in FP |-> 1], stood |-> [fp \in FP |-> 0],
                  held |-> [fp \in FP |-> 1], log |-> {}]

-----------------------------------------------------------------------------
(***************************************************************************)
(* The emitter.  Of Muted and Touch or ArmInhibitions, two calls, nothing  *)
(* that happens in between is told apart by the third.                     *)
(***************************************************************************)
\* Muted: the alert is refreshed if it is active.
Refresh(fp) ==
    /\ mutedLocked(fp)
    /\ IF fp \in DOMAIN active THEN Touch(fp) ELSE UNCHANGED storeVars
    /\ ArmInhibitions(fp)

\* An alert enters the pipeline; the engine observes it unless it is derived.
Enter(fp, others) ==
    \/ /\ inGrace
       /\ Seed(fp)
       /\ flows' = others
       /\ UNCHANGED activeInhibits
    \/ /\ ~inGrace
       /\ Refresh(fp)
       /\ flows' = others
    \/ /\ ~inGrace /\ ~mutedLocked(fp)
       /\ flows' = others \cup {[fp |-> fp, at |-> now,
                                 stage |-> IF DOMAIN rules = {} \/ fp \in DOMAIN rules
                                           THEN "route" ELSE "observe"]}
       /\ UNCHANGED <<storeVars, activeInhibits>>

\* The informer delivers the alert of a standing condition.
Deliver(fp) ==
    /\ fp \in cond
    /\ delivered[fp] = 0 \/ now >= delivered[fp] + Resync
    /\ delivered' = [delivered EXCEPT ![fp] = now]
    /\ Enter(fp, flows)
    /\ UNCHANGED <<silenceVars, engineVars, config, changes, told>>

\* A derived alert enters.
Begin(f) ==
    /\ f.stage = "begin"
    /\ Enter(f.fp, flows \ {f})
    /\ UNCHANGED <<silenceVars, engineVars, config, delivered, changes, told>>

begun(fired) == {[fp |-> d, at |-> now, stage |-> "begin"] : d \in fired}

Observe(f) ==
    /\ f.stage = "observe"
    /\ Record(f.fp, f.at)
    /\ flows' = (flows \ {f}) \cup {[f EXCEPT !.stage = "route", !.at = now]}
                              \cup begun(firedBy(f.fp, f.at))
    /\ UNCHANGED <<storeVars, silenceVars, config, activeInhibits, delivered, changes, told>>

Route(f) ==
    /\ f.stage = "route"
    /\ IF Suppresses(f.fp)
       THEN flows' = flows \ {f} /\ UNCHANGED activeInhibits
       ELSE /\ flows' = (flows \ {f}) \cup {[f EXCEPT !.stage = "send"]}
            /\ maybeArmInhibition(f.fp)
    /\ UNCHANGED <<storeVars, silenceVars, engineVars, config, delivered, changes, told>>

Send(f) ==
    /\ f.stage = "send"
    /\ flows' = flows \ {f}
    /\ \/ /\ ShouldSend(f.fp, now)
          /\ told' = [told EXCEPT ![f.fp] = @ \cup keepStateful(sinksOf(f.fp))]
          /\ UNCHANGED activeInhibits
       \/ /\ Refresh(f.fp)
          /\ UNCHANGED told
    /\ UNCHANGED <<silenceVars, engineVars, config, delivered, changes>>

\* The ticker of the engine: absent rules that fire emit their alerts.
Tock ==
    /\ TickDue
    /\ tickedAt' = now
    /\ flows' = flows \cup begun(evalAbsent)
    /\ UNCHANGED <<storeVars, silenceVars, seen, last, engineStart, config, activeInhibits,
                   delivered, changes, told>>

-----------------------------------------------------------------------------
(***************************************************************************)
(* The resolver, the sweeper, and what the cluster and the operators do.   *)
(***************************************************************************)
\* A resolve goes to the sinks that the routes name for the alert.
makeResolver(F) ==
    told' = [fp \in FP |-> IF fp \in F THEN told[fp] \ sinksOf(fp) ELSE told[fp]]

Sweep ==
    /\ ~booting
    /\ \/ /\ makeResolver(Expired) /\ SweepResolved
          /\ UNCHANGED silenceVars
       \/ CleanOldHistory /\ UNCHANGED <<silenceVars, told>>
       \/ PruneExpired /\ UNCHANGED <<storeVars, told>>
    /\ UNCHANGED <<engineVars, config, activeInhibits, delivered, flows, changes>>

\* An escalation goes to the sinks of its rule.
runEscalations(r) ==
    /\ told' = [fp \in FP |-> told[fp] \cup (IF fp \in Overdue(r)
                                             THEN keepStateful(EscalationSinks[r]) ELSE {})]
    /\ MarkOverdue(r)
    /\ UNCHANGED <<silenceVars, engineVars, config, activeInhibits, delivered, flows, changes>>

Begins(fp) ==
    /\ changes.conditions < config.changes /\ changes' = [changes EXCEPT !.conditions = @ + 1]
    /\ ~booting
    /\ fp \in config.watched \ cond
    /\ delivered' = Put(delivered, fp, 0)
    /\ UNCHANGED <<storeVars, silenceVars, engineVars, config, activeInhibits, flows, told>>

\* The condition ends, or its object goes with all its conditions, and Delete
\* resolves its alerts.
Ends(fp) ==
    /\ changes.conditions < config.changes /\ changes' = [changes EXCEPT !.conditions = @ + 1]
    /\ fp \in cond
    /\ \/ /\ delivered' = Without(delivered, {fp})
          /\ UNCHANGED <<storeVars, told>>
       \/ /\ delivered' = Without(delivered, {x \in cond : ObjectOf[x] = ObjectOf[fp]})
          /\ IF OfObject(ObjectOf[fp]) = {} THEN UNCHANGED <<storeVars, told>>
             ELSE ResolveObject(ObjectOf[fp]) /\ makeResolver(OfObject(ObjectOf[fp]))
    /\ UNCHANGED <<silenceVars, engineVars, config, activeInhibits, flows>>

ChangeSilences ==
    /\ changes.silences < MaxSilenced /\ changes' = [changes EXCEPT !.silences = @ + 1]
    /\ ~booting
    /\ config.silenceable # {}
    /\ \/ \E id \in SilenceIds, n \in Lengths : AddSilence(id, config.silenceable, n)
       \/ \E id \in SilenceIds : DeleteSilence(id)
       \/ \E m \in MatcherKinds, n \in Lengths : ApplyCR(m, config.silenceable, now + n)
       \/ ApplyCR("fine", config.silenceable, 0)
       \/ DeleteCR
    /\ UNCHANGED <<storeVars, engineVars, config, activeInhibits, delivered, flows, told>>

Sync ==
    /\ crs # {} \/ rebuiltAt = 0
    /\ Rebuild
    /\ UNCHANGED <<storeVars, engineVars, emitVars>>

\* A cold start, or a snapshot whose runtime silences are restored with it.
Boot ==
    /\ \/ ColdStart /\ UNCHANGED silenceVars
       \/ \E s \in Snapshots, until \in Saved :
            /\ Restore(s)
            /\ Replace([id \in SilenceIds |-> [matches |-> config.silenceable, until |-> until]])
    /\ UNCHANGED <<engineVars, config, activeInhibits, delivered, flows, changes, told>>

TimePasses ==
    /\ ~booting
    /\ \A fp \in cond : delivered[fp] # 0 /\ now < delivered[fp] + Resync
    /\ \A f \in flows : f.stage = "observe" /\ now < f.at + Stall
    /\ SyncerMayWait
    /\ ~TickDue
    /\ now < config.horizon /\ Tick
    /\ UNCHANGED <<silenceVars, engineVars, config, activeInhibits, delivered, flows, changes, told>>

-----------------------------------------------------------------------------
(***************************************************************************)
(* The reasons to be quiet, read off the world instead of the router.      *)
(***************************************************************************)
Quieted(fp) ==
    \/ IsSilenced(fp)
    \/ \E s \in config.silences : fp \in s.matches /\ now < s.until
    \/ \E w \in config.windows : fp \in w.matches /\ InWindow(w, now)

\* Nobody waits for the lock of an engine without rules.
slack == IF DOMAIN rules = {} THEN 0 ELSE Stall

\* <<rule, source>> that may inhibit fp
Inhibitors(fp) ==
    {p \in (DOMAIN inhibitions) \X FP :
        /\ fp \in inhibitions[p[1]].target
        /\ p[2] \in inhibitions[p[1]].source
        /\ inhibitions[p[1]].equal[p[2]] = inhibitions[p[1]].equal[fp]}

\* A source stands, or did less than the inhibition's duration ago; of derived
\* sources nothing is asked.
MayBeInhibited(fp) ==
    \E p \in Inhibitors(fp) :
        \/ p[2] \in cond \cup DOMAIN rules
        \/ /\ history.stood[p[2]] # 0
           /\ now < history.stood[p[2]] + slack + inhibitions[p[1]].duration

Free(fp) == fp \in cond \cup DOMAIN rules /\ ~Quieted(fp) /\ ~MayBeInhibited(fp)

Later(s, t) == IF s < t THEN t ELSE s

\* A source has stood with nothing to quiet it for long enough after the grace
\* to be delivered, and its inhibition outlasts a resync.
MustBeInhibited(fp) ==
    \E p \in Inhibitors(fp) :
        /\ inhibitions[p[1]].duration > Resync + slack
        /\ p[2] \in cond /\ Free(p[2])
        /\ now > Later(history.held[p[2]], graceEnd) + Resync + slack

\* Objects applied at this very moment may not have reached the syncer yet.
MustBeQuiet(fp) ==
    \/ Quieted(fp) /\ (rebuiltAt # 0 \/ crs = {})
    \/ MustBeInhibited(fp)

\* Every step notes what was so before it.
Noted(fp, was, field) == IF was THEN now ELSE history[field][fp]

Note ==
    history' =
        [down |-> [fp \in FP |-> Noted(fp, fp \notin cond, "down")],
         stood |-> [fp \in FP |-> Noted(fp, fp \in cond, "stood")],
         held |-> [fp \in FP |-> Noted(fp, ~Free(fp), "held")],
         log |-> history.log \cup
                 {[fp |-> f.fp, at |-> f.at, no |-> Cardinality(history.log)] :
                     f \in {g \in flows \ flows' : g.stage = "observe"}}]

EmitNext ==
    /\ \/ Boot
       \/ \E fp \in FP : Deliver(fp) \/ Begins(fp) \/ Ends(fp)
       \/ \E f \in flows : Begin(f) \/ Observe(f) \/ Route(f) \/ Send(f)
       \/ Tock
       \/ Sweep
       \/ \E r \in Rules : runEscalations(r)
       \/ ChangeSilences
       \/ Sync
       \/ TimePasses
    /\ Note

EmitSpec == PathInit /\ [][EmitNext]_pathVars

-----------------------------------------------------------------------------
(***************************************************************************)
(* Properties.                                                             *)
(***************************************************************************)
\* Nothing is routed that a silence, a maintenance window or a standing source
\* should keep quiet, however the source's muted re-fires, the expiry of its
\* inhibition, midnight and the syncer's rebuilds fall.
RoutedInStep(fp) ==
    \E f \in flows : f.fp = fp /\ f.stage = "route" /\ [f EXCEPT !.stage = "send"] \in flows' \ flows
QuietWhileSuppressed == [][\A fp \in FP : RoutedInStep(fp) => ~MustBeQuiet(fp)]_pathVars

\* A condition that has stood for longer than a resync with nothing to quiet it,
\* after the grace's seeds have run out, is an active alert: no leftover of a
\* silence, a window or an inhibition that is over, and no seed, hides it.
PagesWhenFree ==
    \A fp \in cond :
        now > Later(history.held[fp], graceEnd + MuteWindow) + Resync + slack =>
            fp \in DOMAIN active /\ now <= active[fp].endsAt

\* The observations that rule d counts in group g, stamped from t on.
Matching(d, g, t) == {o \in history.log' : o.fp \in groupsOf(rules[d])[g] /\ o.at >= t}

Satisfied(d, t) ==
    IF rules[d].type = "count" THEN Cardinality(Matching(d, 1, t)) >= rules[d].threshold
    ELSE \A g \in DOMAIN groupsOf(rules[d]) : Matching(d, g, t) # {}

\* d has fired at this moment.
FiresInStep(d) == \E f \in flows' : f.fp = d /\ f.stage = "begin"

\* An observation makes a count or all rule fire if the observations of its window
\* satisfy it and, stamps that waited for the lock aside, only then, although
\* such stamps are appended out of order and prune trims from the front.
FiresForItsWindow(d) ==
    LET from(extra) == IF now < rules[d].window + extra THEN 0 ELSE now - rules[d].window - extra IN
    /\ Satisfied(d, from(0)) => FiresInStep(d)
    /\ FiresInStep(d) => Satisfied(d, from(2 * slack))

WindowsAreCounted ==
    [][(\E f \in flows \ flows' : f.stage = "observe") =>
        \A d \in DOMAIN seen : FiresForItsWindow(d)]_pathVars

\* The heartbeats of an absent rule, and for how long one that stands may go
\* unobserved after the grace: a mute window, a resync, and a wait for the lock
\* before the notification that mutes it and before the next observation.
Heartbeats(d) == config.watched \cap rules[d].match
Unobserved == MuteWindow + Resync + 2 * slack

\* An absent rule fires only a full window after the start, and not for a
\* heartbeat that stands and has had the time to be observed, provided that the
\* window spans a mute window and a resync: muted heartbeats are not observed.
NoFalseAbsence ==
    [][\A d \in DOMAIN last : FiresInStep(d) =>
        /\ now > engineStart + rules[d].for
        /\ rules[d].for >= Unobserved =>
             \A h \in Heartbeats(d) \cap cond :
                 now <= Later(history.down[h], graceEnd) + Unobserved]_pathVars

\* Heartbeats that stay away are paged: the alert of the rule is active once the
\* window, the seeds of the grace, whatever held the alert itself and a tick of
\* the engine are over.
AbsenceIsPaged ==
    \A d \in DOMAIN last :
        /\ \A h \in Heartbeats(d) : now > history.stood[h] + rules[d].for + AbsentTick
        /\ now > engineStart + rules[d].for + AbsentTick
        /\ now > Later(history.held[d], graceEnd + MuteWindow) + AbsentTick
        => d \in DOMAIN active /\ now <= active[d].endsAt

\* A resolve reaches every incident sink that saw the trigger (comment of Route):
\* none keeps an open incident of an alert that is no longer active.
ResolveReachesTrigger == \A fp \in FP \ DOMAIN active : told[fp] = {}
=============================================================================
