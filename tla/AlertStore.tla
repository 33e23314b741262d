----------------------------- MODULE AlertStore -----------------------------
(***************************************************************************)
(* The alert store of internal/alert: the set of active alerts, the mute   *)
(* history and the escalation marks, all keyed by fingerprint and guarded  *)
(* by one mutex, so every method is one step.  Go maps are functions whose *)
(* domain is the set of keys present.                                      *)
(*                                                                         *)
(* Time is a counter that only Tick advances.  Time 0 is Go's zero time,   *)
(* which the code treats as "no deadline" in EndsAt.                       *)
(***************************************************************************)
EXTENDS Naturals, Functions

CONSTANTS
    FP,                  \* fingerprints
    Events,              \* the fingerprints of ephemeral events (Alert.Event)
    Objects,             \* watched objects (kind, namespace, name)
    ObjectOf,            \* the object a fingerprint belongs to
    Rules,               \* escalation rule keys
    EscalateAfter,       \* Escalation.AfterMinutes of each rule
    Matches,             \* the fingerprints whose labels a rule matches
    MuteWindow,          \* behavior.muteSeconds
    ResolveTTL,          \* behavior.resolveTTLSeconds
    MinHistoryRetention, \* minHistoryRetention
    Snapshots,           \* the snapshots Restore may be given
    MaxNow,              \* bound on the clock
    MaxGen               \* bound on the number of mutations

Times == Nat
Alerts == [startsAt : Times, endsAt : Times]
IsMap(f, S, T) == DOMAIN f \subseteq S /\ f \in [DOMAIN f -> T]

(***************************************************************************)
(* What Snapshot carries of the store.  A loaded snapshot is untrusted: it *)
(* may hold send times in the future, alerts without a deadline and marks  *)
(* of fingerprints that are not active.  "valid" is the set of entries     *)
(* whose severity and kind are known.                                      *)
(***************************************************************************)
IsSnapshot(s) ==
    /\ s = [active |-> s.active, valid |-> s.valid, lastSent |-> s.lastSent,
            escalated |-> s.escalated]
    /\ IsMap(s.active, FP, Alerts)
    /\ s.valid \subseteq FP
    /\ IsMap(s.lastSent, FP, Times)
    /\ IsMap(s.escalated, FP, SUBSET Rules)

ASSUME StoreConstants ==
    /\ Events \subseteq FP
    /\ ObjectOf \in [FP -> Objects]
    /\ EscalateAfter \in [Rules -> Nat]
    /\ Matches \in [Rules -> SUBSET FP]
    /\ MuteWindow \in Nat
    /\ ResolveTTL \in Nat \ {0}
    /\ MinHistoryRetention \in Nat
    /\ \A s \in Snapshots : IsSnapshot(s)
    /\ MaxNow \in Nat
    /\ MaxGen \in Nat

VARIABLES
    active,     \* fp -> [startsAt, endsAt]
    lastSent,   \* fp -> time of the last recorded send
    escalated,  \* fp -> rules that already escalated it
    gen,        \* bumped by every mutation
    booting,    \* TRUE until restoreState has run
    now,        \* the clock
    notified,   \* history: fp -> time of the last notification it produced,
                \* dropped when the store gives the fingerprint up
    escalations \* history: the <<fp, rule>> pairs handed to escalation since
                \* the fingerprint last became active

durable == <<active, lastSent, escalated>>
storeVars == <<active, lastSent, escalated, gen, booting, now, notified, escalations>>

EmptyMap == [x \in {} |-> x]
Put(f, k, v) == [x \in DOMAIN f \cup {k} |-> IF x = k THEN v ELSE f[x]]
Without(f, K) == Restrict(f, DOMAIN f \ K)

Init ==
    /\ active = EmptyMap
    /\ lastSent = EmptyMap
    /\ escalated = EmptyMap
    /\ gen = 0
    /\ booting = TRUE
    /\ now = 1
    /\ notified = EmptyMap
    /\ escalations = {}

(***************************************************************************)
(* Helpers of the methods.                                                 *)
(***************************************************************************)
mutedLocked(fp) == fp \in DOMAIN lastSent /\ now - lastSent[fp] < MuteWindow

\* mutation: history kept for a quarter of the mute window only
retentionQuartered == MuteWindow \div 4

retention ==
    IF 2 * MuteWindow < MinHistoryRetention THEN MinHistoryRetention ELSE 2 * MuteWindow

\* Every per-fingerprint record of the fingerprints F goes.
dropLocked(F) ==
    /\ active' = Without(active, F)
    /\ lastSent' = Without(lastSent, F)
    /\ escalated' = Without(escalated, F)
    /\ notified' = Without(notified, F)
    /\ escalations' = {p \in escalations : p[1] \notin F}

(***************************************************************************)
(* The methods that the emit path calls.                                   *)
(***************************************************************************)
\* A reminder belongs to the incident that is already active; otherwise the
\* alert starts when its caller says.
startOf(fp, startsAt) == IF fp \in DOMAIN active THEN active[fp].startsAt ELSE startsAt

ShouldSend(fp, startsAt) ==
    /\ ~mutedLocked(fp)
    /\ lastSent' = Put(lastSent, fp, now)
    /\ active' = Put(active, fp,
                     [startsAt |-> startOf(fp, startsAt), endsAt |-> now + ResolveTTL])
    /\ gen' = gen + 1
    /\ notified' = Put(notified, fp, now)
    /\ UNCHANGED <<escalated, booting, now, escalations>>

ShouldSendEvent(fp) ==
    /\ ~mutedLocked(fp)
    /\ lastSent' = Put(lastSent, fp, now)
    /\ gen' = gen + 1
    /\ notified' = Put(notified, fp, now)
    /\ UNCHANGED <<active, escalated, booting, now, escalations>>

Seed(fp) ==
    /\ lastSent' = Put(lastSent, fp, now)
    /\ gen' = gen + 1
    /\ UNCHANGED <<active, escalated, booting, now, notified, escalations>>

Touch(fp) ==
    /\ fp \in DOMAIN active
    /\ active' = [active EXCEPT ![fp].endsAt = now + ResolveTTL]
    /\ gen' = gen + 1
    /\ UNCHANGED <<lastSent, escalated, booting, now, notified, escalations>>

(***************************************************************************)
(* The ways a fingerprint leaves the store.                                *)
(***************************************************************************)
Expired == {fp \in DOMAIN active : active[fp].endsAt # 0 /\ now > active[fp].endsAt}

OfObject(o) == {fp \in DOMAIN active : ObjectOf[fp] = o}

\* The bumps of one call count as one: what matters is that gen moves.
SweepResolved ==
    /\ Expired # {}
    /\ dropLocked(Expired)
    /\ gen' = gen + 1
    /\ UNCHANGED <<booting, now>>

ResolveObject(o) ==
    /\ OfObject(o) # {}
    /\ dropLocked(OfObject(o))
    /\ gen' = gen + 1
    /\ UNCHANGED <<booting, now>>

\* mutation: only the loss of an active alert counts as a change
forgetGenActive(fp) == IF fp \in DOMAIN active THEN gen + 1 ELSE gen

forgetGen(fp) ==
    IF fp \in DOMAIN active \/ fp \in DOMAIN lastSent THEN gen + 1 ELSE gen

\* Forget, and MarkFailed which is the same call: gen moves only if the
\* fingerprint was active or muted.
Forget(fp) ==
    /\ dropLocked({fp})
    /\ gen' = forgetGen(fp)
    /\ UNCHANGED <<booting, now>>

(***************************************************************************)
(* The other calls of the sweep loop.                                      *)
(***************************************************************************)
CleanOldHistory ==
    LET old == {fp \in DOMAIN lastSent : lastSent[fp] + retention < now} IN
    /\ old # {}
    /\ lastSent' = Without(lastSent, old)
    /\ gen' = gen + 1
    /\ UNCHANGED <<active, escalated, booting, now, notified, escalations>>

\* mutation: marking replaces the marks already there
noMarks(fp) == {}

marksOf(fp) == IF fp \in DOMAIN escalated THEN escalated[fp] ELSE {}

\* The alerts a rule escalates now: old enough, matching, and not yet marked.
Overdue(r) ==
    {fp \in DOMAIN active :
        /\ active[fp].startsAt + EscalateAfter[r] < now
        /\ fp \in Matches[r]
        /\ r \notin marksOf(fp)}

MarkOverdue(r) ==
    /\ Overdue(r) # {}
    /\ escalated' = [fp \in DOMAIN escalated \cup Overdue(r) |->
                        marksOf(fp)
                        \cup (IF fp \in Overdue(r) THEN {r} ELSE {})]
    /\ gen' = gen + 1
    /\ escalations' = escalations \cup (Overdue(r) \X {r})
    /\ UNCHANGED <<active, lastSent, booting, now, notified>>

(***************************************************************************)
(* Restore merges a snapshot.  Entries already present win.                *)
(***************************************************************************)
\* mutation: an alert without a deadline is taken as it is
restoredAsIs(a) == a

restored(a) == [a EXCEPT !.endsAt = IF @ = 0 THEN now + ResolveTTL ELSE @]

Admitted(s) == (DOMAIN s.active \cap s.valid) \ DOMAIN active

Restore(s) ==
    LET sent  == {fp \in DOMAIN s.lastSent : s.lastSent[fp] <= now} \ DOMAIN lastSent
        alive == DOMAIN active \cup Admitted(s)
        marks == DOMAIN s.escalated \cap alive
    IN  /\ booting
        /\ lastSent' = [fp \in DOMAIN lastSent \cup sent |->
                           IF fp \in sent THEN s.lastSent[fp] ELSE lastSent[fp]]
        /\ active' = [fp \in alive |->
                        IF fp \in Admitted(s) THEN restored(s.active[fp]) ELSE active[fp]]
        /\ escalated' = [fp \in DOMAIN escalated \cup marks |->
                            marksOf(fp)
                            \cup (IF fp \in marks THEN s.escalated[fp] ELSE {})]
        /\ gen' = gen + 1
        /\ booting' = FALSE
        /\ UNCHANGED <<now, notified, escalations>>

\* No snapshot, a snapshot that cannot be loaded or one of a newer version.
ColdStart ==
    /\ booting
    /\ booting' = FALSE
    /\ UNCHANGED <<active, lastSent, escalated, gen, now, notified, escalations>>

Tick ==
    /\ now < MaxNow
    /\ now' = now + 1
    /\ UNCHANGED <<active, lastSent, escalated, gen, booting, notified, escalations>>

-----------------------------------------------------------------------------
(***************************************************************************)
(* The callers come in any order: emit goroutines, the sweeper, the        *)
(* receiver, and the rollback of a failed delivery.  An alert is stamped   *)
(* with the current time or, by the receiver, with an earlier one.         *)
(***************************************************************************)
Emit(fp) ==
    \/ fp \notin Events /\ \E t \in {now - 1, now} : ShouldSend(fp, t)
    \/ fp \in Events /\ ShouldSendEvent(fp)
    \/ fp \notin Events /\ Seed(fp)
    \/ fp \notin Events /\ Touch(fp)

Call ==
    /\ ~booting
    /\ gen < MaxGen
    /\ \/ \E fp \in FP : Emit(fp)
       \/ SweepResolved
       \/ CleanOldHistory
       \/ \E r \in Rules : MarkOverdue(r)
       \/ \E o \in Objects : ResolveObject(o)
       \/ \E fp \in FP : Forget(fp)

Next ==
    \/ \E s \in Snapshots : Restore(s)
    \/ ColdStart
    \/ Call
    \/ Tick

Spec == Init /\ [][Next]_storeVars

-----------------------------------------------------------------------------
(***************************************************************************)
(* Properties.                                                             *)
(***************************************************************************)
\* The three maps are keyed by fingerprints and hold times, marks and alerts.
TypeOK ==
    /\ IsMap(active, FP, Alerts)
    /\ IsMap(lastSent, FP, Times)
    /\ IsMap(escalated, FP, SUBSET Rules)
    /\ gen \in Nat
    /\ booting \in BOOLEAN
    /\ now \in Nat \ {0}
    /\ IsMap(notified, FP, Times)
    /\ escalations \subseteq FP \X Rules

\* A mark never outlives its alert: only the resolve or the Forget of an active
\* fingerprint drops its marks, so a mark without an alert would be persisted
\* by every Export for ever (Restore's comment), and Forget's gen test, which
\* looks only at active and lastSent, would miss it.
EscalatedOnlyActive == DOMAIN escalated \subseteq DOMAIN active

\* Every active alert has a deadline, so that SweepResolved, which skips a zero
\* EndsAt, gets to it; that includes alerts admitted from any snapshot.
ActiveHasDeadline == \A fp \in DOMAIN active : active[fp].endsAt # 0

\* A record that mutes fp at least as long as its last notification does.
MuteRecord(fp) == fp \in DOMAIN lastSent /\ lastSent[fp] >= notified[fp]

\* While a notification is younger than the mute window and its fingerprint has
\* not been resolved, forgotten or rolled back, the record that mutes the next
\* one is still there: CleanOldHistory never evicts it too early.
MutedUntilWindowEnds ==
    \A fp \in DOMAIN notified :
        now - notified[fp] < MuteWindow => MuteRecord(fp)

\* One rule escalates one incident at most once: a pair that was handed to
\* escalation is still marked, however many reminders came since.
EscalatedOncePerIncident ==
    \A p \in escalations :
        p[1] \in DOMAIN active => p[1] \in DOMAIN escalated /\ p[2] \in escalated[p[1]]

\* A reminder never resets the age of its incident, or a condition that keeps
\* firing would never escalate (comment in ShouldSend).
AgeKept == \A fp \in DOMAIN active \cap DOMAIN active' : active'[fp].startsAt = active[fp].startsAt
IncidentKeepsItsAge == [][AgeKept]_storeVars

\* Whatever changes the state that Export writes also moves the generation, so
\* the sweeper's comparison of generations never skips a needed save.
GenMoves == durable' # durable => gen' > gen
GenCoversDurableState == [][GenMoves]_storeVars
=============================================================================
