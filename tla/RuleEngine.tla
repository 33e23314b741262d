----------------------------- MODULE RuleEngine -----------------------------
(***************************************************************************)
(* The rule engine of internal/rules.  A rule is named by the fingerprint  *)
(* of the alert that it derives:                                           *)
(*   [type |-> "count", match, threshold, window]                          *)
(*   [type |-> "all", groups, window]      groups: a sequence of matches   *)
(*   [type |-> "absent", match, for]                                       *)
(* Observe reads the clock before it takes the lock, so that stamps may be *)
(* appended out of order; prune trims from the front only.                 *)
(***************************************************************************)
EXTENDS Router

CONSTANTS AbsentTick   \* absentTick

\* What validateRuleCondition accepts.
IsRule(r) ==
    \/ r.type = "count" /\ r.threshold \in Nat \ {0} /\ r.window \in Nat \ {0}
    \/ r.type = "all" /\ r.groups \in Seq(SUBSET FP) \ {<<>>} /\ r.window \in Nat \ {0}
    \/ r.type = "absent" /\ r.for \in Nat \ {0}

\* A derived alert has the kind Derived, and so a fingerprint and an object of its
\* own.
ASSUME EngineConstants ==
    /\ AbsentTick \in Nat \ {0}
    /\ \A c \in Configs :
          /\ c.watched \subseteq FP /\ DOMAIN c.rules \subseteq FP
          /\ \A d \in DOMAIN c.rules :
                /\ IsRule(c.rules[d])
                /\ \A fp \in c.watched : fp # d /\ ObjectOf[fp] # ObjectOf[d]

VARIABLES
    seen,        \* count and all rules: rule -> a sequence of stamps per group
    last,        \* absent rules: rule -> last match, 0 for never
    engineStart, \* Engine.start
    tickedAt     \* when the absent rules were last evaluated

engineVars == <<seen, last, engineStart, tickedAt>>
rules == config.rules
rulesOf(types) == {d \in DOMAIN rules : rules[d].type \in types}

\* The matches of a rule, one per group.
groupsOf(r) == IF r.type = "all" THEN r.groups ELSE <<r.match>>

EngineInit ==
    /\ seen = [d \in rulesOf({"count", "all"}) |-> [g \in DOMAIN groupsOf(rules[d]) |-> <<>>]]
    /\ last = [d \in rulesOf({"absent"}) |-> 0]
    /\ engineStart = now
    /\ tickedAt = now

\* mutation: a stamp at the edge of the window is dropped
pruneEdge(ts, t, d) ==
    LET old == {i \in DOMAIN ts : \A j \in 1..i : ts[j] + d <= t}
    IN  SubSeq(ts, Cardinality(old) + 1, Len(ts))

\* Drops the leading stamps before t - d.
prune(ts, t, d) ==
    LET old == {i \in DOMAIN ts : \A j \in 1..i : ts[j] + d < t}
    IN  SubSeq(ts, Cardinality(old) + 1, Len(ts))

allGroupsActive(groups) == groups # <<>> /\ \A g \in DOMAIN groups : groups[g] # <<>>

\* The groups of a rule after an observation of fp stamped t.
appended(d, fp, t) ==
    [g \in DOMAIN seen[d] |->
        prune(IF fp \in groupsOf(rules[d])[g] THEN Append(seen[d][g], t) ELSE seen[d][g],
              t, rules[d].window)]

fires(d, groups) ==
    IF rules[d].type = "count" THEN Len(groups[1]) >= rules[d].threshold
    ELSE allGroupsActive(groups)

\* The rules that an observation makes fire, whether or not they match it.
firedBy(fp, t) == {d \in DOMAIN seen : fires(d, appended(d, fp, t))}

\* Observe, from the lock on; derived alerts are not observed.
Record(fp, t) ==
    /\ seen' = [d \in DOMAIN seen |-> appended(d, fp, t)]
    /\ last' = [d \in DOMAIN last |-> IF fp \in rules[d].match THEN t ELSE last[d]]
    /\ UNCHANGED <<engineStart, tickedAt>>

\* mutation: a heartbeat that never came is measured from Go's zero time
absentNoStart(d) == last[d] = 0 \/ now - last[d] > rules[d].for

\* mutation: a rule waits for its first heartbeat
absentOnceSeen(d) == last[d] # 0 /\ now - last[d] > rules[d].for

absent(d) == now - (IF last[d] = 0 THEN engineStart ELSE last[d]) > rules[d].for

evalAbsent == {d \in DOMAIN last : absent(d)}

TickDue == DOMAIN last # {} /\ now >= tickedAt + AbsentTick
=============================================================================
