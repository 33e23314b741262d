----------------------------- MODULE MCEmitPath -----------------------------
(***************************************************************************)
(* Instance of EmitPath.  Every configuration has the conditions that its  *)
(* own question needs, so that their state spaces add up.                  *)
(***************************************************************************)
EXTENDS EmitPath

CONSTANTS a, b, hb, esc, storm, both, missing, r1, page, chat

MCFP == {a, b, hb, esc, storm, both, missing}
MCObjectOf == [fp \in MCFP |-> IF fp = b THEN a ELSE fp]
MCMatches == [r \in {r1} |-> {esc}]
MCEscalateAfter == [r \in {r1} |-> 2]
MCEscalationSinks == [r \in {r1} |-> {page}]
MCRoutes == <<[match |-> {a}, sinks |-> {page, chat}], [match |-> {a, esc}, sinks |-> {chat}]>>
MCSnapshots == {[active |-> EmptyMap, valid |-> {}, lastSent |-> EmptyMap, escalated |-> EmptyMap]}

Plain == [watched |-> {a}, inhibitions |-> <<>>, windows |-> {}, rules |-> EmptyMap,
          silences |-> {}, silenceable |-> {}, horizon |-> 14, changes |-> 3]

\* b is kept quiet by a, and by nothing in another namespace
Inhibits(where) ==
    [Plain EXCEPT !.watched = {a, b},
        !.inhibitions = <<[source |-> {a}, target |-> {b}, duration |-> 3,
                           equal |-> [fp \in MCFP |-> IF fp = b THEN where ELSE "here"]]>>]

Window(start, end, days) ==
    [Plain EXCEPT !.windows = {[matches |-> {a}, start |-> start, end |-> end, days |-> days,
                                zone |-> 24]}]

Silencing == [Plain EXCEPT !.silenceable = {a}, !.horizon = 12, !.changes = 2]

Counting ==
    [Plain EXCEPT !.silences = {[matches |-> {a}, until |-> 11]},
        !.rules = [d \in {storm} |-> [type |-> "count", match |-> {a}, threshold |-> 3, window |-> 4]]]

Composite ==
    [Plain EXCEPT !.watched = {a, b}, !.horizon = 9,
        !.rules = [d \in {both} |-> [type |-> "all", groups |-> <<{a}, {b}>>, window |-> 2]]]

Heartbeat(for) ==
    [Plain EXCEPT !.watched = {hb}, !.horizon = for + 6,
        !.rules = [d \in {missing} |-> [type |-> "absent", match |-> {hb}, for |-> for]]]

Escalating == [Plain EXCEPT !.watched = {esc}]

MCConfigs ==
    {Inhibits("here"), Inhibits("there"), Silencing, Counting, Composite, Escalating}
    \cup {Heartbeat(for) : for \in {1, 7}}
    \cup {Window(w[1], w[2], w[3]) :
            w \in {<<1, 3, {}>>, <<3, 1, {6}>>, <<3, 1, {0}>>, <<2, 2, {}>>, <<0, 3, {0}>>}}

EscalatingOnly == {Escalating}

\* Generations are of no account here, nor is a silence that is over: an object
\* that nobody is going to edit any more, or what the syncer made of one.
MCObjects ==
    IF changes.silences < MaxSilenced THEN <<crs>>
    ELSE <<crs = {}, {cr \in crs : cr.matchers = "fine" /\ now < cr.until}>>
MCSyncer == <<{s \in crdItems : isActive(s)}, IF crs = {} /\ rebuiltAt # 0 THEN 1 ELSE rebuiltAt>>
MCView == <<durable, booting, now, notified, escalations, runtime, MCObjects, MCSyncer,
            engineVars, emitVars, history>>
=============================================================================
