------------------------------- MODULE Router -------------------------------
(***************************************************************************)
(* The router of internal/router: silences, maintenance windows,           *)
(* inhibitions and routes.  The configuration is chosen at the start and   *)
(* never changes.                                                          *)
(***************************************************************************)
EXTENDS Silences, Maintenance, Sequences

CONSTANTS
    Configs,       \* configurations: [watched, inhibitions, windows, rules,
                   \* silences, silenceable] and
                   \* the bounds horizon of the clock and
                   \* changes of the conditions
    Routes,        \* the routes, in order: [match, sinks]
    DefaultSinks,  \* router.defaultSinks
    Stateful       \* statefulSinks

ASSUME RouterConstants ==
    \A c \in Configs :
        /\ \A i \in DOMAIN c.inhibitions : c.inhibitions[i].duration \in Nat
        /\ \A w \in c.windows : IsWindow(w)

VARIABLES
    config,          \* the configuration
    activeInhibits   \* <<rule, equal>> -> expiry

RouterInit ==
    /\ config \in Configs
    /\ activeInhibits = EmptyMap
    /\ SilencesInit

inhibitions == config.inhibitions

\* An inhibition is [source, target, equal, duration]; equal gives the value of
\* the equal fields of an alert.
inhibitionKey(i, fp) == <<i, inhibitions[i].equal[fp]>>

\* The fixed silences are those of the file and, unless disabled, of annotations.
silenced(fp) ==
    \/ \E s \in config.silences : fp \in s.matches /\ isActive(s)
    \/ \E s \in crdItems : fp \in s.matches /\ isActive(s)
    \/ \E s \in ActiveSilences : fp \in s.matches

inMaintenance(fp) == \E w \in config.windows : fp \in w.matches /\ WindowActive(w, now)

inhibited(fp) ==
    \E i \in DOMAIN inhibitions :
        /\ fp \in inhibitions[i].target
        /\ inhibitionKey(i, fp) \in DOMAIN activeInhibits
        /\ now < activeInhibits[inhibitionKey(i, fp)]

unexpired == {k \in DOMAIN activeInhibits : now < activeInhibits[k]}

maybeArmInhibition(fp) ==
    LET armed == {i \in DOMAIN inhibitions : fp \in inhibitions[i].source}
        keys  == {inhibitionKey(i, fp) : i \in armed}
    IN  activeInhibits' =
            [k \in unexpired \cup keys |->
                IF k \in keys THEN now + inhibitions[k[1]].duration ELSE activeInhibits[k]]

\* mutation: only an alert that is routed arms its inhibitions
armNothing(fp) == UNCHANGED activeInhibits

\* ArmInhibitions, for muted re-fires.
ArmInhibitions(fp) == maybeArmInhibition(fp)

Suppresses(fp) == silenced(fp) \/ inMaintenance(fp) \/ inhibited(fp)

\* The first route that matches, or the default.
sinksOf(fp) ==
    LET m == {i \in DOMAIN Routes : fp \in Routes[i].match} IN
    IF m = {} THEN DefaultSinks
    ELSE Routes[CHOOSE i \in m : \A j \in m : i <= j].sinks

\* keepStateful, dropStateful
keepStateful(sinks) == sinks \cap Stateful
=============================================================================
