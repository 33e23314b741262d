---------------------------- MODULE GroupReports ----------------------------
(***************************************************************************)
(* What grouping promises.  At any time one window per group is open; the  *)
(* alerts of the group join it.  A window that is closed takes no more     *)
(* alerts and is reported once, with their number, unless the report is    *)
(* lost to a panic.  After the shutdown nothing is open.                   *)
(***************************************************************************)
EXTENDS Naturals

CONSTANT Keys   \* group keys

VARIABLES
    group,  \* windows: name -> [key, absorbed, reports, state]
    shut    \* the grouper is shutting down

reportVars == <<group, shut>>

Start == DOMAIN group = {} /\ shut = FALSE

NewGroup(k) == [key |-> k, absorbed |-> 0, reports |-> 0, state |-> "open"]

\* The windows after those of the groups K have been closed.
Closed(K) ==
    [w \in DOMAIN group |->
        IF group[w].state = "open" /\ group[w].key \in K
        THEN [group[w] EXCEPT !.state = "closed"] ELSE group[w]]

\* A window opens, and replaces the one of its group.
Opens(n, k) ==
    /\ ~shut
    /\ group' = [w \in DOMAIN group \cup {n} |-> IF w = n THEN NewGroup(k) ELSE Closed({k})[w]]
    /\ UNCHANGED shut

Joins(w) ==
    /\ group[w].state = "open"
    /\ group' = [group EXCEPT ![w].absorbed = @ + 1]
    /\ UNCHANGED shut

Closes(K) ==
    /\ group' = Closed(K)
    /\ UNCHANGED shut

Shuts ==
    /\ ~shut
    /\ shut' = TRUE
    /\ group' = Closed(Keys)

\* A window without members has nothing to report.
Reports(w) ==
    /\ group[w].state = "closed"
    /\ group' = [group EXCEPT ![w] =
                     [key |-> group[w].key, absorbed |-> group[w].absorbed,
                      reports |-> IF group[w].absorbed = 0 THEN 0 ELSE 1, state |-> "done"]]
    /\ UNCHANGED shut

Loses(w) ==
    /\ group[w].state = "closed"
    /\ group' = [group EXCEPT ![w].state = "lost"]
    /\ UNCHANGED shut

Step ==
    \/ \E n \in DOMAIN group' \ DOMAIN group, k \in Keys : Opens(n, k)
    \/ \E w \in DOMAIN group : Joins(w) \/ Reports(w) \/ Loses(w)
    \/ \E K \in SUBSET Keys : Closes(K)
    \/ Shuts

Promise == Start /\ [][Step]_reportVars
=============================================================================
