---------------------------- MODULE MCAlertStore ----------------------------
(***************************************************************************)
(* AlertStore on two objects: fingerprint "a" and "b" belong to one, the   *)
(* event "e" to the other.                                                 *)
(***************************************************************************)
EXTENDS AlertStore

mcFP == {"a", "b", "e"}
mcEvents == {"e"}
mcObjects == {"pod", "trail"}
mcObjectOf == [fp \in mcFP |-> IF fp = "e" THEN "trail" ELSE "pod"]
mcRules == {"r", "q"}
mcEscalateAfter == [x \in mcRules |-> IF x = "r" THEN 1 ELSE 2]
mcMatches == [x \in mcRules |-> IF x = "r" THEN {"a", "b"} ELSE {"a"}]

\* A faithful snapshot, and one with a future send time, an alert without a
\* deadline, an entry of unknown severity and marks without an alert.
Good == [active    |-> [fp \in {"a"} |-> [startsAt |-> 0, endsAt |-> 2]],
         valid     |-> mcFP,
         lastSent  |-> [fp \in {"a", "e"} |-> 1],
         escalated |-> [fp \in {"a"} |-> {"r"}]]
Poisoned == [active    |-> [fp \in {"a", "b"} |-> [startsAt |-> 0, endsAt |-> 0]],
             valid     |-> {"a"},
             lastSent  |-> [fp \in {"a", "b"} |-> IF fp = "a" THEN 9 ELSE 0],
             escalated |-> [fp \in {"b", "e"} |-> {"r"}]]
mcSnapshots == {Good, Poisoned}
=============================================================================
