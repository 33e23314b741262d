------------------------------ MODULE Detection ------------------------------
(***************************************************************************)
(* One monitored thing, the detector that looks at it and the alert store: *)
(* what the watchers and the cloud sources have in common.  A detector     *)
(* hands makeEmitter a reason that fires or a resolve marker for the whole *)
(* object.  The alerts of one object differ in their reasons only, so a    *)
(* fingerprint is a reason.                                                *)
(*                                                                         *)
(* Startup grace, silences, grouping and rollbacks are StandingAlert's and *)
(* EmitPath's subject and absent here.                                     *)
(***************************************************************************)
EXTENDS AlertStore

ASSUME OneObject == \A f, g \in FP : ObjectOf[f] = ObjectOf[g]

VARIABLES
    detector,   \* the kind of watcher or the cloud service
    real,       \* its state, as a set of at most one: empty if it is gone
    changes,    \* number of changes so far
    standing,   \* history: claim -> since when it has held undisturbed
    changedAt   \* history: when real last changed

subject == <<detector, real, changes, standing, changedAt>>

(***************************************************************************)
(* What a detector's verdict on the current state claims of the store.  A  *)
(* claim is a set of reasons of which at least one is active; the empty    *)
(* claim says that no alert of the object is.                              *)
(***************************************************************************)
Hold(claims, t) ==
    [c \in claims |-> IF c \in DOMAIN standing THEN standing[c] ELSE t]
Disturb(claims, t) == [c \in claims |-> t]

\* mutation: a muted alert is not kept alive
FireUnlessMuted(fp) ==
    \/ ShouldSend(fp, now)
    \/ mutedLocked(fp) /\ UNCHANGED storeVars

\* makeEmitter on a firing alert.
Fire(fp) ==
    \/ ShouldSend(fp, now)
    \/ /\ mutedLocked(fp)
       /\ Touch(fp) \/ (fp \notin DOMAIN active /\ UNCHANGED storeVars)

\* makeEmitter on a resolve marker.
Clear ==
    \/ \E o \in Objects : ResolveObject(o)
    \/ DOMAIN active = {} /\ UNCHANGED storeVars

Sweep ==
    /\ SweepResolved \/ CleanOldHistory
    /\ UNCHANGED subject

Alive(fp) == fp \in DOMAIN active /\ now <= active[fp].endsAt
Holds(claim) ==
    IF claim = {} THEN DOMAIN active = {} ELSE \E fp \in claim : Alive(fp)
=============================================================================
