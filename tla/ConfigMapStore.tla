--------------------------- MODULE ConfigMapStore ---------------------------
(***************************************************************************)
(* internal/persist: the state ConfigMap that the replicas share, and Save *)
(* as each of them runs it, a read and a conditional write with retries.   *)
(* The API server is external: it refuses a create of an existing object   *)
(* and an update whose resourceVersion is not the current one, may fail    *)
(* any request, and may apply one whose caller has given up on it.         *)
(*                                                                         *)
(* A snapshot is the time it was exported and the version of the state it  *)
(* holds; time 0 says that there is no object.  Instead of numbering the   *)
(* resourceVersions, a request remembers whether its own is the current    *)
(* one: every write ends that for all others.                              *)
(***************************************************************************)
EXTENDS Naturals

CONSTANTS
    Replicas,
    Skew,      \* how far the clock of each replica is ahead
    MaxSkew,   \* maxSavedAtSkew
    MaxTries,  \* retry.DefaultRetry.Steps
    MaxFaults, \* bound on the number of failures
    MaxNow     \* bound on the clock

ASSUME PersistConstants ==
    /\ Skew \in [Replicas -> Nat]
    /\ MaxSkew \in Nat
    /\ MaxTries \in Nat \ {0}
    /\ MaxFaults \in Nat
    /\ MaxNow \in Nat

VARIABLES
    cm,     \* the ConfigMap
    save,   \* replica -> its Save
    late,   \* writes whose callers have given up on them
    faults, \* number of failures so far
    now

persistVars == <<cm, save, late, faults, now>>

Snapshots == [savedAt : Nat, version : Nat]

\* current: nobody has written since this Save's Get.
NoSave == [at |-> "idle", savedAt |-> 0, version |-> 0, current |-> FALSE, tries |-> 0]

Returned(r) == save[r].at \in {"saved", "refused", "failed"}
Running(r) == save[r].at \in {"get", "write"}

PersistInit ==
    /\ cm = [savedAt |-> 0, version |-> 0]
    /\ save = [r \in Replicas |-> NoSave]
    /\ late = {}
    /\ faults = 0
    /\ now = 1

Fault == faults < MaxFaults /\ faults' = faults + 1

Clock(r) == now + Skew[r]

\* What Load returns when it succeeds.
Loaded == cm.version

\* The caller exports its state, which stamps SavedAt, and calls Save.
Save(r, version) ==
    /\ save[r].at = "idle"
    /\ save' = [save EXCEPT ![r] = [at |-> "get", savedAt |-> Clock(r), version |-> version,
                                    current |-> FALSE, tries |-> 1]]
    /\ UNCHANGED <<cm, late, faults, now>>

\* A missing or undecodable snapshot has the zero time, which is never newer.
snapshotSavedAt == cm.savedAt

\* ErrStaleSnapshot: the stored snapshot is newer, by a stamp that may be true.
stale(r) ==
    /\ snapshotSavedAt > save[r].savedAt
    /\ snapshotSavedAt <= Clock(r) + MaxSkew

Get(r) ==
    /\ save[r].at = "get"
    /\ save' = [save EXCEPT ![r].at = IF stale(r) THEN "refused" ELSE "write",
                            ![r].current = ~stale(r)]
    /\ UNCHANGED <<cm, late, faults, now>>

\* mutation: the write is not conditional on the version that was read
unconditional(m) == TRUE

\* The API server's test for a create and for an update.
accepted(m) == m.current

\* A write makes every other request's version an old one, so those on their
\* way will be refused.
Stores(m, sv) ==
    /\ cm' = [savedAt |-> m.savedAt, version |-> m.version]
    /\ save' = [r \in Replicas |-> [sv[r] EXCEPT !.current = FALSE]]
    /\ late' = {[l EXCEPT !.current = FALSE] : l \in late \ {m}}

retryable(r) == save[r].tries < MaxTries

Ends(r, how) == [save EXCEPT ![r].at = how, ![r].current = FALSE]

\* A conflict or a lost create race reads again.
Write(r) ==
    /\ save[r].at = "write"
    /\ \/ accepted(save[r]) /\ Stores(save[r], Ends(r, "saved"))
       \/ /\ ~accepted(save[r])
          /\ save' = IF retryable(r)
                     THEN [save EXCEPT ![r].at = "get", ![r].tries = @ + 1]
                     ELSE Ends(r, "failed")
          /\ UNCHANGED <<cm, late>>
    /\ UNCHANGED <<faults, now>>

\* Any other error, the deadline of the save, or its cancellation.
GiveUp(r) ==
    /\ Fault
    /\ Running(r)
    /\ save' = Ends(r, "failed")
    /\ UNCHANGED <<cm, late, now>>

\* The same with the write on its way.
GiveUpInFlight(r) ==
    /\ Fault
    /\ save[r].at = "write"
    /\ late' = late \cup {save[r]}
    /\ save' = Ends(r, "failed")
    /\ UNCHANGED <<cm, now>>

LateWrite(m) ==
    /\ m \in late
    /\ IF accepted(m) THEN Stores(m, save) ELSE late' = late \ {m} /\ UNCHANGED <<cm, save>>
    /\ UNCHANGED <<faults, now>>

Tick ==
    /\ now < MaxNow
    /\ now' = now + 1
    /\ UNCHANGED <<cm, save, late, faults>>

SaveStep(r) == Get(r) \/ Write(r) \/ GiveUp(r) \/ GiveUpInFlight(r)

PersistStep == (\E r \in Replicas : SaveStep(r)) \/ (\E m \in late : LateWrite(m)) \/ Tick

-----------------------------------------------------------------------------
(***************************************************************************)
(* Properties.                                                             *)
(***************************************************************************)
\* A stored snapshot is only ever replaced by one that was exported later, or
\* its stamp was ahead of any clock it can have come from (Save's comment),
\* whatever writes of other replicas and late writes come between the read and
\* the write.
Replaces ==
    cm' # cm => cm'.savedAt >= cm.savedAt \/ cm.savedAt > cm'.savedAt + MaxSkew
NewestWins == [][Replaces]_cm
=============================================================================
