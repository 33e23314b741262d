------------------------------ MODULE Silences ------------------------------
(***************************************************************************)
(* Where silences come from.  The runtime store of internal/silence holds  *)
(* what the console added, until it expires, is deleted or is pruned.  The *)
(* syncer of internal/crd rebuilds its list from the informer's Silence    *)
(* objects on every event and resync.  File silences are configuration.    *)
(*                                                                         *)
(* The matchers of a silence are the set of fingerprints they match.       *)
(***************************************************************************)
EXTENDS AlertStore, FiniteSets

CONSTANTS
    SilenceIds,          \* ids of runtime silences
    Lengths,             \* for how long a silence is asked for
    MaxSilenceDuration,  \* maxSilenceDuration
    CRDResync            \* resync of the syncer

ASSUME SilenceConstants ==
    /\ Lengths \subseteq Nat
    /\ MaxSilenceDuration \in Nat \ {0}
    /\ CRDResync \in Nat \ {0}

VARIABLES
    runtime,     \* silence.Store.items: id -> [matches, until]
    silenceGen,  \* silence.Store.gen
    crs,         \* the Silence objects in the informer's store, a set of
                 \* [matchers, matches, until, created]
    crdItems,    \* SilenceStore.items: a set of [matches, until]
    rebuiltAt    \* when crdItems was last rebuilt, 0 if an event waits

silenceVars == <<runtime, silenceGen, crs, crdItems, rebuiltAt>>

isActive(s) == now < s.until

(***************************************************************************)
(* The runtime store.                                                      *)
(***************************************************************************)
AddSilence(id, matches, length) ==
    /\ runtime' = Put(runtime, id, [matches |-> matches, until |-> now + length])
    /\ silenceGen' = silenceGen + 1
    /\ UNCHANGED <<crs, crdItems, rebuiltAt>>

DeleteSilence(id) ==
    /\ id \in DOMAIN runtime
    /\ runtime' = Without(runtime, {id})
    /\ silenceGen' = silenceGen + 1
    /\ UNCHANGED <<crs, crdItems, rebuiltAt>>

ActiveSilences == {runtime[id] : id \in {i \in DOMAIN runtime : isActive(runtime[i])}}

PruneExpired ==
    LET over == {id \in DOMAIN runtime : ~isActive(runtime[id])} IN
    /\ over # {}
    /\ runtime' = Without(runtime, over)
    /\ silenceGen' = silenceGen + 1
    /\ UNCHANGED <<crs, crdItems, rebuiltAt>>

\* Restore from a snapshot, whose silences may have expired.
Replace(items) ==
    /\ runtime' = items
    /\ silenceGen' = silenceGen + 1
    /\ UNCHANGED <<crs, crdItems, rebuiltAt>>

(***************************************************************************)
(* Silence objects.  Their matchers are fine, or refused: missing, empty,  *)
(* too broad, or naming another namespace than the object's own.  An until *)
(* that cannot be parsed is 0.                                             *)
(***************************************************************************)
MatcherKinds == {"fine", "refused"}

\* mutation: the cap counts from the time of the rebuild
capNow(cr) == now + MaxSilenceDuration

\* The cap counts from the creation, and from now if that is unknown.
capAt(cr) == (IF cr.created = 0 THEN now ELSE cr.created) + MaxSilenceDuration

parseSilence(cr) ==
    IF cr.matchers # "fine" \/ cr.until = 0 THEN {}
    ELSE {[matches |-> cr.matches, until |-> IF cr.until > capAt(cr) THEN capAt(cr) ELSE cr.until]}

snapshot == UNION {parseSilence(cr) : cr \in crs}

\* An event of the informer, or its resync.
Rebuild ==
    /\ rebuiltAt = 0 \/ now >= rebuiltAt + CRDResync
    /\ crdItems' = snapshot
    /\ rebuiltAt' = now
    /\ UNCHANGED <<runtime, silenceGen, crs>>

\* kubectl apply creates an object, or edits one, which keeps its creation time.
ApplyCR(matchers, matches, until) ==
    LET cr(t) == [matchers |-> matchers, matches |-> matches, until |-> until, created |-> t] IN
    /\ \/ crs' = crs \cup {cr(now)}
       \/ \E old \in crs : crs' = (crs \ {old}) \cup {cr(old.created)}
    /\ rebuiltAt' = 0
    /\ UNCHANGED <<runtime, silenceGen, crdItems>>

DeleteCR ==
    /\ \E cr \in crs : crs' = crs \ {cr}
    /\ rebuiltAt' = 0
    /\ UNCHANGED <<runtime, silenceGen, crdItems>>

SyncerMayWait == crs # {} \/ rebuiltAt = 0 => rebuiltAt # 0 /\ now < rebuiltAt + CRDResync

SilencesInit ==
    /\ runtime = EmptyMap
    /\ silenceGen = 0
    /\ crs = {}
    /\ crdItems = {}
    /\ rebuiltAt = now

-----------------------------------------------------------------------------
\* What the silences say, read off the objects: an alert is silenced by a valid
\* object until its deadline or the longest time an object may silence, and by a
\* runtime silence that nobody deleted until its end.
IsSilenced(fp) ==
    \/ \E cr \in crs : /\ cr.matchers = "fine" /\ fp \in cr.matches
                       /\ now < cr.until /\ now < cr.created + MaxSilenceDuration
    \/ \E id \in DOMAIN runtime : fp \in runtime[id].matches /\ now < runtime[id].until
=============================================================================
