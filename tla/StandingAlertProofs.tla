------------------------ MODULE StandingAlertProofs ------------------------
(***************************************************************************)
(* Proofs about StandingAlert, for any number of fingerprints and any      *)
(* choice of the time constants that validateBehavior accepts: a standing  *)
(* condition becomes active, stays alive, and is paged at most once per    *)
(* mute window.                                                            *)
(***************************************************************************)
EXTENDS StandingAlert, AlertStoreProofs

-----------------------------------------------------------------------------
(***************************************************************************)
(* The inductive invariant.                                                *)
(***************************************************************************)
\* What a state save holds of the store.
IsSave(s) ==
    /\ s = [active |-> s.active, valid |-> FP, lastSent |-> s.lastSent,
            escalated |-> s.escalated]
    /\ IsMap(s.active, FP, Alerts)
    /\ IsMap(s.lastSent, FP, Times)

PipeType ==
    /\ IsMap(active, FP, Alerts) /\ IsMap(lastSent, FP, Times)
    /\ booting \in BOOLEAN /\ synced \in BOOLEAN
    /\ now \in Nat /\ started \in Nat /\ setback \in Nat
    /\ cond \subseteq FP /\ suppressed \subseteq FP /\ unsettled \subseteq FP
    /\ IsMap(observed, FP, Times) /\ IsMap(steadySince, FP, Times) /\ IsMap(page, FP, Times)
    /\ \A e \in exported : IsSave(e)
    /\ disk = [store |-> disk.store, pending |-> disk.pending]
    /\ IsSave(disk.store) /\ disk.pending \subseteq FP

\* No recorded time lies in the future, in the store or in a save.
NothingAhead ==
    /\ started <= now
    /\ \A fp \in DOMAIN lastSent : lastSent[fp] <= now
    /\ \A fp \in DOMAIN observed : observed[fp] <= now
    /\ \A fp \in DOMAIN steadySince : steadySince[fp] <= now
    /\ \A e \in exported \cup {disk.store} :
         \A fp \in DOMAIN e.lastSent : e.lastSent[fp] <= now

\* The histories of steadiness are those of the conditions that stand unsuppressed.
SteadyIsStanding == DOMAIN steadySince = cond \ suppressed

\* A process that is down knows nothing, and its first lists take no time.
Phases ==
    /\ booting => DOMAIN observed = {} /\ DOMAIN lastSent = {} /\ ~synced
    /\ ~booting /\ ~synced => /\ started = now
                             /\ \A fp \in DOMAIN observed : observed[fp] = now

\* A standing condition was observed a resync ago at most, or has just begun.
Redelivered ==
    synced => \A fp \in cond :
        IF fp \in DOMAIN observed THEN now <= observed[fp] + Resync
        ELSE fp \in DOMAIN steadySince => steadySince[fp] = now

\* The last observation of fp fell after the grace, into the time it has stood:
\* the emitter neither seeded nor suppressed it.
InForce(fp) ==
    /\ ~booting
    /\ fp \in DOMAIN observed \cap DOMAIN steadySince
    /\ observed[fp] > started + Grace
    /\ observed[fp] > steadySince[fp]

\* The last observation of fp was absorbed by its group: the deadline is the one
\* that the observation before it set, and the next observation is muted.
Absorbed(fp) ==
    /\ Grouping
    /\ fp \in DOMAIN lastSent /\ lastSent[fp] = observed[fp]
    /\ setback >= observed[fp]
    /\ (observed[fp] > started + Grace + Resync /\ observed[fp] > steadySince[fp] + Resync)
         => active[fp].endsAt + Resync >= observed[fp] + ResolveTTL

\* Such an observation has set the deadline, or was absorbed.
Refreshed ==
    \A fp \in DOMAIN active :
        InForce(fp) => active[fp].endsAt >= observed[fp] + ResolveTTL \/ Absorbed(fp)

\* A mute record without an alert is a seed, of the grace or of a group.
Seeded ==
    ~booting => \A fp \in DOMAIN lastSent \ DOMAIN active :
                    lastSent[fp] <= setback \/ lastSent[fp] <= started + Grace

\* An observation in force that left no alert was muted by a seed, or undone.
Retried ==
    \A fp \in FP \ DOMAIN active :
        InForce(fp) => \/ observed[fp] < setback + MuteWindow
                       \/ observed[fp] < started + Grace + MuteWindow

\* The mute record of a page outlives its mute window: in the store, and in the
\* last save while the process is down.
PagesMute ==
    \A fp \in DOMAIN page :
        IF booting
        THEN fp \in DOMAIN disk.store.lastSent /\ disk.store.lastSent[fp] >= page[fp]
        ELSE (fp \in DOMAIN lastSent /\ lastSent[fp] >= page[fp]) \/ now >= page[fp] + MuteWindow

PipeInv ==
    /\ PipeType
    /\ NothingAhead
    /\ SteadyIsStanding
    /\ Phases
    /\ Redelivered
    /\ Refreshed
    /\ Seeded
    /\ Retried
    /\ PagesMute
-----------------------------------------------------------------------------
(***************************************************************************)
(* What the calls into the store do to its maps.                           *)
(***************************************************************************)
\* Put on a map.
LEMMA PutFacts ==
    ASSUME NEW f, NEW S, NEW T, IsMap(f, S, T), NEW k \in S, NEW v \in T
    PROVE  /\ IsMap(Put(f, k, v), S, T)
           /\ DOMAIN Put(f, k, v) = DOMAIN f \cup {k}
           /\ Put(f, k, v)[k] = v
           /\ \A x \in DOMAIN f : x # k => Put(f, k, v)[x] = f[x]
BY DEF IsMap, Put

\* Without on a map.
LEMMA WithoutFacts ==
    ASSUME NEW f, NEW S, NEW T, IsMap(f, S, T), NEW K
    PROVE  /\ IsMap(Without(f, K), S, T)
           /\ DOMAIN Without(f, K) = DOMAIN f \ K
           /\ \A x \in DOMAIN f : x \notin K => Without(f, K)[x] = f[x]
BY DEF IsMap, Without, Restrict

\* What is dropped leaves the alerts and the mute records together.
LEMMA DropFacts ==
    ASSUME PipeInv, NEW F, dropLocked(F)
    PROVE  /\ IsMap(active', FP, Alerts) /\ IsMap(lastSent', FP, Times)
           /\ DOMAIN active' = DOMAIN active \ F
           /\ \A x \in DOMAIN active' : active'[x] = active[x]
           /\ DOMAIN lastSent' = DOMAIN lastSent \ F
           /\ \A x \in DOMAIN lastSent' : lastSent'[x] = lastSent[x]
<1>1. IsMap(active, FP, Alerts) /\ active' = Without(active, F)
  BY DEF PipeInv, PipeType, dropLocked
<1>2. IsMap(lastSent, FP, Times) /\ lastSent' = Without(lastSent, F)
  BY DEF PipeInv, PipeType, dropLocked
<1>3. /\ IsMap(active', FP, Alerts) /\ DOMAIN active' = DOMAIN active \ F
      /\ \A x \in DOMAIN active' : active'[x] = active[x]
  BY <1>1, WithoutFacts
<1>4. /\ IsMap(lastSent', FP, Times) /\ DOMAIN lastSent' = DOMAIN lastSent \ F
      /\ \A x \in DOMAIN lastSent' : lastSent'[x] = lastSent[x]
  BY <1>2, WithoutFacts
<1> QED BY <1>3, <1>4

\* What an observation does: one of the five ways through the emitter.
Graced(fp) ==
    /\ InGrace
    /\ active' = active /\ page' = page /\ setback' = setback
    /\ fp \in DOMAIN lastSent' /\ lastSent'[fp] = now
Touched(fp) ==
    /\ ~InGrace /\ mutedLocked(fp)
    /\ fp \in DOMAIN active => active'[fp].endsAt = now + ResolveTTL
    /\ lastSent' = lastSent /\ page' = page /\ setback' = setback
    /\ DOMAIN active' = DOMAIN active
Hushed(fp) ==
    /\ fp \in suppressed
    /\ active' = active /\ lastSent' = lastSent /\ page' = page /\ setback' = setback
Folded(fp) ==
    /\ ~InGrace /\ ~mutedLocked(fp) /\ Grouping
    /\ active' = active /\ page' = page /\ setback' = now
    /\ fp \in DOMAIN lastSent' /\ lastSent'[fp] = now
Paged(fp) ==
    /\ ~InGrace /\ ~mutedLocked(fp)
    /\ fp \in DOMAIN active' /\ active'[fp].endsAt = now + ResolveTTL
    /\ fp \in DOMAIN lastSent' /\ lastSent'[fp] = now
    /\ fp \in DOMAIN page' /\ page'[fp] = now
    /\ setback' = setback

\* An observation of fp concerns fp alone and takes one of these ways.
LEMMA ObserveFacts ==
    ASSUME PipeInv, NEW fp \in FP, Observe(fp)
    PROVE  /\ IsMap(active', FP, Alerts) /\ IsMap(lastSent', FP, Times)
           /\ IsMap(observed', FP, Times) /\ IsMap(page', FP, Times)
           /\ unsettled' \subseteq FP /\ setback' \in Nat
           /\ fp \in DOMAIN observed' /\ observed'[fp] = now
           /\ \A x \in FP \ {fp} :
                 /\ x \in DOMAIN active' <=> x \in DOMAIN active
                 /\ x \in DOMAIN active => active'[x] = active[x]
                 /\ x \in DOMAIN lastSent' <=> x \in DOMAIN lastSent
                 /\ x \in DOMAIN lastSent => lastSent'[x] = lastSent[x]
                 /\ x \in DOMAIN observed' <=> x \in DOMAIN observed
                 /\ x \in DOMAIN observed => observed'[x] = observed[x]
                 /\ x \in DOMAIN page' <=> x \in DOMAIN page
                 /\ x \in DOMAIN page => page'[x] = page[x]
           /\ Graced(fp) \/ Touched(fp) \/ Hushed(fp) \/ Folded(fp) \/ Paged(fp)
           /\ setback' >= setback \/ setback' = now
           /\ now' = now /\ booting' = booting
<1> USE StoreConstants, BehaviorConstants
<1>0. /\ now \in Nat /\ now \in Times /\ setback \in Nat /\ unsettled \subseteq FP
      /\ IsMap(active, FP, Alerts) /\ IsMap(lastSent, FP, Times)
      /\ IsMap(observed, FP, Times) /\ IsMap(page, FP, Times)
  BY DEF PipeInv, PipeType, Times
<1>1. /\ IsMap(observed', FP, Times) /\ DOMAIN observed' = DOMAIN observed \cup {fp}
      /\ observed'[fp] = now
      /\ \A x \in DOMAIN observed : x # fp => observed'[x] = observed[x]
  <2>1. observed' = Put(observed, fp, now)
    BY DEF Observe
  <2> QED BY <1>0, <2>1 DEF Put, IsMap
<1>2. ASSUME lastSent' = Put(lastSent, fp, now)
      PROVE  /\ IsMap(lastSent', FP, Times) /\ DOMAIN lastSent' = DOMAIN lastSent \cup {fp}
             /\ lastSent'[fp] = now
             /\ \A x \in DOMAIN lastSent : x # fp => lastSent'[x] = lastSent[x]
  BY <1>0, <1>2 DEF Put, IsMap
<1>3. CASE InGrace /\ Seed(fp) /\ UNCHANGED <<unsettled, page, setback>>
  BY <1>0, <1>1, <1>2, <1>3 DEF Seed, Graced
<1>4. CASE TouchIfMuted(fp) /\ UNCHANGED <<unsettled, page, setback>>
  <2>1. CASE Touch(fp)
    <3>1. now + ResolveTTL \in Times
      BY <1>0 DEF Times
    <3>2. /\ DOMAIN active' = DOMAIN active
          /\ \A x \in DOMAIN active : x # fp => active'[x] = active[x]
          /\ active'[fp] = [active[fp] EXCEPT !.endsAt = now + ResolveTTL]
          /\ active' = [x \in DOMAIN active |-> active'[x]]
      BY <1>0, <2>1 DEF Touch, IsMap
    <3>3. active'[fp] \in Alerts /\ active'[fp].endsAt = now + ResolveTTL
      BY <1>0, <2>1, <3>1, <3>2 DEF Touch, IsMap, Alerts
    <3>4. IsMap(active', FP, Alerts)
      BY <1>0, <3>2, <3>3 DEF IsMap
    <3> QED BY <1>0, <1>1, <1>4, <2>1, <3>2, <3>3, <3>4 DEF Touch, TouchIfMuted, Touched
  <2>2. CASE fp \notin DOMAIN active /\ UNCHANGED storeVars
    BY <1>0, <1>1, <1>4, <2>2 DEF TouchIfMuted, Touched, storeVars
  <2> QED BY <1>4, <2>1, <2>2 DEF TouchIfMuted
<1>5. CASE /\ ~InGrace
           /\ ~mutedLocked(fp)
           /\ fp \in suppressed
           /\ UNCHANGED <<storeVars, unsettled, page, setback>>
  BY <1>0, <1>1, <1>5 DEF Hushed, storeVars
<1>6. CASE Goes(fp) /\ Grouping /\ Seed(fp) /\ setback' = now /\ UNCHANGED <<unsettled, page>>
  BY <1>0, <1>1, <1>2, <1>6 DEF Seed, Folded, Goes
<1>7. CASE /\ Goes(fp)
           /\ ShouldSend(fp, now)
           /\ unsettled' = unsettled \cup {fp}
           /\ page' = Put(page, fp, now)
           /\ UNCHANGED setback
  <2> DEFINE a == [startsAt |-> startOf(fp, now), endsAt |-> now + ResolveTTL]
  <2>1. a \in Alerts
    BY <1>0 DEF IsMap, startOf, Alerts, Times
  <2>2. /\ IsMap(active', FP, Alerts) /\ DOMAIN active' = DOMAIN active \cup {fp}
        /\ active'[fp] = a
        /\ \A x \in DOMAIN active : x # fp => active'[x] = active[x]
    <3>1. active' = Put(active, fp, a)
      BY <1>7 DEF ShouldSend
    <3> HIDE DEF a
    <3> QED BY <1>0, <2>1, <3>1, PutFacts
  <2>3. active'[fp].endsAt = now + ResolveTTL
    BY <2>2
  <2>4. /\ IsMap(page', FP, Times) /\ DOMAIN page' = DOMAIN page \cup {fp}
        /\ page'[fp] = now
        /\ \A x \in DOMAIN page : x # fp => page'[x] = page[x]
    <3>1. page' = Put(page, fp, now)
      BY <1>7
    <3> QED BY <1>0, <3>1 DEF Put, IsMap
  <2> QED BY <1>0, <1>1, <1>2, <1>7, <2>2, <2>3, <2>4 DEF ShouldSend, Paged, Goes
<1> QED BY <1>3, <1>4, <1>5, <1>6, <1>7 DEF Observe, Emitter

-----------------------------------------------------------------------------
(***************************************************************************)
(* Every step keeps the invariant.                                         *)
(***************************************************************************)
\* A condition that has stood for a while after the grace was observed a resync
\* ago at most.
LEMMA SeenLately ==
    ASSUME PipeInv, ~booting, NEW fp \in DOMAIN steadySince,
           now > started + Grace, now > steadySince[fp]
    PROVE  synced /\ fp \in DOMAIN observed /\ now <= observed[fp] + Resync
<1> USE BehaviorConstants
<1>1. fp \in cond /\ now \in Nat /\ started \in Nat /\ steadySince[fp] \in Nat
  BY DEF PipeInv, PipeType, SteadyIsStanding, IsMap, Times
<1>2. synced
  BY <1>1 DEF PipeInv, Phases
<1> QED BY <1>1, <1>2 DEF PipeInv, Redelivered

\* An absorbed reminder is followed by a muted one, because the mute window is
\* longer than a resync.
LEMMA ObserveKeeps ==
    ASSUME PipeInv, NEW fp \in FP, Observe(fp)
    PROVE  PipeInv'
<1> USE StoreConstants, BehaviorConstants
<1>1. /\ ~booting /\ fp \in cond /\ now' = now /\ booting' = booting
      /\ cond' = cond /\ suppressed' = suppressed /\ synced' = synced /\ started' = started
      /\ exported' = exported /\ disk' = disk /\ steadySince' = steadySince
  BY ObserveFacts DEF Observe, cluster, process, saves
<1>2. /\ now \in Nat /\ started \in Nat /\ setback \in Nat
      /\ \A x \in DOMAIN observed : x \in FP /\ observed[x] \in Nat /\ observed[x] <= now
      /\ \A x \in DOMAIN steadySince : x \in FP /\ steadySince[x] \in Nat
      /\ \A x \in DOMAIN lastSent : x \in FP /\ lastSent[x] \in Nat /\ lastSent[x] <= now
      /\ \A x \in DOMAIN page : x \in FP /\ page[x] \in Nat
      /\ \A x \in DOMAIN active : x \in FP /\ active[x].endsAt \in Nat
  BY DEF PipeInv, PipeType, NothingAhead, IsMap, Times, Alerts
<1>3. PipeType'
  BY <1>1, ObserveFacts DEF PipeInv, PipeType
<1>4. /\ \A x \in DOMAIN active' : x \in FP
      /\ \A x \in DOMAIN lastSent' : x \in FP
      /\ \A x \in DOMAIN observed' : x \in FP
      /\ \A x \in DOMAIN page' : x \in FP
  BY <1>3 DEF PipeType, IsMap
<1>5. \A x \in DOMAIN lastSent' : lastSent'[x] <= now
  BY <1>2, <1>4, ObserveFacts DEF Graced, Touched, Hushed, Folded, Paged
<1>6. NothingAhead'
  BY <1>1, <1>2, <1>4, <1>5, ObserveFacts DEF PipeInv, NothingAhead
<1>7. SteadyIsStanding' /\ Phases' /\ Redelivered'
  BY <1>1, <1>2, <1>4, ObserveFacts DEF PipeInv, SteadyIsStanding, Phases, Redelivered
<1>8. InForce(fp)' => /\ ~InGrace /\ fp \notin suppressed /\ fp \in DOMAIN steadySince
                      /\ fp \in DOMAIN observed /\ now <= observed[fp] + Resync
                      /\ now > started + Grace /\ now > steadySince[fp]
  BY <1>1, <1>2, ObserveFacts, SeenLately DEF InForce, InGrace, PipeInv, SteadyIsStanding
<1>9. \A x \in FP \ {fp} : InForce(x)' <=> InForce(x)
  BY <1>1, ObserveFacts DEF InForce
<1>10. Refreshed'
  <2> SUFFICES ASSUME NEW x \in DOMAIN active', InForce(x)'
               PROVE  active'[x].endsAt >= observed'[x] + ResolveTTL \/ Absorbed(x)'
    BY DEF Refreshed
  <2>1. CASE x # fp
    <3>1. /\ x \in DOMAIN active /\ active'[x] = active[x] /\ InForce(x)
          /\ x \in DOMAIN observed /\ observed'[x] = observed[x]
          /\ x \in DOMAIN lastSent' <=> x \in DOMAIN lastSent
          /\ x \in DOMAIN lastSent => lastSent'[x] = lastSent[x]
      BY <1>4, <1>9, <2>1, ObserveFacts DEF InForce
    <3>2. active[x].endsAt >= observed[x] + ResolveTTL \/ Absorbed(x)
      BY <3>1 DEF PipeInv, Refreshed
    <3>3. setback' >= setback \/ setback' >= observed[x]
      BY <1>2, <3>1, ObserveFacts
    <3> QED BY <1>1, <1>2, <1>3, <3>1, <3>2, <3>3 DEF Absorbed, PipeType
  <2>2. CASE x = fp /\ (Touched(fp) \/ Paged(fp))
    BY <1>2, <2>2, ObserveFacts DEF Touched, Paged
  <2>3. CASE x = fp /\ Folded(fp)
    <3>1. /\ active' = active /\ observed'[fp] = now /\ fp \in DOMAIN active
          /\ fp \in DOMAIN lastSent' /\ lastSent'[fp] = now /\ setback' = now /\ Grouping
          /\ ~mutedLocked(fp)
      BY <2>3, ObserveFacts DEF Folded
    <3>2. ASSUME now > started + Grace + Resync, now > steadySince[fp] + Resync
          PROVE  active[fp].endsAt + Resync >= now + ResolveTTL
      <4>1. fp \in DOMAIN observed /\ now <= observed[fp] + Resync /\ fp \in DOMAIN steadySince
        BY <1>8, <2>3
      <4>2. InForce(fp)
        BY <1>1, <1>2, <3>2, <4>1 DEF InForce
      <4>3. ~Absorbed(fp)
        BY <1>2, <3>1, <4>1 DEF Absorbed, mutedLocked
      <4>4. active[fp].endsAt >= observed[fp] + ResolveTTL
        BY <3>1, <4>2, <4>3 DEF PipeInv, Refreshed
      <4> QED BY <1>2, <3>1, <4>1, <4>4
    <3> QED BY <1>1, <1>2, <2>3, <3>1, <3>2 DEF Absorbed
  <2>4. ~(x = fp /\ (Graced(fp) \/ Hushed(fp)))
    BY <1>8 DEF Graced, Hushed
  <2> QED BY <2>1, <2>2, <2>3, <2>4, ObserveFacts
<1>11. Seeded'
  <2> SUFFICES ASSUME NEW x \in DOMAIN lastSent', x \notin DOMAIN active'
               PROVE  lastSent'[x] <= setback' \/ lastSent'[x] <= started + Grace
    BY <1>1 DEF Seeded
  <2>1. CASE \/ x # fp \/ Touched(fp) \/ Hushed(fp)
    <3>1. x \in DOMAIN lastSent /\ lastSent'[x] = lastSent[x] /\ x \notin DOMAIN active
      BY <1>4, <2>1, ObserveFacts DEF Touched, Hushed
    <3> QED BY <1>1, <1>2, <3>1, ObserveFacts DEF PipeInv, Seeded
  <2>2. CASE x = fp /\ (Graced(fp) \/ Folded(fp))
    BY <1>2, <2>2 DEF Graced, Folded, InGrace
  <2>3. ~(x = fp /\ Paged(fp))
    BY DEF Paged
  <2> QED BY <2>1, <2>2, <2>3, ObserveFacts
<1>12. Retried'
  <2> SUFFICES ASSUME NEW x \in FP, x \notin DOMAIN active', InForce(x)'
               PROVE  \/ observed'[x] < setback' + MuteWindow
                      \/ observed'[x] < started + Grace + MuteWindow
    BY <1>1 DEF Retried
  <2>1. CASE x # fp
    <3>1. /\ InForce(x) /\ observed'[x] = observed[x] /\ x \notin DOMAIN active
          /\ x \in DOMAIN observed
      BY <1>9, <2>1, ObserveFacts DEF InForce
    <3>2. setback' \in Nat /\ (setback' >= setback \/ setback' >= observed[x])
      BY <1>2, <3>1, ObserveFacts
    <3> QED BY <1>2, <3>1, <3>2 DEF PipeInv, Retried
  <2>2. CASE x = fp /\ Touched(fp)
    <3>1. fp \in DOMAIN lastSent /\ now < lastSent[fp] + MuteWindow /\ fp \notin DOMAIN active
      BY <1>2, <2>2 DEF Touched, mutedLocked
    <3>2. lastSent[fp] <= setback \/ lastSent[fp] <= started + Grace
      BY <1>1, <3>1 DEF PipeInv, Seeded
    <3> QED BY <1>2, <2>2, <3>1, <3>2, ObserveFacts DEF Touched
  <2>3. CASE x = fp /\ Folded(fp)
    BY <1>2, <2>3, ObserveFacts DEF Folded
  <2>4. ~(x = fp /\ (Graced(fp) \/ Hushed(fp) \/ Paged(fp)))
    BY <1>8 DEF Graced, Hushed, Paged
  <2> QED BY <2>1, <2>2, <2>3, <2>4, ObserveFacts
<1>13. PagesMute'
  <2> SUFFICES ASSUME NEW x \in DOMAIN page'
               PROVE  \/ x \in DOMAIN lastSent' /\ lastSent'[x] >= page'[x]
                      \/ now >= page'[x] + MuteWindow
    BY <1>1 DEF PagesMute
  <2>1. CASE x = fp /\ Paged(fp)
    BY <1>2, <2>1 DEF Paged
  <2>2. CASE ~(x = fp /\ Paged(fp))
    <3>1. x \in DOMAIN page /\ page'[x] = page[x]
      BY <1>4, <2>2, ObserveFacts DEF Graced, Touched, Hushed, Folded
    <3>2. (x \in DOMAIN lastSent /\ lastSent[x] >= page[x]) \/ now >= page[x] + MuteWindow
      BY <1>1, <3>1 DEF PipeInv, PagesMute
    <3>3. x \in DOMAIN lastSent
            => x \in DOMAIN lastSent' /\ (lastSent'[x] = lastSent[x] \/ lastSent'[x] = now)
      BY <1>2, <2>2, ObserveFacts DEF Graced, Touched, Hushed, Folded
    <3> QED BY <1>2, <3>1, <3>2, <3>3
  <2> QED BY <2>1, <2>2
<1> QED BY <1>3, <1>6, <1>7, <1>10, <1>11, <1>12, <1>13 DEF PipeInv

\* The types and bounds that the next lemmas take from the invariant.
LEMMA Bounds ==
    ASSUME PipeInv
    PROVE  /\ now \in Nat /\ started \in Nat /\ setback \in Nat /\ started <= now
           /\ \A x \in DOMAIN observed : x \in FP /\ observed[x] \in Nat /\ observed[x] <= now
           /\ \A x \in DOMAIN steadySince :
                 x \in FP /\ steadySince[x] \in Nat /\ steadySince[x] <= now
           /\ \A x \in DOMAIN lastSent : x \in FP /\ lastSent[x] \in Nat /\ lastSent[x] <= now
           /\ \A x \in DOMAIN page : x \in FP /\ page[x] \in Nat
           /\ \A x \in DOMAIN active : x \in FP /\ active[x] \in Alerts /\ active[x].endsAt \in Nat
BY DEF PipeInv, PipeType, NothingAhead, IsMap, Times, Alerts

\* Conditions and suppressions come and go without a word to the store: what is
\* steady then has been so before, or is so from this moment.
LEMMA ClusterKeeps ==
    ASSUME PipeInv, NEW fp \in FP,
           ConditionStarts(fp) \/ ConditionEnds(fp) \/ SuppressionChanges(fp)
    PROVE  PipeInv'
<1> USE StoreConstants, BehaviorConstants
<1>1. /\ active' = active /\ lastSent' = lastSent /\ booting' = booting /\ now' = now
      /\ synced' = synced /\ started' = started /\ setback' = setback /\ page' = page
      /\ unsettled' = unsettled /\ exported' = exported /\ disk' = disk
  BY DEF ConditionStarts, ConditionEnds, SuppressionChanges, storeVars, process, saves
<1>2. now \in Nat /\ IsMap(observed, FP, Times) /\ IsMap(steadySince, FP, Times) /\ now \in Times
  BY DEF PipeInv, PipeType, Times
<1>3. /\ IsMap(observed', FP, Times)
      /\ \A x \in DOMAIN observed' : x \in DOMAIN observed /\ observed'[x] = observed[x]
      /\ \A x \in DOMAIN observed : x \in DOMAIN observed' \/ (x = fp /\ fp \notin cond)
  BY <1>2 DEF ConditionStarts, ConditionEnds, SuppressionChanges, Without, Restrict, IsMap
<1>4. /\ IsMap(steadySince', FP, Times) /\ DOMAIN steadySince' = cond' \ suppressed'
      /\ \A x \in DOMAIN steadySince' :
            \/ x \in DOMAIN steadySince /\ steadySince'[x] = steadySince[x]
            \/ steadySince'[x] = now
  <2>0. DOMAIN steadySince = cond \ suppressed
    BY DEF PipeInv, SteadyIsStanding
  <2>1. CASE steadySince' = steadySince /\ cond' \ suppressed' = cond \ suppressed
    BY <1>2, <2>0, <2>1
  <2>2. CASE /\ steadySince' = Put(steadySince, fp, now)
             /\ cond' \ suppressed' = (cond \ suppressed) \cup {fp}
    BY <1>2, <2>0, <2>2 DEF Put, IsMap
  <2>3. CASE /\ steadySince' = Without(steadySince, {fp})
             /\ cond' \ suppressed' = (cond \ suppressed) \ {fp}
    BY <1>2, <2>0, <2>3 DEF Without, Restrict, IsMap
  <2>4. CASE ConditionStarts(fp)
    BY <2>1, <2>2, <2>4 DEF ConditionStarts
  <2>5. CASE ConditionEnds(fp)
    BY <2>3, <2>5 DEF ConditionEnds
  <2>6. CASE SuppressionChanges(fp)
    BY <2>1, <2>2, <2>3, <2>6 DEF SuppressionChanges
  <2> QED BY <2>4, <2>5, <2>6
<1>5. /\ cond' \subseteq FP /\ suppressed' \subseteq FP
      /\ \A x \in cond' : x \in cond \/ (x = fp /\ fp \notin DOMAIN observed' /\ fp \notin cond)
  BY <1>2 DEF ConditionStarts, ConditionEnds, SuppressionChanges, PipeInv, PipeType, Without,
              Restrict
<1>6. PipeType' /\ SteadyIsStanding'
  BY <1>1, <1>3, <1>4, <1>5 DEF PipeInv, PipeType, SteadyIsStanding
<1>7. NothingAhead'
  BY <1>1, <1>3, <1>4, Bounds DEF PipeInv, NothingAhead
<1>8. Phases'
  BY <1>1, <1>3 DEF PipeInv, Phases
<1>9. Redelivered'
  <2> SUFFICES ASSUME synced, NEW x \in cond'
               PROVE  IF x \in DOMAIN observed' THEN now <= observed'[x] + Resync
                      ELSE x \in DOMAIN steadySince' => steadySince'[x] = now
    BY <1>1 DEF Redelivered
  <2>1. CASE x \in DOMAIN observed'
    BY <1>3, <1>5, <2>1 DEF PipeInv, Redelivered
  <2>2. CASE x \notin DOMAIN observed' /\ x \in DOMAIN steadySince'
    <3>1. CASE x \in DOMAIN steadySince
      <4>1. x \in cond
        BY <3>1 DEF PipeInv, SteadyIsStanding
      <4>2. x \notin DOMAIN observed
        BY <1>3, <2>2, <4>1
      <4> QED BY <1>4, <2>2, <3>1, <4>1, <4>2 DEF PipeInv, Redelivered
    <3>2. CASE x \notin DOMAIN steadySince
      BY <1>4, <2>2, <3>2
    <3> QED BY <3>1, <3>2
  <2> QED BY <2>1, <2>2
<1>10. \A x \in FP : InForce(x)' => /\ InForce(x) /\ observed'[x] = observed[x]
                                   /\ steadySince'[x] = steadySince[x]
  BY <1>1, <1>3, <1>4, Bounds DEF InForce
<1>11. Refreshed' /\ Seeded' /\ Retried' /\ PagesMute'
  BY <1>1, <1>10, Bounds
  DEF PipeInv, Refreshed, Absorbed, Seeded, Retried, PagesMute
<1> QED BY <1>6, <1>7, <1>8, <1>9, <1>11 DEF PipeInv

\* A deleted object takes its alerts, its mute records and its pages with it.
LEMMA ObjectDeletedKeeps ==
    ASSUME PipeInv, NEW o \in Objects, ObjectDeleted(o)
    PROVE  PipeInv'
<1> USE StoreConstants, BehaviorConstants
<1> DEFINE F == {fp \in FP : ObjectOf[fp] = o}
<1>1. /\ booting' = booting /\ now' = now /\ observed' = observed /\ suppressed' = suppressed
      /\ synced' = synced /\ started' = started /\ setback' = setback /\ ~booting
      /\ unsettled' = unsettled /\ exported' = exported /\ disk' = disk /\ cond' = cond \ F
  BY DEF ObjectDeleted, ResolveObject, storeVars, process, saves
<1>2. OfObject(o) \subseteq F
  BY Bounds DEF OfObject
<1>3. /\ IsMap(active', FP, Alerts) /\ IsMap(lastSent', FP, Times)
      /\ DOMAIN active' = DOMAIN active \ OfObject(o)
      /\ \A x \in DOMAIN active' : active'[x] = active[x]
      /\ DOMAIN lastSent' = DOMAIN lastSent \ OfObject(o)
      /\ \A x \in DOMAIN lastSent' : lastSent'[x] = lastSent[x]
  <2>1. CASE ResolveObject(o)
    BY <2>1, DropFacts DEF ResolveObject
  <2>2. CASE OfObject(o) = {} /\ UNCHANGED storeVars
    BY <2>2 DEF storeVars, PipeInv, PipeType
  <2> QED BY <2>1, <2>2 DEF ObjectDeleted
<1>4. /\ IsMap(steadySince', FP, Times) /\ DOMAIN steadySince' = DOMAIN steadySince \ F
      /\ \A x \in DOMAIN steadySince' : steadySince'[x] = steadySince[x]
  <2>1. steadySince' = Without(steadySince, F) /\ IsMap(steadySince, FP, Times)
    BY DEF ObjectDeleted, PipeInv, PipeType
  <2> HIDE DEF F
  <2> QED BY <2>1 DEF Without, Restrict, IsMap
<1>5. /\ IsMap(page', FP, Times) /\ DOMAIN page' = DOMAIN page \ F
      /\ \A x \in DOMAIN page' : page'[x] = page[x]
  <2>1. page' = Without(page, F) /\ IsMap(page, FP, Times)
    BY DEF ObjectDeleted, PipeInv, PipeType
  <2> HIDE DEF F
  <2> QED BY <2>1 DEF Without, Restrict, IsMap
<1> HIDE DEF F
<1>6. PipeType' /\ SteadyIsStanding'
  BY <1>1, <1>3, <1>4, <1>5 DEF PipeInv, PipeType, SteadyIsStanding
<1>7. NothingAhead' /\ Phases'
  BY <1>1, <1>3, <1>4 DEF PipeInv, NothingAhead, Phases
<1>8. Redelivered'
  BY <1>1, <1>4 DEF PipeInv, Redelivered
<1>9. \A x \in FP : InForce(x)' => /\ InForce(x) /\ steadySince'[x] = steadySince[x]
                                  /\ x \notin F
  BY <1>1, <1>4 DEF InForce
<1>10. Refreshed'
  BY <1>1, <1>2, <1>3, <1>9, Bounds DEF PipeInv, Refreshed, Absorbed
<1>11. Seeded' /\ Retried'
  BY <1>1, <1>2, <1>3, <1>9 DEF PipeInv, Seeded, Retried
<1>12. PagesMute'
  BY <1>1, <1>2, <1>3, <1>5 DEF PipeInv, PagesMute
<1> QED BY <1>6, <1>7, <1>8, <1>10, <1>11, <1>12 DEF PipeInv

\* A rollback forgets the alert, its mute record and its page, and is a setback.
LEMMA SettleKeeps ==
    ASSUME PipeInv, NEW fp \in FP, Settle(fp)
    PROVE  PipeInv'
<1> USE StoreConstants, BehaviorConstants
<1>1. /\ booting' = booting /\ now' = now /\ observed' = observed /\ suppressed' = suppressed
      /\ synced' = synced /\ started' = started /\ ~booting /\ unsettled' \subseteq FP
      /\ exported' = exported /\ disk' = disk /\ cond' = cond /\ steadySince' = steadySince
  BY DEF Settle, Forget, storeVars, cluster, process, saves, PipeInv, PipeType
<1>2. CASE UNCHANGED <<storeVars, page, setback>>
  <2>1. active' = active /\ lastSent' = lastSent /\ page' = page /\ setback' = setback
    BY <1>2 DEF storeVars
  <2>2. PipeType' /\ NothingAhead' /\ SteadyIsStanding' /\ Phases' /\ Redelivered'
    BY <1>1, <2>1 DEF PipeInv, PipeType, NothingAhead, SteadyIsStanding, Phases, Redelivered
  <2>3. Refreshed' /\ Seeded' /\ Retried' /\ PagesMute'
    BY <1>1, <2>1 DEF PipeInv, Refreshed, InForce, Absorbed, Seeded, Retried, PagesMute
  <2> QED BY <2>2, <2>3 DEF PipeInv
<1>3. CASE Forget(fp) /\ page' = Without(page, {fp}) /\ setback' = now
  <2>1. /\ IsMap(active', FP, Alerts) /\ IsMap(lastSent', FP, Times)
        /\ DOMAIN active' = DOMAIN active \ {fp}
        /\ \A x \in DOMAIN active' : active'[x] = active[x]
        /\ DOMAIN lastSent' = DOMAIN lastSent \ {fp}
        /\ \A x \in DOMAIN lastSent' : lastSent'[x] = lastSent[x]
    BY <1>3, DropFacts DEF Forget
  <2>2. /\ IsMap(page', FP, Times) /\ DOMAIN page' = DOMAIN page \ {fp}
        /\ \A x \in DOMAIN page' : page'[x] = page[x]
    BY <1>3 DEF PipeInv, PipeType, Without, Restrict, IsMap
  <2>3. PipeType' /\ SteadyIsStanding'
    BY <1>1, <1>3, <2>1, <2>2 DEF PipeInv, PipeType, SteadyIsStanding
  <2>4. NothingAhead' /\ Phases' /\ Redelivered'
    BY <1>1, <2>1 DEF PipeInv, NothingAhead, Phases, Redelivered
  <2>5. Refreshed'
    BY <1>1, <1>3, <2>1, Bounds DEF PipeInv, Refreshed, InForce, Absorbed
  <2>6. Seeded' /\ Retried'
    BY <1>1, <1>3, <2>1, Bounds DEF PipeInv, Seeded, Retried, InForce
  <2>7. PagesMute'
    BY <1>1, <2>1, <2>2 DEF PipeInv, PagesMute
  <2> QED BY <2>3, <2>4, <2>5, <2>6, <2>7 DEF PipeInv
<1> QED BY <1>2, <1>3 DEF Settle

\* The sweeper resolves no alert of a steady condition, unless a reminder of it
\* was absorbed; and it keeps the mute records that still matter.
LEMMA SweepKeeps ==
    ASSUME PipeInv, Sweep
    PROVE  PipeInv'
<1> USE StoreConstants, BehaviorConstants
<1>1. /\ booting' = booting /\ now' = now /\ observed' = observed /\ suppressed' = suppressed
      /\ synced' = synced /\ started' = started /\ setback' = setback /\ ~booting /\ synced
      /\ unsettled' = unsettled /\ exported' = exported /\ disk' = disk /\ cond' = cond
      /\ steadySince' = steadySince
  BY DEF Sweep, SweepResolved, CleanOldHistory, cluster, process, saves
<1>2. \A x \in FP : InForce(x)' <=> InForce(x)
  BY <1>1 DEF InForce
<1>3. \A x \in FP : InForce(x) => now <= observed[x] + Resync
  <2> SUFFICES ASSUME NEW x \in FP, InForce(x)
               PROVE  now <= observed[x] + Resync
    OBVIOUS
  <2>1. x \in cond /\ x \in DOMAIN observed
    BY DEF InForce, PipeInv, SteadyIsStanding
  <2> QED BY <1>1, <2>1 DEF PipeInv, Redelivered
<1>4. CASE SweepResolved /\ page' = Without(page, Expired)
  <2>1. /\ IsMap(active', FP, Alerts) /\ IsMap(lastSent', FP, Times)
        /\ DOMAIN active' = DOMAIN active \ Expired
        /\ \A x \in DOMAIN active' : active'[x] = active[x]
        /\ DOMAIN lastSent' = DOMAIN lastSent \ Expired
        /\ \A x \in DOMAIN lastSent' : lastSent'[x] = lastSent[x]
    BY <1>4, DropFacts DEF SweepResolved
  <2>2. /\ IsMap(page', FP, Times) /\ DOMAIN page' = DOMAIN page \ Expired
        /\ \A x \in DOMAIN page' : page'[x] = page[x]
    BY <1>4 DEF PipeInv, PipeType, Without, Restrict, IsMap
  <2>3. PipeType' /\ SteadyIsStanding'
    BY <1>1, <2>1, <2>2 DEF PipeInv, PipeType, SteadyIsStanding
  <2>4. NothingAhead' /\ Phases' /\ Redelivered'
    BY <1>1, <2>1 DEF PipeInv, NothingAhead, Phases, Redelivered
  <2>5. Refreshed'
    BY <1>1, <1>2, <2>1, Bounds DEF PipeInv, Refreshed, Absorbed
  <2>6. Seeded'
    BY <1>1, <2>1 DEF PipeInv, Seeded, Expired
  <2>7. \A x \in Expired : InForce(x) => observed[x] <= setback
    <3> SUFFICES ASSUME NEW x \in Expired, InForce(x)
                 PROVE  observed[x] <= setback
      OBVIOUS
    <3>1. x \in DOMAIN active /\ x \in FP /\ now > active[x].endsAt
      BY Bounds DEF Expired
    <3>2. x \in DOMAIN observed /\ now <= observed[x] + Resync
      BY <1>3, <3>1 DEF InForce
    <3>3. ~(active[x].endsAt >= observed[x] + ResolveTTL)
      BY <3>1, <3>2, Bounds
    <3> QED BY <3>1, <3>3, Bounds DEF PipeInv, Refreshed, Absorbed
  <2>8. Retried'
    <3> SUFFICES ASSUME NEW x \in FP, x \notin DOMAIN active', InForce(x)
                 PROVE  \/ observed[x] < setback + MuteWindow
                        \/ observed[x] < started + Grace + MuteWindow
      BY <1>1, <1>2 DEF Retried
    <3>1. x \in DOMAIN observed
      BY DEF InForce
    <3>2. CASE x \in Expired
      BY <2>7, <3>1, <3>2, Bounds
    <3>3. CASE x \notin Expired
      BY <2>1, <3>3 DEF PipeInv, Retried
    <3> QED BY <3>2, <3>3
  <2>9. PagesMute'
    BY <1>1, <2>1, <2>2 DEF PipeInv, PagesMute
  <2> QED BY <2>3, <2>4, <2>5, <2>6, <2>8, <2>9 DEF PipeInv
<1>5. CASE CleanOldHistory /\ UNCHANGED page
  <2> DEFINE old == {fp \in DOMAIN lastSent : lastSent[fp] + retention < now}
  <2>1. active' = active /\ page' = page
    BY <1>5 DEF CleanOldHistory
  <2>2. lastSent' = Without(lastSent, old)
    BY <1>5 DEF CleanOldHistory
  <2>3. \A x \in old : x \in DOMAIN lastSent /\ lastSent[x] + MuteWindow < now
    BY RetentionCoversMute, Bounds
  <2> HIDE DEF old
  <2>4. /\ IsMap(lastSent', FP, Times) /\ DOMAIN lastSent' = DOMAIN lastSent \ old
        /\ \A x \in DOMAIN lastSent' : lastSent'[x] = lastSent[x]
    BY <2>2 DEF PipeInv, PipeType, Without, Restrict, IsMap
  <2>5. PipeType' /\ SteadyIsStanding'
    BY <1>1, <2>1, <2>4 DEF PipeInv, PipeType, SteadyIsStanding
  <2>6. NothingAhead' /\ Phases' /\ Redelivered'
    BY <1>1, <2>4 DEF PipeInv, NothingAhead, Phases, Redelivered
  <2>7. Refreshed'
    <3> SUFFICES ASSUME NEW x \in DOMAIN active, InForce(x)
                 PROVE  active[x].endsAt >= observed[x] + ResolveTTL \/ Absorbed(x)'
      BY <1>1, <1>2, <2>1, Bounds DEF Refreshed
    <3>1. x \in FP /\ x \in DOMAIN observed /\ now <= observed[x] + Resync
      BY <1>3, Bounds DEF InForce
    <3>2. Absorbed(x) => x \notin old
      BY <2>3, <3>1, Bounds DEF Absorbed
    <3>3. Absorbed(x) => Absorbed(x)'
      BY <1>1, <2>1, <2>4, <3>2 DEF Absorbed
    <3> QED BY <3>3 DEF PipeInv, Refreshed
  <2>8. Seeded' /\ Retried'
    BY <1>1, <1>2, <2>1, <2>4 DEF PipeInv, Seeded, Retried
  <2>9. PagesMute'
    <3> SUFFICES ASSUME NEW x \in DOMAIN page
                 PROVE  \/ x \in DOMAIN lastSent' /\ lastSent'[x] >= page[x]
                        \/ now >= page[x] + MuteWindow
      BY <1>1, <2>1 DEF PagesMute
    <3>1. (x \in DOMAIN lastSent /\ lastSent[x] >= page[x]) \/ now >= page[x] + MuteWindow
      BY <1>1 DEF PipeInv, PagesMute
    <3>2. x \in old /\ lastSent[x] >= page[x] => now >= page[x] + MuteWindow
      BY <2>3, Bounds
    <3> QED BY <2>4, <3>1, <3>2
  <2> QED BY <2>5, <2>6, <2>7, <2>8, <2>9 DEF PipeInv
<1> QED BY <1>4, <1>5 DEF Sweep

\* A save copies the store as it is, and takes its time to reach the disk.
LEMMA SaveKeeps ==
    ASSUME PipeInv, Export \/ Save
    PROVE  PipeInv'
<1>1. /\ active' = active /\ lastSent' = lastSent /\ booting' = booting /\ now' = now
      /\ synced' = synced /\ started' = started /\ setback' = setback /\ page' = page
      /\ unsettled' = unsettled /\ cond' = cond /\ suppressed' = suppressed
      /\ steadySince' = steadySince /\ observed' = observed /\ ~booting
  BY DEF Export, Save, storeVars, cluster, process
<1>2. /\ \A e \in exported' : IsSave(e) /\ \A x \in DOMAIN e.lastSent : e.lastSent[x] <= now
      /\ disk' = [store |-> disk'.store, pending |-> disk'.pending]
      /\ IsSave(disk'.store) /\ disk'.pending \subseteq FP
      /\ \A x \in DOMAIN disk'.store.lastSent : disk'.store.lastSent[x] <= now
  <2>1. CASE Export
    <3> DEFINE e == [active |-> active, valid |-> FP, lastSent |-> lastSent,
                     escalated |-> escalated]
    <3>1. exported' = {e} /\ disk' = disk
      BY <2>1 DEF Export
    <3>2. IsSave(e) /\ \A x \in DOMAIN e.lastSent : e.lastSent[x] <= now
      BY DEF PipeInv, PipeType, NothingAhead, IsSave
    <3> HIDE DEF e
    <3> QED BY <3>1, <3>2 DEF PipeInv, PipeType, NothingAhead
  <2>2. CASE Save
    <3>1. PICK e \in exported : disk' = [store |-> e, pending |-> unsettled] /\ exported' = {}
      BY <2>2 DEF Save
    <3>2. disk'.store = e /\ disk'.pending = unsettled
      BY <3>1
    <3> QED BY <3>1, <3>2 DEF PipeInv, PipeType, NothingAhead
  <2> QED BY <2>1, <2>2
<1>3. PipeType' /\ NothingAhead'
  BY <1>1, <1>2 DEF PipeInv, PipeType, NothingAhead
<1>4. SteadyIsStanding' /\ Phases' /\ Redelivered'
  BY <1>1 DEF PipeInv, SteadyIsStanding, Phases, Redelivered
<1>5. Refreshed' /\ Seeded' /\ Retried' /\ PagesMute'
  BY <1>1 DEF PipeInv, Refreshed, InForce, Absorbed, Seeded, Retried, PagesMute
<1> QED BY <1>3, <1>4, <1>5 DEF PipeInv

\* A crash leaves what the last save holds.
LEMMA CrashKeeps ==
    ASSUME PipeInv, Crash
    PROVE  PipeInv'
<1>1. /\ booting' = TRUE /\ synced' = FALSE /\ now' = now /\ started' = started
      /\ setback' = setback /\ unsettled' = {} /\ cond' = cond /\ suppressed' = suppressed
      /\ steadySince' = steadySince /\ exported' = {} /\ disk' = disk
      /\ active' = EmptyMap /\ lastSent' = EmptyMap /\ observed' = EmptyMap
  BY DEF Crash, cluster
<1>2. /\ IsMap(page', FP, Times)
      /\ \A x \in DOMAIN page' : /\ page'[x] = page[x]
                                 /\ x \in DOMAIN disk.store.lastSent
                                 /\ disk.store.lastSent[x] >= page[x]
  BY DEF Crash, PipeInv, PipeType, Restrict, IsMap
<1>3. DOMAIN EmptyMap = {} /\ IsMap(EmptyMap, FP, Alerts) /\ IsMap(EmptyMap, FP, Times)
  BY DEF EmptyMap, IsMap
<1>4. PipeType' /\ NothingAhead'
  BY <1>1, <1>2, <1>3 DEF PipeInv, PipeType, NothingAhead
<1>5. SteadyIsStanding' /\ Phases' /\ Redelivered'
  BY <1>1, <1>3 DEF PipeInv, SteadyIsStanding, Phases, Redelivered
<1>6. Refreshed' /\ Seeded' /\ Retried'
  BY <1>1 DEF Refreshed, InForce, Seeded, Retried
<1>7. PagesMute'
  BY <1>1, <1>2 DEF PagesMute
<1> QED BY <1>4, <1>5, <1>6, <1>7 DEF PipeInv

\* A restart takes the mute records of the last save, none of which is ahead of
\* the clock, or starts from nothing with no page to remember.
LEMMA BootKeeps ==
    ASSUME PipeInv, Boot \/ BootCold
    PROVE  PipeInv'
<1> USE StoreConstants, BehaviorConstants
<1>1. /\ booting /\ ~booting' /\ booting' \in BOOLEAN /\ synced' = synced /\ now' = now
      /\ started' = now /\ ~synced
      /\ setback' = setback /\ cond' = cond /\ suppressed' = suppressed
      /\ steadySince' = steadySince /\ exported' = exported /\ disk' = disk
      /\ observed' = observed /\ DOMAIN observed = {} /\ DOMAIN lastSent = {}
  BY DEF Boot, BootCold, Restore, ColdStart, cluster, saves, PipeInv, Phases
<1>2. /\ IsMap(active', FP, Alerts) /\ IsMap(lastSent', FP, Times) /\ IsMap(page', FP, Times)
      /\ unsettled' \subseteq FP
      /\ \A x \in DOMAIN lastSent' : lastSent'[x] <= now
      /\ \A x \in DOMAIN page' : /\ page'[x] = page[x] /\ x \in DOMAIN lastSent'
                                 /\ lastSent'[x] >= page[x]
  <2>1. CASE BootCold
    BY <1>1, <2>1 DEF BootCold, ColdStart, PipeInv, PipeType, NothingAhead, EmptyMap, IsMap
  <2>2. CASE Boot
    <3> DEFINE s == disk.store
               sent == {fp \in DOMAIN s.lastSent : s.lastSent[fp] <= now} \ DOMAIN lastSent
               alive == DOMAIN active \cup Admitted(s)
    <3>1. IsMap(s.active, FP, Alerts) /\ IsMap(s.lastSent, FP, Times)
          /\ \A x \in DOMAIN s.lastSent : s.lastSent[x] <= now
      BY DEF PipeInv, PipeType, IsSave, NothingAhead
    <3>2. sent = DOMAIN s.lastSent
      BY <1>1, <3>1
    <3>3. lastSent' = [fp \in sent |-> s.lastSent[fp]]
      BY <1>1, <2>2 DEF Boot, Restore
    <3>4. active' = [fp \in alive |->
                       IF fp \in Admitted(s) THEN restored(s.active[fp]) ELSE active[fp]]
      BY <2>2 DEF Boot, Restore
    <3>5. \A a \in Alerts : restored(a) \in Alerts
      BY DEF restored, Alerts, Times, PipeInv, PipeType
    <3>6. IsMap(active', FP, Alerts)
      <4>1. IsMap(active, FP, Alerts) /\ Admitted(s) \subseteq DOMAIN s.active
        BY DEF PipeInv, PipeType, Admitted
      <4> HIDE DEF s
      <4> QED BY <3>1, <3>4, <3>5, <4>1 DEF IsMap
    <3>7. unsettled' \subseteq FP /\ page' = page /\ IsMap(page, FP, Times)
      BY <2>2 DEF Boot, PipeInv, PipeType
    <3>8. \A x \in DOMAIN page : x \in DOMAIN s.lastSent /\ s.lastSent[x] >= page[x]
      BY <1>1 DEF PipeInv, PagesMute
    <3> HIDE DEF s, sent
    <3>9. IsMap(lastSent', FP, Times)
      BY <3>1, <3>2, <3>3 DEF IsMap
    <3> QED BY <3>1, <3>2, <3>3, <3>6, <3>7, <3>8, <3>9
  <2> QED BY <2>1, <2>2
<1>3. PipeType' /\ NothingAhead'
  BY <1>1, <1>2 DEF PipeInv, PipeType, NothingAhead
<1>4. SteadyIsStanding' /\ Phases' /\ Redelivered'
  BY <1>1 DEF PipeInv, SteadyIsStanding, Phases, Redelivered
<1>5. Refreshed' /\ Retried'
  BY <1>1 DEF Refreshed, InForce, Retried
<1>6. Seeded'
  BY <1>1, <1>2, Bounds DEF Seeded, IsMap, Times
<1>7. PagesMute'
  BY <1>1, <1>2 DEF PagesMute
<1> QED BY <1>3, <1>4, <1>5, <1>6, <1>7 DEF PipeInv

\* The initial lists deliver every standing condition at once.
LEMMA InitialSyncKeeps ==
    ASSUME PipeInv, InitialSync
    PROVE  PipeInv'
<1> USE BehaviorConstants
<1>1. /\ active' = active /\ lastSent' = lastSent /\ booting' = booting /\ now' = now
      /\ started' = started /\ setback' = setback /\ page' = page
      /\ unsettled' = unsettled /\ cond' = cond /\ suppressed' = suppressed
      /\ steadySince' = steadySince /\ observed' = observed /\ ~booting /\ ~synced
      /\ exported' = exported /\ disk' = disk /\ synced' = TRUE
      /\ cond \subseteq DOMAIN observed
  BY DEF InitialSync, storeVars, cluster, saves
<1>2. PipeType' /\ NothingAhead' /\ SteadyIsStanding'
  BY <1>1 DEF PipeInv, PipeType, NothingAhead, SteadyIsStanding
<1>3. Phases' /\ Redelivered'
  BY <1>1, Bounds DEF PipeInv, Phases, Redelivered
<1>4. Refreshed' /\ Seeded' /\ Retried' /\ PagesMute'
  BY <1>1 DEF PipeInv, Refreshed, InForce, Absorbed, Seeded, Retried, PagesMute
<1> QED BY <1>2, <1>3, <1>4 DEF PipeInv

\* Time does not pass over an observation that is due.
LEMMA TimeKeeps ==
    ASSUME PipeInv, TimePasses
    PROVE  PipeInv'
<1> USE StoreConstants, BehaviorConstants
<1>1. /\ active' = active /\ lastSent' = lastSent /\ booting' = booting /\ now' = now + 1
      /\ started' = started /\ setback' = setback /\ page' = page
      /\ unsettled' = unsettled /\ cond' = cond /\ suppressed' = suppressed
      /\ steadySince' = steadySince /\ observed' = observed
      /\ exported' = exported /\ disk' = disk /\ synced' = synced
      /\ booting \/ synced
  BY DEF TimePasses, Tick, pipeVars, cluster, process, saves
<1>2. PipeType' /\ SteadyIsStanding'
  BY <1>1 DEF PipeInv, PipeType, SteadyIsStanding
<1>3. NothingAhead'
  <2>1. \A e \in exported \cup {disk.store} :
          \A x \in DOMAIN e.lastSent : e.lastSent[x] \in Nat /\ e.lastSent[x] <= now
    BY DEF PipeInv, PipeType, NothingAhead, IsSave, IsMap, Times
  <2> QED BY <1>1, <2>1, Bounds DEF NothingAhead
<1>4. Phases'
  BY <1>1 DEF PipeInv, Phases
<1>5. Redelivered'
  <2> SUFFICES ASSUME synced, NEW x \in cond
               PROVE  x \in DOMAIN observed /\ now + 1 <= observed[x] + Resync
    BY <1>1 DEF Redelivered
  <2>1. ~Due(x)
    BY <1>1 DEF TimePasses, PipeInv, Phases
  <2> QED BY <2>1, Bounds DEF Due
<1>6. Refreshed' /\ Seeded' /\ Retried'
  BY <1>1 DEF PipeInv, Refreshed, InForce, Absorbed, Seeded, Retried
<1>7. PagesMute'
  BY <1>1, Bounds DEF PipeInv, PagesMute
<1> QED BY <1>2, <1>3, <1>4, <1>5, <1>6, <1>7 DEF PipeInv

\* The process starts down, with nothing known and an empty save.
LEMMA PipeStart == PipeInit => PipeInv
<1> SUFFICES ASSUME PipeInit PROVE PipeInv
  OBVIOUS
<1>1. /\ active = EmptyMap /\ lastSent = EmptyMap /\ booting = TRUE /\ now = 1
      /\ cond = {} /\ suppressed = {} /\ observed = EmptyMap /\ synced = FALSE /\ started = 0
      /\ unsettled = {} /\ exported = {} /\ steadySince = EmptyMap /\ page = EmptyMap
      /\ setback = 0 /\ disk.store.lastSent = EmptyMap
  BY DEF PipeInit, Init
<1>2. DOMAIN EmptyMap = {} /\ IsMap(EmptyMap, FP, Alerts) /\ IsMap(EmptyMap, FP, Times)
  BY DEF EmptyMap, IsMap
<1>3. /\ disk = [store |-> disk.store, pending |-> disk.pending]
      /\ IsSave(disk.store) /\ disk.pending \subseteq FP
  BY <1>2 DEF PipeInit, IsSave
<1>4. PipeType /\ NothingAhead
  <2>1. PipeType
    BY <1>1, <1>2, <1>3 DEF PipeType
  <2>2. \A e \in exported \cup {disk.store} : e.lastSent = EmptyMap
    BY <1>1
  <2>3. NothingAhead
    BY <1>1, <1>2, <2>2 DEF NothingAhead
  <2> QED BY <2>1, <2>3
<1>5. SteadyIsStanding /\ Phases /\ Redelivered
  BY <1>1, <1>2 DEF SteadyIsStanding, Phases, Redelivered
<1>6. Refreshed /\ Seeded /\ Retried /\ PagesMute
  BY <1>1, <1>2 DEF Refreshed, InForce, Seeded, Retried, PagesMute
<1> QED BY <1>4, <1>5, <1>6 DEF PipeInv

\* Every step keeps the invariant.
LEMMA PipeStep == PipeInv /\ [PipeNext]_allVars => PipeInv'
<1> SUFFICES ASSUME PipeInv, [PipeNext]_allVars PROVE PipeInv'
  OBVIOUS
<1>1. CASE UNCHANGED allVars
  <2>1. PipeType' /\ NothingAhead' /\ SteadyIsStanding' /\ Phases' /\ Redelivered'
    BY <1>1 DEF PipeInv, allVars, storeVars, pipeVars, cluster, process, saves,
                PipeType, NothingAhead, SteadyIsStanding, Phases, Redelivered
  <2>2. Refreshed' /\ Seeded' /\ Retried' /\ PagesMute'
    BY <1>1 DEF PipeInv, allVars, storeVars, pipeVars, cluster, process, saves,
                Refreshed, InForce, Absorbed, Seeded, Retried, PagesMute
  <2> QED BY <2>1, <2>2 DEF PipeInv
<1>2. CASE PipeNext
  BY <1>2, ClusterKeeps, ObserveKeeps, SettleKeeps, ObjectDeletedKeeps, SweepKeeps, SaveKeeps,
     CrashKeeps, BootKeeps, InitialSyncKeeps, TimeKeeps DEF PipeNext
<1> QED BY <1>1, <1>2

\* The invariant holds in every reachable state.
LEMMA PipeAlways == PipeSpec => []PipeInv
BY PipeStart, PipeStep, PTL DEF PipeSpec

-----------------------------------------------------------------------------
(***************************************************************************)
(* The theorems.                                                           *)
(***************************************************************************)
\* Resyncs keep the alert of a standing condition alive.  validateBehavior asks
\* for a resolveTTL beyond one resync; with grouping it takes two, because an
\* absorbed reminder does not refresh the deadline.
THEOREM StandingStaysAlive ==
    ASSUME Grouping => 2 * Resync <= ResolveTTL
    PROVE  PipeSpec => []AliveWhileStanding
<1> USE StoreConstants, BehaviorConstants
<1>1. PipeInv => AliveWhileStanding
  <2> SUFFICES ASSUME PipeInv, ~booting, synced,
                      NEW fp \in DOMAIN active \cap DOMAIN steadySince,
                      now > AfterGrace(fp) + 2 * Resync
               PROVE  now <= active[fp].endsAt
    BY DEF AliveWhileStanding
  <2>1. now > started + Grace + 2 * Resync /\ now > steadySince[fp] + 2 * Resync
    BY Bounds DEF AfterGrace
  <2>2. fp \in DOMAIN observed /\ now <= observed[fp] + Resync
    BY <2>1, Bounds, SeenLately
  <2>3. InForce(fp)
    BY <2>1, <2>2, Bounds DEF InForce
  <2>4. CASE active[fp].endsAt >= observed[fp] + ResolveTTL
    BY <2>2, <2>4, Bounds
  <2>5. CASE Absorbed(fp)
    BY <2>1, <2>2, <2>5, Bounds DEF Absorbed
  <2> QED BY <2>3, <2>4, <2>5 DEF PipeInv, Refreshed
<1> QED BY <1>1, PipeAlways, PTL

\* The startup grace only delays: whatever stands for the grace, a mute window and
\* a resync without a setback is active.
THEOREM StandingIsActive == PipeSpec => []StandingBecomesActive
<1> USE StoreConstants, BehaviorConstants
<1>1. PipeInv => StandingBecomesActive
  <2> SUFFICES ASSUME PipeInv, ~booting, synced, NEW fp \in DOMAIN steadySince,
                      \A t \in {steadySince[fp], started, setback} :
                          now > t + Grace + MuteWindow + Resync,
                      fp \notin DOMAIN active
               PROVE  FALSE
    BY DEF StandingBecomesActive
  <2>1. /\ now > steadySince[fp] + Grace + MuteWindow + Resync
        /\ now > started + Grace + MuteWindow + Resync
        /\ now > setback + Grace + MuteWindow + Resync
    OBVIOUS
  <2>2. fp \in DOMAIN observed /\ now <= observed[fp] + Resync
    BY <2>1, Bounds, SeenLately
  <2>3. InForce(fp) /\ fp \in FP
    BY <2>1, <2>2, Bounds DEF InForce
  <2> QED BY <2>1, <2>2, <2>3, Bounds DEF PipeInv, Retried
<1> QED BY <1>1, PipeAlways, PTL

\* A page is followed by the next one of its incident after a mute window at the
\* earliest.
THEOREM PagesAreSpaced == PipeSpec => NoRepageWhileStanding
<1> USE StoreConstants, BehaviorConstants
<1>1. PipeInv /\ [PipeNext]_allVars => [PagesSpaced]_allVars
  <2> SUFFICES ASSUME PipeInv, PipeNext, NEW fp \in DOMAIN page, fp \in DOMAIN page',
                      page'[fp] # page[fp]
               PROVE  page'[fp] >= page[fp] + MuteWindow
    BY DEF PagesSpaced
  <2>1. IsMap(page, FP, Times) /\ \A K : Without(page, K)[fp] = page[fp] \/ fp \in K
    BY DEF PipeInv, PipeType, IsMap, Without, Restrict
  <2>2. \A K : fp \in DOMAIN Without(page, K) => fp \notin K
    BY DEF Without, Restrict
  <2>3. PICK x \in FP : Observe(x)
    <3>1. CASE \E x \in FP : \/ ConditionStarts(x) \/ ConditionEnds(x) \/ SuppressionChanges(x)
                            \/ Observe(x) \/ Settle(x)
      BY <2>1, <2>2, <3>1 DEF ConditionStarts, ConditionEnds, SuppressionChanges, Settle
    <3>2. CASE \E o \in Objects : ObjectDeleted(o)
      BY <2>1, <2>2, <3>2 DEF ObjectDeleted
    <3>3. CASE Sweep
      BY <2>1, <2>2, <3>3 DEF Sweep
    <3>4. CASE Export \/ Save \/ Boot \/ InitialSync \/ TimePasses
      BY <3>4 DEF Export, Save, Boot, InitialSync, TimePasses, pipeVars
    <3>5. CASE Crash
      BY <3>5 DEF Crash, Restrict
    <3>6. CASE BootCold
      BY <3>6 DEF BootCold, EmptyMap
    <3> QED BY <3>1, <3>2, <3>3, <3>4, <3>5, <3>6 DEF PipeNext
  <2>4. x = fp /\ Paged(fp) /\ ~booting /\ fp \in FP
    BY <2>3, Bounds, ObserveFacts DEF Graced, Touched, Hushed, Folded, Observe
  <2>5. (fp \in DOMAIN lastSent /\ lastSent[fp] >= page[fp]) \/ now >= page[fp] + MuteWindow
    BY <2>4 DEF PipeInv, PagesMute
  <2> QED BY <2>4, <2>5, Bounds DEF Paged, mutedLocked
<1> QED BY <1>1, PipeAlways, PTL DEF PipeSpec, NoRepageWhileStanding
=============================================================================
