-------------------------- MODULE AlertStoreProofs --------------------------
(***************************************************************************)
(* Proofs about AlertStore, for every set of fingerprints, objects, rules  *)
(* and snapshots and every choice of the time constants.                   *)
(***************************************************************************)
EXTENDS AlertStore, TLAPS

-----------------------------------------------------------------------------
(***************************************************************************)
(* The inductive invariant.  Beside the checked invariants it says that a  *)
(* notification is never dated after now, and that a pair is in the        *)
(* history of escalations only while its mark is there.                    *)
(***************************************************************************)
NotifiedPast == \A fp \in DOMAIN notified : notified[fp] <= now
EscalationsMarked ==
    \A p \in escalations : p[1] \in DOMAIN escalated /\ p[2] \in escalated[p[1]]

IInv ==
    /\ TypeOK
    /\ EscalatedOnlyActive
    /\ ActiveHasDeadline
    /\ NotifiedPast
    /\ MutedUntilWindowEnds
    /\ EscalationsMarked

-----------------------------------------------------------------------------
\* The store starts empty, so everything the invariant quantifies over is.
LEMMA InitIInv == Init => IInv
BY DEF Init, IInv, TypeOK, IsMap, EmptyMap, EscalatedOnlyActive, ActiveHasDeadline,
       NotifiedPast, MutedUntilWindowEnds, MuteRecord, EscalationsMarked, Times

\* The retention of CleanOldHistory is a time no shorter than the mute window.
LEMMA RetentionCoversMute == retention \in Nat /\ retention >= MuteWindow
BY StoreConstants DEF retention

\* Whatever dropLocked removes, the invariant survives.
LEMMA DropIInv ==
    ASSUME IInv, NEW F, dropLocked(F), gen' \in Nat, UNCHANGED <<booting, now>>
    PROVE  IInv'
<1>1. /\ IsMap(active', FP, Alerts) /\ DOMAIN active' = DOMAIN active \ F
      /\ \A x \in DOMAIN active' : active'[x] = active[x]
  BY DEF IInv, TypeOK, dropLocked, IsMap, Without, Restrict
<1>2. /\ IsMap(lastSent', FP, Times) /\ DOMAIN lastSent' = DOMAIN lastSent \ F
      /\ \A x \in DOMAIN lastSent' : lastSent'[x] = lastSent[x]
  BY DEF IInv, TypeOK, dropLocked, IsMap, Without, Restrict
<1>3. /\ IsMap(escalated', FP, SUBSET Rules) /\ DOMAIN escalated' = DOMAIN escalated \ F
      /\ \A x \in DOMAIN escalated' : escalated'[x] = escalated[x]
  BY DEF IInv, TypeOK, dropLocked, IsMap, Without, Restrict
<1>4. /\ IsMap(notified', FP, Times) /\ DOMAIN notified' = DOMAIN notified \ F
      /\ \A x \in DOMAIN notified' : notified'[x] = notified[x]
  BY DEF IInv, TypeOK, dropLocked, IsMap, Without, Restrict
<1>5. TypeOK'
  BY <1>1, <1>2, <1>3, <1>4 DEF IInv, TypeOK, dropLocked
<1>6. EscalatedOnlyActive' /\ ActiveHasDeadline'
  BY <1>1, <1>3 DEF IInv, EscalatedOnlyActive, ActiveHasDeadline
<1>7. NotifiedPast' /\ MutedUntilWindowEnds'
  BY <1>2, <1>4 DEF IInv, NotifiedPast, MutedUntilWindowEnds, MuteRecord
<1>8. EscalationsMarked'
  BY <1>3 DEF IInv, TypeOK, EscalationsMarked, dropLocked
<1> QED BY <1>5, <1>6, <1>7, <1>8 DEF IInv

\* The methods of the emit path preserve the invariant.
LEMMA EmitIInv ==
    ASSUME IInv, NEW fp \in FP, Emit(fp)
    PROVE  IInv'
<1> USE StoreConstants DEF Times, Alerts
<1>1. CASE \E t \in {now - 1, now} : ShouldSend(fp, t)
  <2>1. PICK t \in {now - 1, now} : ShouldSend(fp, t)
    BY <1>1
  <2>2. t \in Nat
    BY DEF IInv, TypeOK
  <2>3. startOf(fp, t) \in Nat
    BY <2>2 DEF IInv, TypeOK, IsMap, startOf
  <2>4. now + ResolveTTL \in Nat /\ now + ResolveTTL # 0 /\ now \in Nat
    BY DEF IInv, TypeOK
  <2>5. /\ IsMap(active', FP, Alerts) /\ DOMAIN active' = DOMAIN active \cup {fp}
        /\ active'[fp].endsAt # 0
        /\ \A x \in DOMAIN active : x # fp => active'[x] = active[x]
    BY <2>1, <2>3, <2>4 DEF IInv, TypeOK, IsMap, Put, ShouldSend
  <2>6. /\ IsMap(lastSent', FP, Times) /\ DOMAIN lastSent' = DOMAIN lastSent \cup {fp}
        /\ lastSent'[fp] = now
        /\ \A x \in DOMAIN lastSent : x # fp => lastSent'[x] = lastSent[x]
    BY <2>1, <2>4 DEF IInv, TypeOK, IsMap, Put, ShouldSend
  <2>7. /\ IsMap(notified', FP, Times) /\ DOMAIN notified' = DOMAIN notified \cup {fp}
        /\ notified'[fp] = now
        /\ \A x \in DOMAIN notified : x # fp => notified'[x] = notified[x]
    BY <2>1, <2>4 DEF IInv, TypeOK, IsMap, Put, ShouldSend
  <2>8. TypeOK'
    BY <2>1, <2>5, <2>6, <2>7 DEF IInv, TypeOK, ShouldSend
  <2>9. EscalatedOnlyActive' /\ ActiveHasDeadline' /\ EscalationsMarked'
    BY <2>1, <2>5 DEF IInv, EscalatedOnlyActive, ActiveHasDeadline, EscalationsMarked, ShouldSend
  <2>10. NotifiedPast' /\ MutedUntilWindowEnds'
    BY <2>1, <2>4, <2>6, <2>7 DEF IInv, NotifiedPast, MutedUntilWindowEnds, MuteRecord, ShouldSend
  <2> QED BY <2>8, <2>9, <2>10 DEF IInv
<1>2. CASE ShouldSendEvent(fp)
  <2>1. now \in Nat
    BY DEF IInv, TypeOK
  <2>2. /\ IsMap(lastSent', FP, Times) /\ DOMAIN lastSent' = DOMAIN lastSent \cup {fp}
        /\ lastSent'[fp] = now
        /\ \A x \in DOMAIN lastSent : x # fp => lastSent'[x] = lastSent[x]
    BY <1>2, <2>1 DEF IInv, TypeOK, IsMap, Put, ShouldSendEvent
  <2>3. /\ IsMap(notified', FP, Times) /\ DOMAIN notified' = DOMAIN notified \cup {fp}
        /\ notified'[fp] = now
        /\ \A x \in DOMAIN notified : x # fp => notified'[x] = notified[x]
    BY <1>2, <2>1 DEF IInv, TypeOK, IsMap, Put, ShouldSendEvent
  <2>4. TypeOK'
    BY <1>2, <2>2, <2>3 DEF IInv, TypeOK, ShouldSendEvent
  <2>5. EscalatedOnlyActive' /\ ActiveHasDeadline' /\ EscalationsMarked'
    BY <1>2 DEF IInv, EscalatedOnlyActive, ActiveHasDeadline, EscalationsMarked, ShouldSendEvent
  <2>6. NotifiedPast' /\ MutedUntilWindowEnds'
    BY <1>2, <2>1, <2>2, <2>3
    DEF IInv, NotifiedPast, MutedUntilWindowEnds, MuteRecord, ShouldSendEvent
  <2> QED BY <2>4, <2>5, <2>6 DEF IInv
<1>3. CASE Seed(fp)
  <2>1. now \in Nat
    BY DEF IInv, TypeOK
  <2>2. /\ IsMap(lastSent', FP, Times) /\ DOMAIN lastSent' = DOMAIN lastSent \cup {fp}
        /\ lastSent'[fp] = now
        /\ \A x \in DOMAIN lastSent : x # fp => lastSent'[x] = lastSent[x]
    BY <1>3, <2>1 DEF IInv, TypeOK, IsMap, Put, Seed
  <2>3. TypeOK'
    BY <1>3, <2>2 DEF IInv, TypeOK, Seed
  <2>4. EscalatedOnlyActive' /\ ActiveHasDeadline' /\ EscalationsMarked'
    BY <1>3 DEF IInv, EscalatedOnlyActive, ActiveHasDeadline, EscalationsMarked, Seed
  <2>5. NotifiedPast' /\ MutedUntilWindowEnds'
    BY <1>3, <2>1, <2>2 DEF IInv, NotifiedPast, MutedUntilWindowEnds, MuteRecord, Seed
  <2> QED BY <2>3, <2>4, <2>5 DEF IInv
<1>4. CASE Touch(fp)
  <2>1. now + ResolveTTL \in Nat /\ now + ResolveTTL # 0
    BY DEF IInv, TypeOK
  <2>2. /\ IsMap(active', FP, Alerts) /\ DOMAIN active' = DOMAIN active
        /\ active'[fp].endsAt # 0
        /\ \A x \in DOMAIN active : x # fp => active'[x] = active[x]
    BY <1>4, <2>1 DEF IInv, TypeOK, IsMap, Touch
  <2>3. TypeOK'
    BY <1>4, <2>2 DEF IInv, TypeOK, Touch
  <2>4. EscalatedOnlyActive' /\ ActiveHasDeadline' /\ EscalationsMarked'
    BY <1>4, <2>2 DEF IInv, EscalatedOnlyActive, ActiveHasDeadline, EscalationsMarked, Touch
  <2>5. NotifiedPast' /\ MutedUntilWindowEnds'
    BY <1>4 DEF IInv, NotifiedPast, MutedUntilWindowEnds, MuteRecord, Touch
  <2> QED BY <2>3, <2>4, <2>5 DEF IInv
<1> QED BY <1>1, <1>2, <1>3, <1>4 DEF Emit

\* A mark is added only to alerts that are active, and none is taken away.
LEMMA MarkOverdueIInv ==
    ASSUME IInv, NEW r \in Rules, MarkOverdue(r)
    PROVE  IInv'
<1>1. Overdue(r) \subseteq DOMAIN active /\ Overdue(r) \subseteq FP
  BY DEF IInv, TypeOK, IsMap, Overdue
<1>2. \A fp \in DOMAIN escalated : marksOf(fp) = escalated[fp]
  BY DEF marksOf
<1>3. \A fp : marksOf(fp) \subseteq Rules
  BY DEF IInv, TypeOK, IsMap, marksOf
<1>4. /\ DOMAIN escalated' = DOMAIN escalated \cup Overdue(r)
      /\ \A fp \in DOMAIN escalated' : /\ marksOf(fp) \subseteq escalated'[fp]
                                       /\ escalated'[fp] \subseteq Rules
                                       /\ fp \in Overdue(r) => r \in escalated'[fp]
  BY <1>3 DEF MarkOverdue
<1>5. IsMap(escalated', FP, SUBSET Rules)
  <2>1. DOMAIN escalated' \subseteq FP
    BY <1>1, <1>4 DEF IInv, TypeOK, IsMap
  <2>2. escalated' \in [DOMAIN escalated' -> SUBSET Rules]
    BY <1>3 DEF MarkOverdue
  <2> QED BY <2>1, <2>2 DEF IsMap
<1>6. TypeOK'
  BY <1>1, <1>5 DEF IInv, TypeOK, MarkOverdue
<1>7. EscalatedOnlyActive' /\ ActiveHasDeadline'
  BY <1>1, <1>4 DEF IInv, EscalatedOnlyActive, ActiveHasDeadline, MarkOverdue
<1>8. NotifiedPast' /\ MutedUntilWindowEnds'
  BY DEF IInv, NotifiedPast, MutedUntilWindowEnds, MuteRecord, MarkOverdue
<1>9. EscalationsMarked'
  BY <1>2, <1>4 DEF IInv, EscalationsMarked, MarkOverdue
<1> QED BY <1>6, <1>7, <1>8, <1>9 DEF IInv

\* An evicted record is older than the retention, so it muted nothing.
LEMMA CleanOldHistoryIInv ==
    ASSUME IInv, CleanOldHistory
    PROVE  IInv'
<1> DEFINE old == {fp \in DOMAIN lastSent : lastSent[fp] + retention < now}
<1>1. lastSent' = Without(lastSent, old)
  BY DEF CleanOldHistory
<1>2. /\ IsMap(lastSent', FP, Times)
      /\ DOMAIN lastSent' = DOMAIN lastSent \ old
      /\ \A fp \in DOMAIN lastSent' : lastSent'[fp] = lastSent[fp]
  BY <1>1 DEF IInv, TypeOK, IsMap, Without, Restrict
<1>3. TypeOK'
  BY <1>2 DEF IInv, TypeOK, CleanOldHistory
<1>4. EscalatedOnlyActive' /\ ActiveHasDeadline' /\ EscalationsMarked' /\ NotifiedPast'
  BY DEF IInv, EscalatedOnlyActive, ActiveHasDeadline, EscalationsMarked, NotifiedPast,
         CleanOldHistory
<1>5. ASSUME NEW fp \in DOMAIN notified, now - notified[fp] < MuteWindow
      PROVE  fp \in DOMAIN lastSent' /\ lastSent'[fp] >= notified[fp]
  <2>1. fp \in DOMAIN lastSent /\ lastSent[fp] >= notified[fp]
    BY <1>5 DEF IInv, MutedUntilWindowEnds, MuteRecord
  <2>2. lastSent[fp] \in Nat /\ notified[fp] \in Nat /\ now \in Nat
    BY <1>5, <2>1 DEF IInv, TypeOK, IsMap, Times
  <2>3. ~(lastSent[fp] + retention < now)
    BY <1>5, <2>1, <2>2, RetentionCoversMute, StoreConstants
  <2> QED BY <1>2, <2>1, <2>3
<1>6. MutedUntilWindowEnds'
  BY <1>5 DEF MutedUntilWindowEnds, MuteRecord, CleanOldHistory
<1> QED BY <1>3, <1>4, <1>6 DEF IInv

\* Any snapshot, however broken, leaves the invariant in place.
LEMMA RestoreIInv ==
    ASSUME IInv, NEW s \in Snapshots, Restore(s)
    PROVE  IInv'
<1> DEFINE sent  == {fp \in DOMAIN s.lastSent : s.lastSent[fp] <= now} \ DOMAIN lastSent
           alive == DOMAIN active \cup Admitted(s)
           marks == DOMAIN s.escalated \cap alive
<1>1. /\ IsMap(s.active, FP, Alerts)
      /\ IsMap(s.lastSent, FP, Times)
      /\ IsMap(s.escalated, FP, SUBSET Rules)
  BY StoreConstants DEF IsSnapshot
<1>2. \A a \in Alerts : restored(a) \in Alerts /\ restored(a).endsAt # 0
  BY StoreConstants DEF IInv, TypeOK, restored, Alerts, Times
<1>3. Admitted(s) \subseteq DOMAIN s.active /\ Admitted(s) \cap DOMAIN active = {}
  BY DEF Admitted
<1>4. /\ IsMap(active', FP, Alerts)
      /\ DOMAIN active' = alive
      /\ \A fp \in alive : active'[fp].endsAt # 0
  <2>1. active' = [fp \in alive |->
                     IF fp \in Admitted(s) THEN restored(s.active[fp]) ELSE active[fp]]
    BY DEF Restore
  <2>2. \A fp \in alive : active'[fp] \in Alerts /\ active'[fp].endsAt # 0
    BY <1>1, <1>2, <1>3, <2>1 DEF IInv, TypeOK, IsMap, ActiveHasDeadline
  <2>3. alive \subseteq FP
    BY <1>1, <1>3 DEF IInv, TypeOK, IsMap
  <2> QED BY <2>1, <2>2, <2>3 DEF IsMap
<1>5. /\ IsMap(lastSent', FP, Times)
      /\ DOMAIN lastSent' = DOMAIN lastSent \cup sent
      /\ \A fp \in DOMAIN lastSent : lastSent'[fp] = lastSent[fp]
  BY <1>1 DEF IInv, TypeOK, IsMap, Restore
<1>6. \A fp : marksOf(fp) \subseteq Rules
  BY DEF IInv, TypeOK, IsMap, marksOf
<1>7. /\ IsMap(escalated', FP, SUBSET Rules)
      /\ DOMAIN escalated' = DOMAIN escalated \cup marks
      /\ \A fp \in DOMAIN escalated : escalated[fp] \subseteq escalated'[fp]
  <2>1. escalated' = [fp \in DOMAIN escalated \cup marks |->
                        marksOf(fp) \cup (IF fp \in marks THEN s.escalated[fp] ELSE {})]
    BY DEF Restore
  <2>2. \A fp \in DOMAIN escalated : marksOf(fp) = escalated[fp]
    BY DEF marksOf
  <2>3. \A fp \in marks : s.escalated[fp] \subseteq Rules
    BY <1>1 DEF IsMap
  <2>4. \A fp \in DOMAIN escalated' : escalated'[fp] \subseteq Rules
    BY <1>6, <2>1, <2>3
  <2>5. DOMAIN escalated' \subseteq FP
    BY <1>1, <2>1 DEF IInv, TypeOK, IsMap
  <2> QED BY <2>1, <2>2, <2>4, <2>5 DEF IsMap
<1>8. TypeOK'
  <2>1. gen' = gen + 1 /\ booting' = FALSE /\ UNCHANGED <<now, notified, escalations>>
    BY DEF Restore
  <2>2. /\ IsMap(active', FP, Alerts)
        /\ IsMap(lastSent', FP, Times)
        /\ IsMap(escalated', FP, SUBSET Rules)
    BY <1>4, <1>5, <1>7
  <2>3. IsMap(notified', FP, Times) /\ now' \in Nat \ {0} /\ escalations' \subseteq FP \X Rules
    BY <2>1 DEF IInv, TypeOK
  <2>4. gen' \in Nat
    BY <2>1 DEF IInv, TypeOK
  <2>5. booting' \in BOOLEAN
    BY <2>1, Zenon
  <2> QED BY <2>2, <2>3, <2>4, <2>5 DEF TypeOK
<1>9. EscalatedOnlyActive' /\ ActiveHasDeadline'
  BY <1>4, <1>7 DEF IInv, EscalatedOnlyActive, ActiveHasDeadline
<1>10. NotifiedPast' /\ MutedUntilWindowEnds'
  <2>1. UNCHANGED <<now, notified>>
    BY DEF Restore
  <2>2. \A fp \in DOMAIN lastSent : fp \in DOMAIN lastSent' /\ lastSent'[fp] = lastSent[fp]
    BY <1>5
  <2>3. NotifiedPast'
    BY <2>1 DEF IInv, NotifiedPast
  <2>4. MutedUntilWindowEnds'
    BY <2>1, <2>2 DEF IInv, MutedUntilWindowEnds, MuteRecord
  <2> QED BY <2>3, <2>4
<1>11. EscalationsMarked'
  BY <1>7 DEF IInv, EscalationsMarked, Restore
<1> QED BY <1>8, <1>9, <1>10, <1>11 DEF IInv

\* Every step preserves the invariant.
LEMMA StepIInv == IInv /\ [Next]_storeVars => IInv'
<1> SUFFICES ASSUME IInv, [Next]_storeVars PROVE IInv'
  OBVIOUS
<1>1. ASSUME NEW s \in Snapshots, Restore(s) PROVE IInv'
  BY <1>1, RestoreIInv
<1>2. CASE ColdStart
  BY <1>2 DEF ColdStart, IInv, TypeOK, EscalatedOnlyActive, ActiveHasDeadline, NotifiedPast,
              MutedUntilWindowEnds, MuteRecord, EscalationsMarked
<1>3. CASE Tick
  <2>1. UNCHANGED <<active, lastSent, escalated, gen, booting, notified, escalations>>
    BY <1>3 DEF Tick
  <2>2. now' = now + 1 /\ now \in Nat \ {0}
    BY <1>3 DEF Tick, IInv, TypeOK
  <2>3. \A fp \in DOMAIN notified : notified[fp] \in Nat
    BY DEF IInv, TypeOK, IsMap, Times
  <2>4. TypeOK' /\ EscalatedOnlyActive' /\ ActiveHasDeadline' /\ EscalationsMarked'
    BY <2>1, <2>2 DEF IInv, TypeOK, EscalatedOnlyActive, ActiveHasDeadline, EscalationsMarked
  <2>5. NotifiedPast' /\ MutedUntilWindowEnds'
    BY <2>1, <2>2, <2>3, StoreConstants
    DEF IInv, NotifiedPast, MutedUntilWindowEnds, MuteRecord
  <2> QED BY <2>4, <2>5 DEF IInv
<1>4. CASE Call
  <2>1. ASSUME NEW fp \in FP, Emit(fp) PROVE IInv'
    BY <2>1, EmitIInv
  <2>2. CASE SweepResolved
    <3>1. dropLocked(Expired) /\ gen' \in Nat /\ UNCHANGED <<booting, now>>
      BY <2>2 DEF SweepResolved, IInv, TypeOK
    <3> QED BY <3>1, DropIInv
  <2>3. CASE CleanOldHistory
    BY <2>3, CleanOldHistoryIInv
  <2>4. ASSUME NEW r \in Rules, MarkOverdue(r) PROVE IInv'
    BY <2>4, MarkOverdueIInv
  <2>5. ASSUME NEW o \in Objects, ResolveObject(o) PROVE IInv'
    <3>1. dropLocked(OfObject(o)) /\ gen' \in Nat /\ UNCHANGED <<booting, now>>
      BY <2>5 DEF ResolveObject, IInv, TypeOK
    <3> QED BY <3>1, DropIInv
  <2>6. ASSUME NEW fp \in FP, Forget(fp) PROVE IInv'
    <3>1. dropLocked({fp}) /\ gen' \in Nat /\ UNCHANGED <<booting, now>>
      BY <2>6 DEF Forget, forgetGen, IInv, TypeOK
    <3> QED BY <3>1, DropIInv
  <2> QED BY <1>4, <2>1, <2>2, <2>3, <2>4, <2>5, <2>6 DEF Call
<1>5. CASE UNCHANGED storeVars
  BY <1>5 DEF storeVars, IInv, TypeOK, EscalatedOnlyActive, ActiveHasDeadline, NotifiedPast,
              MutedUntilWindowEnds, MuteRecord, EscalationsMarked
<1> QED BY <1>1, <1>2, <1>3, <1>4, <1>5 DEF Next

\* The inductive invariant holds in every reachable state.
THEOREM StoreInvariant == Spec => []IInv
BY InitIInv, StepIInv, PTL DEF Spec

\* Type correctness of the store.
THEOREM StoreTypeCorrect == Spec => []TypeOK
<1>1. IInv => TypeOK
  BY DEF IInv
<1> QED BY <1>1, StoreInvariant, PTL

\* No escalation mark ever outlives its alert, snapshots included.
THEOREM MarksBelongToActiveAlerts == Spec => []EscalatedOnlyActive
<1>1. IInv => EscalatedOnlyActive
  BY DEF IInv
<1> QED BY <1>1, StoreInvariant, PTL

\* Every active alert has a resolve deadline, so the sweep can end it.
THEOREM ActiveAlertsHaveDeadlines == Spec => []ActiveHasDeadline
<1>1. IInv => ActiveHasDeadline
  BY DEF IInv
<1> QED BY <1>1, StoreInvariant, PTL

\* The mute record of a notification survives CleanOldHistory for the whole
\* mute window, whatever the window and the retention floor are.
THEOREM MuteHolds == Spec => []MutedUntilWindowEnds
<1>1. IInv => MutedUntilWindowEnds
  BY DEF IInv
<1> QED BY <1>1, StoreInvariant, PTL

\* An incident is escalated at most once by each rule.
THEOREM EscalatesOnce == Spec => []EscalatedOncePerIncident
<1>1. IInv => EscalatedOncePerIncident
  BY DEF IInv, EscalationsMarked, EscalatedOncePerIncident
<1> QED BY <1>1, StoreInvariant, PTL

-----------------------------------------------------------------------------
(***************************************************************************)
(* Action properties.                                                      *)
(***************************************************************************)
\* Forget moves the generation whenever it changes durable state: a fingerprint
\* that is neither active nor muted has no marks either.
LEMMA ForgetMovesGen ==
    ASSUME IInv, NEW fp \in FP, Forget(fp)
    PROVE  GenMoves
<1>1. gen \in Nat
  BY DEF IInv, TypeOK
<1>2. CASE fp \in DOMAIN active \/ fp \in DOMAIN lastSent
  BY <1>1, <1>2 DEF Forget, forgetGen, GenMoves
<1>3. CASE fp \notin DOMAIN active /\ fp \notin DOMAIN lastSent
  <2>1. fp \notin DOMAIN escalated
    BY <1>3 DEF IInv, EscalatedOnlyActive
  <2>2. Without(active, {fp}) = active
    BY <1>3 DEF IInv, TypeOK, IsMap, Without, Restrict
  <2>3. Without(lastSent, {fp}) = lastSent
    BY <1>3 DEF IInv, TypeOK, IsMap, Without, Restrict
  <2>4. Without(escalated, {fp}) = escalated
    BY <2>1 DEF IInv, TypeOK, IsMap, Without, Restrict
  <2> QED BY <2>2, <2>3, <2>4 DEF Forget, dropLocked, GenMoves, durable
<1> QED BY <1>2, <1>3

\* Every durable change of every step moves the generation.
LEMMA StepMovesGen == IInv /\ [Next]_storeVars => [GenMoves]_storeVars
<1> SUFFICES ASSUME IInv, Next PROVE GenMoves
  OBVIOUS
<1>1. gen \in Nat
  BY DEF IInv, TypeOK
<1>2. CASE gen' = gen + 1
  BY <1>1, <1>2 DEF GenMoves
<1>3. CASE UNCHANGED durable
  BY <1>3 DEF GenMoves
<1>4. CASE \E fp \in FP : Forget(fp)
  BY <1>4, ForgetMovesGen
<1>5. ASSUME NEW fp \in FP, Emit(fp) PROVE gen' = gen + 1
  BY <1>5 DEF Emit, ShouldSend, ShouldSendEvent, Seed, Touch
<1>6. ASSUME NEW r \in Rules, MarkOverdue(r) PROVE gen' = gen + 1
  BY <1>6 DEF MarkOverdue
<1>7. ASSUME NEW o \in Objects, ResolveObject(o) PROVE gen' = gen + 1
  BY <1>7 DEF ResolveObject
<1>8. SweepResolved \/ CleanOldHistory => gen' = gen + 1
  BY DEF SweepResolved, CleanOldHistory
<1>9. ASSUME NEW s \in Snapshots, Restore(s) PROVE gen' = gen + 1
  BY <1>9 DEF Restore
<1>10. ColdStart \/ Tick => UNCHANGED durable
  BY DEF ColdStart, Tick, durable
<1> QED BY <1>2, <1>3, <1>4, <1>5, <1>6, <1>7, <1>8, <1>9, <1>10 DEF Next, Call

\* The sweeper's test of generations is sound: no change of what Export writes
\* leaves the generation where it was.
THEOREM GenerationCoversState == Spec => GenCoversDurableState
BY StoreInvariant, StepMovesGen, PTL DEF Spec, GenCoversDurableState

\* No step changes the start of an alert that stays active.
LEMMA StepKeepsAge == IInv /\ [Next]_storeVars => [AgeKept]_storeVars
<1> SUFFICES ASSUME IInv, Next PROVE AgeKept
  OBVIOUS
<1>1. CASE UNCHANGED active
  BY <1>1 DEF AgeKept
<1>2. ASSUME NEW F, dropLocked(F) PROVE AgeKept
  BY <1>2 DEF dropLocked, Without, Restrict, AgeKept
<1>3. ASSUME NEW fp \in FP, NEW t, ShouldSend(fp, t) PROVE AgeKept
  BY <1>3 DEF ShouldSend, Put, startOf, AgeKept
<1>4. ASSUME NEW fp \in FP, Touch(fp) PROVE AgeKept
  BY <1>4 DEF Touch, IInv, TypeOK, IsMap, Alerts, AgeKept
<1>5. ASSUME NEW s \in Snapshots, Restore(s) PROVE AgeKept
  BY <1>5 DEF Restore, Admitted, AgeKept
<1>6. ASSUME NEW fp \in FP, Emit(fp) PROVE AgeKept
  <2>1. ShouldSendEvent(fp) \/ Seed(fp) => UNCHANGED active
    BY DEF ShouldSendEvent, Seed
  <2> QED BY <1>1, <1>3, <1>4, <1>6, <2>1 DEF Emit
<1>7. ASSUME NEW r \in Rules, MarkOverdue(r) PROVE UNCHANGED active
  BY <1>7 DEF MarkOverdue
<1>8. ASSUME NEW o \in Objects, ResolveObject(o) PROVE AgeKept
  BY <1>2, <1>8 DEF ResolveObject
<1>9. ASSUME NEW fp \in FP, Forget(fp) PROVE AgeKept
  BY <1>2, <1>9 DEF Forget
<1>10. SweepResolved => AgeKept
  BY <1>2 DEF SweepResolved
<1>11. CleanOldHistory \/ ColdStart \/ Tick => UNCHANGED active
  BY DEF CleanOldHistory, ColdStart, Tick
<1> QED BY <1>1, <1>5, <1>6, <1>7, <1>8, <1>9, <1>10, <1>11 DEF Next, Call

\* A condition that keeps firing keeps its age, however often it is reminded
\* of, touched or restored, so escalation is measured from its first firing.
THEOREM AgeNeverResets == Spec => IncidentKeepsItsAge
BY StoreInvariant, StepKeepsAge, PTL DEF Spec, IncidentKeepsItsAge
=============================================================================
