------------------------ MODULE LeaderElectionProofs ------------------------
(***************************************************************************)
(* For any number of replicas: two controllers never run at once unless    *)
(* one of them lost its lease or overran its budget, a late callback       *)
(* starts none, the newest snapshot wins, the sweeper skips no change, and *)
(* a handover keeps the state.                                             *)
(***************************************************************************)
EXTENDS LeaderElection, TLAPS

core == <<lease, elector, main, ctl, unsafe>>

CoreType ==
    /\ lease \in Replicas \cup {None}
    /\ elector \in [Replicas -> {"campaign", "leading", "ended"}]
    /\ main \in [Replicas -> {"select", "wait", "release", "exit", "gone"}]
    /\ ctl \in [Replicas -> {"none", "due", "refused", "loading", "running", "draining",
                             "saving", "over"}]
    /\ unsafe \subseteq Replicas

\* An elector that leads holds the lease.
LeaderHolds == \A r \in Replicas : elector[r] = "leading" => lease = r

\* A controller that runs, or that its callback is about to start, has an
\* elector that leads.
ActiveLeads ==
    \A r \in Replicas :
        /\ Active(r) \/ (ctl[r] = "due" /\ main[r] = "select")
        /\ r \notin unsafe
        => elector[r] = "leading"

GoneIsOver == \A r \in Replicas : main[r] = "gone" => elector[r] = "ended" /\ ctl[r] = "none"

NotElected == \A r \in Replicas : elector[r] = "campaign" => ctl[r] = "none"

LeadInv ==
    CoreType /\ LeaderHolds /\ ActiveLeads /\ GoneIsOver /\ NotElected /\ NoAbandonedController

LEMMA LeadInit == Init => LeadInv
BY DEF Init, LeadInv, CoreType, LeaderHolds, ActiveLeads, GoneIsOver, NotElected,
    NoAbandonedController, Active

\* Steps that leave the lease, the electors, the main goroutines and the
\* controllers' places alone.
LEMMA LeadUnchanged ==
    ASSUME LeadInv, UNCHANGED core
    PROVE  LeadInv'
BY DEF LeadInv, core, CoreType, LeaderHolds, ActiveLeads, GoneIsOver, NotElected,
    NoAbandonedController, Active

LEMMA LeadElector ==
    ASSUME LeadInv, NEW r \in Replicas, ElectorStep(r)
    PROVE  LeadInv'
<1> USE ElectionConstants DEF LeadInv, CoreType, LeaderHolds, ActiveLeads, GoneIsOver, NotElected,
                            NoAbandonedController, Active, Alive
<1>1. CASE Acquire(r)
  BY <1>1 DEF Acquire, history
<1>2. CASE RenewalFails(r)
  <2>1. elector' = [elector EXCEPT ![r] = "ended"] /\ UNCHANGED <<main, ctl>>
    BY <1>2 DEF RenewalFails, ElectorEnds, controller
  <2>2. UNCHANGED lease \/ (lease = r /\ lease' = None)
    BY <1>2 DEF RenewalFails, ElectorEnds
  <2>3. (ctl[r] = "over" /\ unsafe' = unsafe) \/ unsafe' = unsafe \cup {r}
    BY <1>2 DEF RenewalFails
  <2> QED BY <2>1, <2>2, <2>3
<1>3. CASE LeaseReleased(r)
  <2>1. elector' = [elector EXCEPT ![r] = "ended"] /\ UNCHANGED <<main, ctl, unsafe>>
    BY <1>3 DEF LeaseReleased, ElectorEnds, controller, history
  <2>2. UNCHANGED lease \/ (lease = r /\ lease' = None)
    BY <1>3 DEF LeaseReleased, ElectorEnds
  <2>3. main[r] \in {"release", "exit"}
    BY <1>3 DEF LeaseReleased
  <2> QED BY <2>1, <2>2, <2>3
<1> QED BY <1>1, <1>2, <1>3 DEF ElectorStep

LEMMA LeadExpires ==
    ASSUME LeadInv, LeaseExpires
    PROVE  LeadInv'
BY ElectionConstants DEF LeadInv, CoreType, LeaderHolds, ActiveLeads, GoneIsOver, NotElected,
    NoAbandonedController, Active, Alive, LeaseExpires, controller, history

LEMMA LeadController ==
    ASSUME LeadInv, NEW r \in Replicas, ControllerStep(r)
    PROVE  LeadInv'
<1>1. CASE Change(r)
  BY <1>1, LeadUnchanged DEF Change, core, election, history
<1>2. CASE OnStartedLeading(r)
  BY <1>2 DEF OnStartedLeading, election, history, LeadInv, CoreType, LeaderHolds, ActiveLeads,
              GoneIsOver, NotElected,
    NoAbandonedController, Active
\* The other steps move an active controller on, or end it.
<1>3. ASSUME NEW p \in {"running", "draining", "saving", "over"},
             Active(r), ctl' = [ctl EXCEPT ![r] = p], UNCHANGED <<election, unsafe>>
      PROVE  LeadInv'
  BY <1>3 DEF election, LeadInv, CoreType, LeaderHolds, ActiveLeads, GoneIsOver, NotElected,
              NoAbandonedController, Active
<1>4. CASE restoreState(r)
  BY <1>3, <1>4 DEF restoreState, Active
<1>5. CASE Drain(r)
  BY <1>3, <1>5 DEF Drain, Active, history
<1>6. CASE Drained(r)
  BY <1>3, <1>6 DEF Drained, Active, history
<1>7. CASE FinalSaveReturns(r)
  BY <1>3, <1>7 DEF FinalSaveReturns, Active
<1> QED BY <1>1, <1>2, <1>4, <1>5, <1>6, <1>7 DEF ControllerStep

LEMMA LeadMain ==
    ASSUME LeadInv, NEW r \in Replicas, MainStep(r) \/ Crash(r)
    PROVE  LeadInv'
<1> USE DEF LeadInv, CoreType, LeaderHolds, ActiveLeads, GoneIsOver, NotElected,
    NoAbandonedController, Active
<1>1. CASE Stop(r)
  BY <1>1 DEF Stop, Goes, controller, history
<1>2. CASE BudgetExpires(r)
  BY <1>2, LeadUnchanged DEF BudgetExpires, core, controller, history
<1>3. CASE WaitEnds(r)
  <2>1. Active(r) => r \in expired
    BY <1>3 DEF WaitEnds, waitOver, Started
  <2>2. /\ main[r] = "wait"
        /\ \E p \in {"exit", "release"} : main' = [main EXCEPT ![r] = p]
        /\ UNCHANGED <<lease, elector, ctl>>
    BY <1>3 DEF WaitEnds, Goes, controller
  <2>3. unsafe' = IF Active(r) THEN unsafe \cup {r} ELSE unsafe
    BY <1>3, <2>1 DEF WaitEnds
  <2> QED BY <2>2, <2>3
<1>4. CASE ReleaseEnds(r)
  BY <1>4 DEF ReleaseEnds, Goes, controller, history
<1>5. ASSUME Gone(r) PROVE LeadInv'
  BY <1>5 DEF Gone, Goes
<1>6. CASE Exit(r)
  BY <1>5, <1>6 DEF Exit
<1>7. CASE Crash(r)
  BY <1>5, <1>7 DEF Crash
<1> QED BY <1>1, <1>2, <1>3, <1>4, <1>6, <1>7 DEF MainStep

LEMMA LeadNext ==
    ASSUME LeadInv, [Next]_vars
    PROVE  LeadInv'
<1>1. CASE UNCHANGED vars
  BY <1>1, LeadUnchanged DEF vars, core, election, controller, history
<1>2. CASE PersistStep /\ UNCHANGED <<election, controller, history>>
  BY <1>2, LeadUnchanged DEF core, election, controller, history
<1>3. ASSUME NEW r \in Replicas, SweepStep(r) \/ Stall(r) \/ Signal(r) PROVE LeadInv'
  <2>1. UNCHANGED core
    BY <1>3 DEF SweepStep, SweepCaptures, SweepSaves, SweepReturns, Stall, Signal, core, election,
                controller, history
  <2> QED BY <2>1, LeadUnchanged
<1>4. CASE \E r \in Replicas : ElectorStep(r)
  BY <1>4, LeadElector
<1>5. CASE \E r \in Replicas : ControllerStep(r)
  BY <1>5, LeadController
<1>6. CASE \E r \in Replicas : MainStep(r) \/ Crash(r)
  BY <1>6, LeadMain
<1> QED BY <1>1, <1>2, <1>3, <1>4, <1>5, <1>6, LeadExpires DEF Next

LEMMA LeadAlways == Spec => []LeadInv
BY LeadInit, LeadNext, PTL DEF Spec

\* Two controllers run at once only if one of them lost its lease or overran
\* its budget: the single lease has one holder, and a controller that is neither
\* belongs to it (runLeaderElection).
THEOREM ControllersExclude == Spec => []OneController
<1>1. LeadInv => OneController
  BY DEF LeadInv, LeaderHolds, ActiveLeads, OneController
<1> QED BY <1>1, LeadAlways, PTL

\* A callback that comes after the shutdown looked for a controller to wait for
\* starts none (the mutex in runLeaderElection).
THEOREM LateCallbackStartsNothing == Spec => []NoAbandonedController
<1>1. LeadInv => NoAbandonedController
  BY DEF LeadInv
<1> QED BY <1>1, LeadAlways, PTL

-----------------------------------------------------------------------------
(***************************************************************************)
(* NewestWins.  A request that the API server would accept was compared    *)
(* with the very snapshot that it replaces, at a time not before its own   *)
(* export.                                                                 *)
(***************************************************************************)
SaveRec == [at : {"idle", "get", "write", "saved", "refused", "failed"},
            savedAt : Nat, version : Nat, current : BOOLEAN, tries : Nat]

SaveType ==
    /\ cm \in Snapshots
    /\ save \in [Replicas -> SaveRec]
    /\ late \subseteq SaveRec
    /\ now \in Nat
    /\ mem \in [Replicas -> Nat]
    /\ version \in Nat

Outdates(m) == m.savedAt >= cm.savedAt \/ cm.savedAt > m.savedAt + MaxSkew

ExportedBefore == \A r \in Replicas : save[r].savedAt <= Clock(r)

CurrentOutdates ==
    /\ \A r \in Replicas : save[r].current => Outdates(save[r])
    /\ \A m \in late : m.current => Outdates(m)

SaveInv == SaveType /\ ExportedBefore /\ CurrentOutdates

LEMMA NoSaveIsRec == NoSave \in SaveRec /\ NoSave.current = FALSE /\ NoSave.savedAt = 0
<1>1. NoSave \in SaveRec
  BY DEF NoSave, SaveRec
<1>2. NoSave.current = FALSE
  BY DEF NoSave
<1>3. NoSave.savedAt = 0
  BY DEF NoSave
<1> QED BY <1>1, <1>2, <1>3

LEMMA SaveInit == Init => SaveInv
<1> SUFFICES ASSUME Init PROVE SaveInv
  OBVIOUS
<1>1. SaveType
  BY NoSaveIsRec DEF Init, PersistInit, SaveType, Snapshots
<1>2. ExportedBefore
  <2> SUFFICES ASSUME NEW r \in Replicas PROVE save[r].savedAt <= Clock(r)
    BY DEF ExportedBefore
  <2>1. save[r].savedAt = 0 /\ now = 1
    BY NoSaveIsRec DEF Init, PersistInit
  <2>2. Skew[r] \in Nat
    BY PersistConstants
  <2> QED BY <2>1, <2>2 DEF Clock
<1>3. CurrentOutdates
  BY NoSaveIsRec DEF Init, PersistInit, CurrentOutdates
<1> QED BY <1>1, <1>2, <1>3 DEF SaveInv

\* A step that replaces the Save of one replica by one that is not about to
\* write keeps the invariant.
LEMMA SaveReplaced ==
    ASSUME SaveInv, NEW r \in Replicas, NEW s \in SaveRec,
           s.current => s.savedAt = save[r].savedAt /\ Outdates(s),
           s.savedAt <= Clock(r),
           save' = [save EXCEPT ![r] = s],
           late' = late \/ late' = late \cup {save[r]},
           UNCHANGED <<cm, now>>,
           mem' \in [Replicas -> Nat], version' \in Nat
    PROVE  SaveInv'
<1>1. SaveType'
  BY DEF SaveInv, SaveType
<1>2. ExportedBefore'
  BY DEF SaveInv, SaveType, ExportedBefore, Clock
<1>3. CurrentOutdates'
  BY DEF SaveInv, SaveType, CurrentOutdates, Outdates
<1> QED BY <1>1, <1>2, <1>3 DEF SaveInv

LEMMA SaveUnchanged ==
    ASSUME SaveInv, UNCHANGED <<cm, save, late, now>>,
           mem' \in [Replicas -> Nat], version' \in Nat
    PROVE  SaveInv'
BY DEF SaveInv, SaveType, ExportedBefore, CurrentOutdates, Outdates, Clock

\* An accepted write leaves no other request that would be accepted.
LEMMA SaveStored ==
    ASSUME SaveInv, NEW m \in SaveRec, NEW sv \in [Replicas -> SaveRec],
           \A r \in Replicas : sv[r].savedAt = save[r].savedAt,
           Stores(m, sv), UNCHANGED <<now, mem, version>>
    PROVE  SaveInv'
<1>1. /\ cm' = [savedAt |-> m.savedAt, version |-> m.version]
      /\ save' = [r \in Replicas |-> [sv[r] EXCEPT !.current = FALSE]]
      /\ late' = {[l EXCEPT !.current = FALSE] : l \in late \ {m}}
  BY DEF Stores
<1>2. \A s \in SaveRec : /\ [s EXCEPT !.current = FALSE] \in SaveRec
                         /\ [s EXCEPT !.current = FALSE].savedAt = s.savedAt
                         /\ [s EXCEPT !.current = FALSE].current = FALSE
  BY DEF SaveRec
<1>3. SaveType'
  <2>1. cm' \in Snapshots
    BY <1>1 DEF SaveRec, Snapshots
  <2>2. save' \in [Replicas -> SaveRec]
    BY <1>1, <1>2
  <2>3. late' \subseteq SaveRec
    BY <1>1, <1>2 DEF SaveInv, SaveType
  <2> QED BY <2>1, <2>2, <2>3 DEF SaveInv, SaveType
<1>4. ExportedBefore'
  BY <1>1, <1>2 DEF SaveInv, SaveType, ExportedBefore, Clock
<1>5. CurrentOutdates'
  BY <1>1, <1>2 DEF SaveInv, SaveType, CurrentOutdates
<1> QED BY <1>3, <1>4, <1>5 DEF SaveInv

LEMMA SaveAtRest ==
    ASSUME SaveInv, NEW r \in Replicas
    PROVE  save[r] \in SaveRec /\ save[r].savedAt \in Nat /\ Clock(r) \in Nat
BY PersistConstants DEF SaveInv, SaveType, SaveRec, Clock

\* Save begins, returns or dies with its process.
LEMMA SaveCalled ==
    ASSUME SaveInv, NEW r \in Replicas,
           Save(r, mem[r]) \/ (SaveOver(r) /\ UNCHANGED <<cm, late, now>>),
           mem' \in [Replicas -> Nat], version' \in Nat
    PROVE  SaveInv'
<1>1. CASE Save(r, mem[r])
  <2> DEFINE s == [at |-> "get", savedAt |-> Clock(r), version |-> mem[r],
                   current |-> FALSE, tries |-> 1]
  <2>1. mem[r] \in Nat /\ Clock(r) \in Nat
    BY SaveAtRest DEF SaveInv, SaveType
  <2>2. s \in SaveRec
    BY <2>1 DEF SaveRec
  <2>3. s.current = FALSE
    OBVIOUS
  <2>4. s.savedAt <= Clock(r)
    BY <2>1
  <2>5. save' = [save EXCEPT ![r] = s] /\ UNCHANGED <<cm, late, now>>
    BY <1>1 DEF Save
  <2> QED BY <2>2, <2>3, <2>4, <2>5, SaveReplaced
<1>2. CASE SaveOver(r) /\ UNCHANGED <<cm, late, now>>
  <2>1. NoSave.savedAt <= Clock(r)
    BY NoSaveIsRec, SaveAtRest
  <2> QED BY <1>2, <2>1, NoSaveIsRec, SaveReplaced DEF SaveOver
<1> QED BY <1>1, <1>2

\* A Save that ends, and the comparison that lets it write.
LEMMA SaveMoves ==
    ASSUME SaveInv, NEW r \in Replicas, SaveStep(r), UNCHANGED <<mem, version>>
    PROVE  SaveInv'
<1> DEFINE end(how) == [save[r] EXCEPT !.at = how, !.current = FALSE]
<1>0. save[r] \in SaveRec /\ save[r].savedAt \in Nat /\ Clock(r) \in Nat
  BY SaveAtRest
<1>1. save[r].savedAt <= Clock(r)
  BY DEF SaveInv, ExportedBefore
<1>2. mem' \in [Replicas -> Nat] /\ version' \in Nat
  BY DEF SaveInv, SaveType
<1>3. \A how \in {"saved", "failed"} :
        /\ end(how) \in SaveRec
        /\ end(how).current = FALSE
        /\ end(how).savedAt = save[r].savedAt
        /\ Ends(r, how) = [save EXCEPT ![r] = end(how)]
  BY <1>0 DEF SaveRec, Ends, SaveInv, SaveType
<1>4. CASE GiveUp(r) \/ GiveUpInFlight(r)
  <2>1. save' = [save EXCEPT ![r] = end("failed")] /\ UNCHANGED <<cm, now>>
    BY <1>3, <1>4 DEF GiveUp, GiveUpInFlight
  <2>2. late' = late \/ late' = late \cup {save[r]}
    BY <1>4 DEF GiveUp, GiveUpInFlight
  <2> HIDE DEF end
  <2> QED BY <1>1, <1>2, <1>3, <2>1, <2>2, SaveReplaced
<1>5. CASE Get(r)
  <2> DEFINE g == [save[r] EXCEPT !.at = IF stale(r) THEN "refused" ELSE "write",
                                  !.current = ~stale(r)]
  <2>1. g \in SaveRec
    BY <1>0 DEF SaveRec, stale
  <2>2. g.savedAt = save[r].savedAt
    BY <1>0 DEF SaveRec
  <2>3. g.current => ~stale(r)
    BY <1>0 DEF SaveRec
  <2>4. cm.savedAt \in Nat
    BY DEF SaveInv, SaveType, Snapshots
  <2>5. ~stale(r) => save[r].savedAt >= cm.savedAt \/ cm.savedAt > save[r].savedAt + MaxSkew
    BY <1>0, <1>1, <2>4, PersistConstants DEF stale, snapshotSavedAt
  <2>6. save' = [save EXCEPT ![r] = g] /\ UNCHANGED <<cm, late, now>>
    BY <1>5 DEF Get, SaveInv, SaveType
  <2>7. g.current => g.savedAt = save[r].savedAt /\ Outdates(g)
    BY <2>2, <2>3, <2>5 DEF Outdates
  <2> HIDE DEF g
  <2> QED BY <1>1, <1>2, <2>1, <2>2, <2>6, <2>7, SaveReplaced
<1>6. CASE Write(r) /\ accepted(save[r])
  <2>1. Stores(save[r], Ends(r, "saved")) /\ UNCHANGED now
    BY <1>6 DEF Write
  <2>2. Ends(r, "saved") \in [Replicas -> SaveRec]
    BY <1>3 DEF SaveInv, SaveType
  <2>3. \A q \in Replicas : Ends(r, "saved")[q].savedAt = save[q].savedAt
    BY <1>3 DEF SaveInv, SaveType
  <2> QED BY <1>0, <2>1, <2>2, <2>3, SaveStored
<1>7. CASE Write(r) /\ ~accepted(save[r])
  <2> DEFINE w == [save[r] EXCEPT !.at = "get", !.tries = @ + 1]
  <2>1. /\ save' = [save EXCEPT ![r] = w] \/ save' = [save EXCEPT ![r] = end("failed")]
        /\ UNCHANGED <<cm, late, now>>
    BY <1>3, <1>7 DEF Write, SaveInv, SaveType
  <2>2. w \in SaveRec
    <3>1. save[r].tries + 1 \in Nat
      BY <1>0 DEF SaveRec
    <3>2. w = [save[r] EXCEPT !.at = "get", !.tries = save[r].tries + 1]
      BY <1>0 DEF SaveRec
    <3> QED BY <1>0, <3>1, <3>2 DEF SaveRec
  <2>3. w.savedAt = save[r].savedAt
    BY <1>0 DEF SaveRec
  <2>4. ~w.current
    BY <1>0, <1>7 DEF SaveRec, accepted
  <2> HIDE DEF w, end
  <2> QED BY <1>1, <1>2, <1>3, <2>1, <2>2, <2>3, <2>4, SaveReplaced
<1> QED BY <1>4, <1>5, <1>6, <1>7 DEF SaveStep

LEMMA SavePersist ==
    ASSUME SaveInv, PersistStep, UNCHANGED <<mem, version>>
    PROVE  SaveInv'
<1>1. ASSUME NEW m \in late, LateWrite(m) PROVE SaveInv'
  <2>1. m \in SaveRec
    BY DEF SaveInv, SaveType
  <2>2. CASE accepted(m)
    <3>1. Stores(m, save) /\ UNCHANGED now
      BY <1>1, <2>2 DEF LateWrite
    <3>2. save \in [Replicas -> SaveRec]
      BY DEF SaveInv, SaveType
    <3> QED BY <2>1, <3>1, <3>2, SaveStored
  <2>3. CASE ~accepted(m)
    <3>1. late' \subseteq late /\ UNCHANGED <<cm, save, now>>
      BY <1>1, <2>3 DEF LateWrite
    <3> QED BY <3>1 DEF SaveInv, SaveType, ExportedBefore, CurrentOutdates, Outdates, Clock
  <2> QED BY <2>2, <2>3
<1>2. CASE Tick
  <2>1. now \in Nat /\ now' = now + 1 /\ UNCHANGED <<cm, save, late>>
    BY <1>2 DEF Tick, SaveInv, SaveType
  <2>2. \A r \in Replicas : save[r].savedAt \in Nat /\ Skew[r] \in Nat
    BY PersistConstants, SaveAtRest
  <2>3. ExportedBefore'
    BY <2>1, <2>2 DEF SaveInv, ExportedBefore, Clock
  <2> QED BY <2>1, <2>3 DEF SaveInv, SaveType, CurrentOutdates, Outdates
<1> QED BY <1>1, <1>2, SaveMoves DEF PersistStep

LEMMA SaveNext ==
    ASSUME SaveInv, [Next]_vars
    PROVE  SaveInv'
<1>0. mem \in [Replicas -> Nat] /\ version \in Nat /\ cm.version \in Nat
  BY DEF SaveInv, SaveType, Snapshots
<1>1. CASE UNCHANGED vars
  BY <1>0, <1>1, SaveUnchanged DEF vars, persistVars, controller
<1>2. CASE PersistStep /\ UNCHANGED <<election, controller, history>>
  BY <1>2, SavePersist DEF controller
<1>3. CASE LeaseExpires
  BY <1>0, <1>3, SaveUnchanged DEF LeaseExpires, persistVars, controller
<1>4. ASSUME NEW r \in Replicas, ElectorStep(r) \/ Stall(r) \/ Signal(r) PROVE SaveInv'
  BY <1>0, <1>4, SaveUnchanged DEF ElectorStep, Acquire, RenewalFails, LeaseReleased, Stall, Signal,
                                   persistVars, controller
<1>5. ASSUME NEW r \in Replicas, SweepStep(r) PROVE SaveInv'
  <2>1. CASE SweepCaptures(r)
    BY <1>0, <2>1, SaveUnchanged DEF SweepCaptures, persistVars
  <2>2. CASE SweepSaves(r)
    BY <1>0, <2>2, SaveCalled DEF SweepSaves
  <2>3. CASE SweepReturns(r)
    BY <1>0, <2>3, SaveCalled DEF SweepReturns
  <2> QED BY <1>5, <2>1, <2>2, <2>3 DEF SweepStep
<1>6. ASSUME NEW r \in Replicas, ControllerStep(r) PROVE SaveInv'
  <2>1. CASE OnStartedLeading(r) \/ Drain(r)
    BY <1>0, <2>1, SaveUnchanged DEF OnStartedLeading, Drain, persistVars
  <2>2. CASE restoreState(r)
    BY <1>0, <2>2, SaveUnchanged DEF restoreState, Loaded
  <2>3. CASE Change(r)
    BY <1>0, <2>3, SaveUnchanged DEF Change, persistVars
  <2>4. CASE Drained(r)
    BY <1>0, <2>4, SaveCalled DEF Drained
  <2>5. CASE FinalSaveReturns(r)
    BY <1>0, <2>5, SaveCalled DEF FinalSaveReturns
  <2> QED BY <1>6, <2>1, <2>2, <2>3, <2>4, <2>5 DEF ControllerStep
<1>7. ASSUME NEW r \in Replicas, MainStep(r) \/ Crash(r) PROVE SaveInv'
  <2>1. CASE Stop(r) \/ BudgetExpires(r) \/ WaitEnds(r) \/ ReleaseEnds(r)
    BY <1>0, <2>1, SaveUnchanged DEF Stop, BudgetExpires, WaitEnds, ReleaseEnds, persistVars, controller
  <2>2. CASE Gone(r)
    BY <1>0, <2>2, SaveCalled DEF Gone
  <2> QED BY <1>7, <2>1, <2>2 DEF MainStep, Exit, Crash
<1> QED BY <1>1, <1>2, <1>3, <1>4, <1>5, <1>6, <1>7 DEF Next

LEMMA SaveAlways == Spec => []SaveInv
BY SaveInit, SaveNext, PTL DEF Spec

\* Only a write of Save, in time or late, changes the ConfigMap.
LEMMA CmChanges ==
    ASSUME SaveInv, [Next]_vars
    PROVE  [Replaces]_cm
<1> SUFFICES ASSUME cm' # cm PROVE Replaces
  OBVIOUS
<1>1. PersistStep
  BY DEF Next, vars, persistVars, ElectorStep, Acquire, RenewalFails, LeaseReleased, LeaseExpires,
         Stall, Signal, SweepStep, SweepCaptures, SweepSaves, SweepReturns, ControllerStep,
         OnStartedLeading, restoreState, Change, Drain, Drained, FinalSaveReturns, MainStep, Stop,
         BudgetExpires, WaitEnds, ReleaseEnds, Exit, Crash, Gone, Save
<1>2. PICK m \in SaveRec : accepted(m) /\ Outdates(m) /\ cm' = [savedAt |-> m.savedAt, version |-> m.version]
  <2>1. CASE \E r \in Replicas : SaveStep(r)
    BY <2>1 DEF SaveStep, Get, GiveUp, GiveUpInFlight, Write, Stores, accepted, SaveInv, SaveType, CurrentOutdates
  <2>2. CASE \E m \in late : LateWrite(m)
    BY <2>2 DEF LateWrite, Stores, accepted, SaveInv, SaveType, CurrentOutdates
  <2>3. CASE Tick
    BY <2>3 DEF Tick
  <2> QED BY <1>1, <2>1, <2>2, <2>3 DEF PersistStep
<1> QED BY <1>2 DEF Outdates, Replaces

\* A stored snapshot is replaced only by one exported later, or its stamp was
\* ahead by more than maxSavedAtSkew, for any number of writers, any skew of
\* their clocks and any late writes (ConfigMapStore.Save).
THEOREM NewestSnapshotWins == Spec => NewestWins
BY SaveAlways, CmChanges, PTL DEF Spec, NewestWins

-----------------------------------------------------------------------------
(***************************************************************************)
(* NoChangeSkipped.  Versions only grow: a controller has at least what it *)
(* captured and what it took for saved, and a Save carries at least what   *)
(* its caller will take for saved.                                         *)
(***************************************************************************)
Generations ==
    /\ gen \in [Replicas -> Nat]
    /\ saved \in [Replicas -> Nat]
    /\ written \in [Replicas -> Nat]
    /\ sweep \in [Replicas -> {"idle", "captured", "saving"}]

\* No version is ahead of the number of changes.
NoneAhead ==
    /\ cm.version <= version
    /\ \A m \in late : m.version <= version
    /\ \A r \in Replicas : save[r].version <= version /\ mem[r] <= version

\* What a replica has captured, what it takes for saved, and what it saves.
InOrder(r) ==
    /\ gen[r] <= mem[r]
    /\ saved[r] <= mem[r]
    /\ saved[r] <= written[r]
    /\ sweep[r] = "saving" => gen[r] <= save[r].version
    /\ ctl[r] = "saving" => save[r].version = mem[r]
    /\ ctl[r] \in {"none", "due", "refused", "loading"} => mem[r] = 0
    /\ sweep[r] # "idle" => ctl[r] \in {"running", "draining"}
    /\ save[r].at # "idle" => ctl[r] = "saving" \/ sweep[r] = "saving"

GenInv == Generations /\ NoneAhead /\ \A r \in Replicas : InOrder(r)

LEMMA GenInit == Init => GenInv
<1>1. NoSave.version = 0 /\ NoSave.at = "idle"
  BY DEF NoSave
<1> QED BY <1>1 DEF Init, PersistInit, GenInv, Generations, NoneAhead, InOrder

\* What the steps of Save leave alone: a Save keeps the version it was called
\* with, and writes no other.
LEMMA SaveStepFrame ==
    ASSUME SaveInv, NEW r \in Replicas, SaveStep(r)
    PROVE  /\ \A q \in Replicas : /\ save'[q].version = save[q].version
                                  /\ save'[q].at = "idle" <=> save[q].at = "idle"
           /\ cm'.version \in {cm.version, save[r].version}
           /\ \A m \in late' : m.version = save[r].version \/ \E l \in late : m.version = l.version
<1>0. save \in [Replicas -> SaveRec] /\ save[r] \in SaveRec
  BY DEF SaveInv, SaveType
<1>1. \A s \in SaveRec : /\ [s EXCEPT !.current = FALSE].version = s.version
                         /\ [s EXCEPT !.current = FALSE].at = s.at
  BY DEF SaveRec
<1>2. \A how \in {"saved", "failed"} :
         /\ Ends(r, how) \in [Replicas -> SaveRec]
         /\ Ends(r, how)[r].at = how
         /\ \A q \in Replicas : Ends(r, how)[q].version = save[q].version
         /\ \A q \in Replicas \ {r} : Ends(r, how)[q] = save[q]
  BY <1>0 DEF Ends, SaveRec
<1>3. CASE Get(r)
  <2>1. UNCHANGED <<cm, late>> /\ save[r].at = "get"
    BY <1>3 DEF Get
  <2>2. /\ \A q \in Replicas : save'[q].version = save[q].version
        /\ \A q \in Replicas \ {r} : save'[q] = save[q]
        /\ save'[r].at \in {"refused", "write"}
    BY <1>0, <1>3 DEF Get, SaveRec
  <2> QED BY <2>1, <2>2
<1>4. CASE GiveUp(r) \/ GiveUpInFlight(r)
  <2>1. save' = Ends(r, "failed") /\ save[r].at # "idle" /\ UNCHANGED cm
    BY <1>4 DEF GiveUp, GiveUpInFlight, Running
  <2>2. late' \subseteq late \cup {save[r]}
    BY <1>4 DEF GiveUp, GiveUpInFlight
  <2> QED BY <1>2, <2>1, <2>2
<1>5. CASE Write(r) /\ accepted(save[r])
  <2>1. Stores(save[r], Ends(r, "saved")) /\ save[r].at = "write"
    BY <1>5 DEF Write
  <2>2. \A q \in Replicas : save'[q] = [Ends(r, "saved")[q] EXCEPT !.current = FALSE]
    BY <2>1 DEF Stores
  <2>3. ASSUME NEW q \in Replicas
        PROVE  save'[q].version = save[q].version /\ save'[q].at = Ends(r, "saved")[q].at
    <3>1. PICK s \in SaveRec : s = Ends(r, "saved")[q]
      BY <1>2
    <3>2. save'[q] = [s EXCEPT !.current = FALSE] /\ s.version = save[q].version
      BY <1>2, <2>2, <3>1
    <3> QED BY <1>1, <3>1, <3>2
  <2>4. \A q \in Replicas : save'[q].at = "idle" <=> save[q].at = "idle"
    BY <1>2, <2>1, <2>3
  <2>5. cm'.version = save[r].version
    BY <2>1 DEF Stores
  <2>6. ASSUME NEW m \in late' PROVE \E l \in late : m.version = l.version
    <3>1. PICK l \in late : m = [l EXCEPT !.current = FALSE]
      BY <2>1 DEF Stores
    <3> QED BY <1>1, <3>1 DEF SaveInv, SaveType
  <2> QED BY <2>3, <2>4, <2>5, <2>6
<1>6. CASE Write(r) /\ ~accepted(save[r])
  <2>1. UNCHANGED <<cm, late>> /\ save[r].at = "write"
    BY <1>6 DEF Write
  <2>2. CASE save' = Ends(r, "failed")
    BY <1>2, <2>1, <2>2
  <2>3. CASE save' = [save EXCEPT ![r].at = "get", ![r].tries = @ + 1]
    <3>1. /\ \A q \in Replicas : save'[q].version = save[q].version
          /\ \A q \in Replicas \ {r} : save'[q] = save[q]
          /\ save'[r].at = "get"
      BY <1>0, <2>3 DEF SaveRec
    <3> QED BY <2>1, <3>1
  <2> QED BY <1>6, <2>2, <2>3 DEF Write
<1> QED BY <1>3, <1>4, <1>5, <1>6 DEF SaveStep

LEMMA PersistFrame ==
    ASSUME SaveInv, PersistStep
    PROVE  /\ \A q \in Replicas : /\ save'[q].version = save[q].version
                                  /\ save'[q].at = "idle" <=> save[q].at = "idle"
           /\ \/ cm'.version = cm.version
              \/ \E q \in Replicas : cm'.version = save[q].version
              \/ \E l \in late : cm'.version = l.version
           /\ \A m \in late' : \/ \E q \in Replicas : m.version = save[q].version
                               \/ \E l \in late : m.version = l.version
<1>1. CASE \E r \in Replicas : SaveStep(r)
  BY <1>1, SaveStepFrame
<1>2. CASE Tick
  BY <1>2 DEF Tick
<1>3. ASSUME NEW m \in late, LateWrite(m)
      PROVE  /\ \A q \in Replicas : /\ save'[q].version = save[q].version
                                    /\ save'[q].at = save[q].at
             /\ cm'.version \in {cm.version, m.version}
             /\ \A k \in late' : \E l \in late : k.version = l.version
  <2>1. \A s \in SaveRec : /\ [s EXCEPT !.current = FALSE].version = s.version
                           /\ [s EXCEPT !.current = FALSE].at = s.at
    BY DEF SaveRec
  <2>2. CASE accepted(m)
    <3>1. Stores(m, save)
      BY <1>3, <2>2 DEF LateWrite
    <3>2. \A q \in Replicas : save[q] \in SaveRec /\ save'[q] = [save[q] EXCEPT !.current = FALSE]
      BY <3>1 DEF Stores, SaveInv, SaveType
    <3>3. \A q \in Replicas : save'[q].version = save[q].version /\ save'[q].at = save[q].at
      BY <2>1, <3>2
    <3>4. cm'.version = m.version
      BY <3>1 DEF Stores
    <3>5. ASSUME NEW k \in late' PROVE \E l \in late : k.version = l.version
      <4>1. PICK l \in late : k = [l EXCEPT !.current = FALSE]
        BY <3>1 DEF Stores
      <4> QED BY <2>1, <4>1 DEF SaveInv, SaveType
    <3> QED BY <3>3, <3>4, <3>5
  <2>3. CASE ~accepted(m)
    BY <1>3, <2>3 DEF LateWrite
  <2> QED BY <2>2, <2>3
<1> QED BY <1>1, <1>2, <1>3 DEF PersistStep

LEMMA GenPersist ==
    ASSUME SaveInv, GenInv, PersistStep, UNCHANGED <<election, controller, history>>
    PROVE  GenInv'
<1>1. UNCHANGED <<ctl, sweep, mem, gen, saved, version, written>>
  BY DEF controller, history
<1>2. NoneAhead'
  BY <1>1, PersistFrame DEF GenInv, NoneAhead
<1>3. \A r \in Replicas : InOrder(r)'
  BY <1>1, PersistFrame DEF GenInv, InOrder
<1> QED BY <1>1, <1>2, <1>3 DEF GenInv, Generations

LEMMA GenUnchanged ==
    ASSUME GenInv, UNCHANGED <<cm, save, late, controller, written>>
    PROVE  GenInv'
BY DEF GenInv, Generations, NoneAhead, InOrder, controller

\* A step of replica r that writes nothing itself.
LEMMA GenOneMoves ==
    ASSUME SaveInv, GenInv, NEW r \in Replicas,
           Generations', InOrder(r)', UNCHANGED <<cm, late>>,
           version' \in Nat, version <= version', mem'[r] <= version', save'[r].version <= version',
           \A q \in Replicas \ {r} :
              /\ ctl'[q] = ctl[q] /\ sweep'[q] = sweep[q] /\ mem'[q] = mem[q] /\ gen'[q] = gen[q]
              /\ saved'[q] = saved[q] /\ written'[q] = written[q] /\ save'[q] = save[q]
    PROVE  GenInv'
<1>1. /\ version \in Nat /\ cm.version \in Nat /\ \A m \in late : m.version \in Nat
      /\ \A q \in Replicas : mem[q] \in Nat /\ save[q].version \in Nat
  BY DEF SaveInv, SaveType, SaveRec, Snapshots
<1>2. NoneAhead'
  BY <1>1 DEF GenInv, NoneAhead
<1>3. ASSUME NEW q \in Replicas \ {r} PROVE InOrder(q)'
  BY <1>3 DEF GenInv, InOrder
<1> QED BY <1>2, <1>3 DEF GenInv

LEMMA GenReplica ==
    ASSUME SaveInv, LeadInv, GenInv, NEW r \in Replicas,
           SweepStep(r) \/ ControllerStep(r) \/ MainStep(r) \/ Crash(r)
    PROVE  GenInv'
<1>0. /\ version \in Nat /\ cm.version \in Nat /\ mem[r] \in Nat /\ save[r].version \in Nat
      /\ mem \in [Replicas -> Nat] /\ gen \in [Replicas -> Nat] /\ saved \in [Replicas -> Nat]
      /\ written \in [Replicas -> Nat] /\ sweep \in [Replicas -> {"idle", "captured", "saving"}]
      /\ save \in [Replicas -> SaveRec] /\ ctl[r] \in {"none", "due", "refused", "loading",
            "running", "draining", "saving", "over"} /\ DOMAIN ctl = Replicas
  BY DEF SaveInv, SaveType, SaveRec, Snapshots, GenInv, Generations, LeadInv, CoreType
<1>1. /\ InOrder(r) /\ mem[r] <= version /\ save[r].version <= version /\ cm.version <= version
  BY DEF GenInv, NoneAhead
<1>2. NoSave.version = 0 /\ NoSave.at = "idle"
  BY DEF NoSave
<1>3. CASE OnStartedLeading(r)
  BY <1>0, <1>1, <1>3, GenOneMoves DEF OnStartedLeading, persistVars, history, Generations, InOrder
<1>4. CASE restoreState(r)
  <2>1. mem[r] = 0 /\ mem' \in [Replicas -> Nat] /\ mem'[r] \in {mem[r], cm.version}
        /\ \A q \in Replicas \ {r} : mem'[q] = mem[q]
    BY <1>0, <1>1, <1>4 DEF restoreState, Loaded, InOrder
  <2> QED BY <1>0, <1>1, <1>4, <2>1, GenOneMoves DEF restoreState, Generations, InOrder
<1>5. CASE Change(r)
  BY <1>0, <1>1, <1>5, GenOneMoves DEF Change, persistVars, history, Generations, InOrder
<1>6. CASE SweepCaptures(r)
  BY <1>0, <1>1, <1>6, GenOneMoves DEF SweepCaptures, persistVars, history, Generations, InOrder
<1>7. ASSUME Save(r, mem[r])
      PROVE  /\ save'[r].version = mem[r] /\ save'[r].at = "get" /\ save[r].at = "idle"
             /\ \A q \in Replicas \ {r} : save'[q] = save[q]
             /\ UNCHANGED <<cm, late>>
  BY <1>0, <1>7 DEF Save
<1>8. CASE SweepSaves(r)
  BY <1>0, <1>1, <1>7, <1>8, GenOneMoves DEF SweepSaves, history, Generations, InOrder
<1>9. CASE Drained(r)
  BY <1>0, <1>1, <1>7, <1>9, GenOneMoves DEF Drained, history, Generations, InOrder
<1>10. CASE SweepReturns(r)
  <2>1. /\ written' \in [Replicas -> Nat] /\ written'[r] \in {written[r], save[r].version}
        /\ saved' \in [Replicas -> Nat] /\ saved'[r] \in {saved[r], gen[r]}
        /\ \/ saved'[r] = gen[r] /\ written'[r] = save[r].version
           \/ saved'[r] = saved[r] /\ written'[r] = written[r]
        /\ \A q \in Replicas \ {r} : saved'[q] = saved[q] /\ written'[q] = written[q]
    BY <1>0, <1>10 DEF SweepReturns, Ack, capturedGen
  <2>2. save'[r].version = 0 /\ save'[r].at = "idle" /\ \A q \in Replicas \ {r} : save'[q] = save[q]
    BY <1>0, <1>2, <1>10 DEF SweepReturns, SaveOver
  <2> QED BY <1>0, <1>1, <1>10, <2>1, <2>2, GenOneMoves DEF SweepReturns, Generations, InOrder
<1>11. CASE FinalSaveReturns(r)
  <2>1. /\ written' \in [Replicas -> Nat] /\ written'[r] \in {written[r], save[r].version}
        /\ \A q \in Replicas \ {r} : written'[q] = written[q]
    BY <1>0, <1>11 DEF FinalSaveReturns, Ack
  <2>2. save'[r].version = 0 /\ save'[r].at = "idle" /\ \A q \in Replicas \ {r} : save'[q] = save[q]
    BY <1>0, <1>2, <1>11 DEF FinalSaveReturns, SaveOver
  <2>3. sweep[r] = "idle" /\ saved[r] <= mem[r] /\ mem[r] = save[r].version /\ saved[r] <= written[r]
        /\ gen[r] <= mem[r]
    BY <1>0, <1>1, <1>11 DEF FinalSaveReturns, InOrder
  <2>4. ctl'[r] = "over" /\ (\A q \in Replicas \ {r} : ctl'[q] = ctl[q])
        /\ UNCHANGED <<cm, late, sweep, mem, gen, saved, version>>
    BY <1>0, <1>11 DEF FinalSaveReturns
  <2>5. InOrder(r)'
    BY <2>1, <2>2, <2>3, <2>4 DEF InOrder
  <2>6. Generations'
    BY <1>0, <2>1, <2>4 DEF Generations
  <2> QED BY <1>0, <1>1, <2>1, <2>2, <2>4, <2>5, <2>6, GenOneMoves
<1>12. CASE Drain(r)
  BY <1>0, <1>1, <1>12, GenOneMoves DEF Drain, persistVars, history, Generations, InOrder
<1>13. CASE Stop(r) \/ BudgetExpires(r) \/ ReleaseEnds(r) \/ WaitEnds(r)
  BY <1>13, GenUnchanged DEF Stop, BudgetExpires, ReleaseEnds, WaitEnds, persistVars, history
<1>14. CASE Gone(r)
  <2>1. save'[r].version = 0 /\ save'[r].at = "idle" /\ \A q \in Replicas \ {r} : save'[q] = save[q]
    BY <1>0, <1>2, <1>14 DEF Gone, SaveOver
  <2> QED BY <1>0, <1>1, <1>14, <2>1, GenOneMoves DEF Gone, Generations, InOrder
<1> QED BY <1>3, <1>4, <1>5, <1>6, <1>8, <1>9, <1>10, <1>11, <1>12, <1>13, <1>14
        DEF SweepStep, ControllerStep, MainStep, Exit, Crash

LEMMA GenNext ==
    ASSUME SaveInv, LeadInv, GenInv, [Next]_vars
    PROVE  GenInv'
<1>1. CASE UNCHANGED vars
  BY <1>1, GenUnchanged DEF vars, persistVars, history
<1>2. CASE LeaseExpires
  BY <1>2, GenUnchanged DEF LeaseExpires, persistVars, history
<1>3. ASSUME NEW r \in Replicas, ElectorStep(r) \/ Stall(r) \/ Signal(r) PROVE GenInv'
  <2>1. CASE Acquire(r)
    <3>1. /\ UNCHANGED <<cm, late, save, sweep, mem, gen, saved, version, written>>
          /\ ctl' = [ctl EXCEPT ![r] = "due"]
      BY <2>1 DEF Acquire, persistVars, history
    <3>2. InOrder(r)'
      <4>1. ctl[r] = "none"
        BY <2>1 DEF Acquire, LeadInv, NotElected
      <4> QED BY <3>1, <4>1 DEF GenInv, InOrder, LeadInv, CoreType
    <3> QED BY <3>1, <3>2, GenOneMoves DEF GenInv, Generations, NoneAhead, SaveInv, SaveType, LeadInv, CoreType
  <2>2. CASE RenewalFails(r) \/ LeaseReleased(r) \/ Stall(r) \/ Signal(r)
    BY <2>2, GenUnchanged DEF RenewalFails, LeaseReleased, Stall, Signal, persistVars, history
  <2> QED BY <1>3, <2>1, <2>2 DEF ElectorStep
<1>4. CASE PersistStep /\ UNCHANGED <<election, controller, history>>
  BY <1>4, GenPersist
<1> QED BY <1>1, <1>2, <1>3, <1>4, GenReplica DEF Next

LEMMA GenAlways == Spec => []GenInv
<1>1. Init => GenInv
  BY GenInit
<1>2. SaveInv /\ LeadInv /\ GenInv /\ [Next]_vars => GenInv'
  BY GenNext
<1> QED BY <1>1, <1>2, SaveAlways, LeadAlways, PTL DEF Spec

\* The sweeper never takes a change for saved that the ConfigMap has not
\* acknowledged, for any number of changes during a Save: it captured the
\* generation before the export (runSweeper).
THEOREM SavedIsAcknowledged == Spec => []NoChangeSkipped
<1>1. GenInv => NoChangeSkipped
  BY DEF GenInv, InOrder, NoChangeSkipped
<1> QED BY <1>1, GenAlways, PTL

-----------------------------------------------------------------------------
(***************************************************************************)
(* HandoverKeepsState.  Between two controllers the ConfigMap has every    *)
(* change, and no write of a predecessor that the API server would still   *)
(* accept is on its way: the final save made them all stale.               *)
(***************************************************************************)
Holds(r) == ctl[r] \in {"running", "draining", "saving"}

\* Every controller that has a state has had its final save stored.
AllSaved == \A r \in Replicas : Holds(r) => ctl[r] = "saving" /\ save[r].at = "saved"

UnsafeBreaks == unsafe # {} => broken

StoreHasAll == ~broken /\ AllSaved => cm.version = version /\ \A m \in late : ~m.current

KeepInv == broken \in BOOLEAN /\ UnsafeBreaks /\ StoreHasAll /\ HandoverKeepsState

LEMMA KeepInit == Init => KeepInv
<1> SUFFICES ASSUME Init PROVE KeepInv
  OBVIOUS
<1>1. cm.version = 0 /\ version = 0 /\ late = {} /\ unsafe = {} /\ broken = FALSE
      /\ \A r \in Replicas : ctl[r] = "none"
  BY DEF Init, PersistInit
<1> QED BY <1>1 DEF KeepInv, UnsafeBreaks, StoreHasAll, HandoverKeepsState

\* Two controllers with a state: one of them is unsafe, so a run is broken.
LEMMA KeepOne ==
    ASSUME LeadInv, KeepInv, ~broken, NEW r \in Replicas, NEW q \in Replicas, Active(r), Active(q)
    PROVE  r = q
BY DEF LeadInv, LeaderHolds, ActiveLeads, KeepInv, UnsafeBreaks

LEMMA KeepUnchanged ==
    ASSUME KeepInv, UNCHANGED <<cm, late, save, ctl, mem, version>>,
           broken' \in BOOLEAN, broken => broken', unsafe' # {} => broken'
    PROVE  KeepInv'
<1>1. AllSaved' = AllSaved
  BY DEF AllSaved, Holds
<1>2. StoreHasAll'
  BY <1>1 DEF KeepInv, StoreHasAll
<1>3. HandoverKeepsState'
  BY DEF KeepInv, HandoverKeepsState
<1> QED BY <1>2, <1>3 DEF KeepInv, UnsafeBreaks

\* Nobody is about to write when all is saved.
LEMMA KeepQuiet ==
    ASSUME GenInv, AllSaved, NEW r \in Replicas
    PROVE  save[r].at \in {"idle", "saved"}
BY DEF GenInv, InOrder, AllSaved, Holds

LEMMA KeepSaveStep ==
    ASSUME SaveInv, LeadInv, GenInv, KeepInv, NEW r \in Replicas, SaveStep(r),
           UNCHANGED <<election, controller, history>>
    PROVE  KeepInv'
<1>0. UNCHANGED <<ctl, mem, version, broken, unsafe>> /\ save \in [Replicas -> SaveRec]
  BY DEF controller, history, SaveInv, SaveType
<1>1. HandoverKeepsState' /\ UnsafeBreaks'
  BY <1>0 DEF KeepInv, HandoverKeepsState, UnsafeBreaks
<1>2. ~AllSaved
  <2>1. save[r].at \in {"get", "write"}
    BY DEF SaveStep, Get, Write, GiveUp, GiveUpInFlight, Running
  <2> QED BY <2>1, KeepQuiet
<1>3. StoreHasAll'
  <2> SUFFICES ASSUME ~broken, AllSaved'
               PROVE  cm'.version = version /\ \A m \in late' : ~m.current
    BY <1>0 DEF StoreHasAll
  <2>1. Holds(r) /\ ctl[r] = "saving" /\ save'[r].at = "saved"
    <3>1. ASSUME NEW q \in Replicas, q # r PROVE save'[q].at = save[q].at
      <4>1. CASE ~(Write(r) /\ accepted(save[r]))
        BY <1>0, <3>1, <4>1 DEF SaveStep, Get, Write, GiveUp, GiveUpInFlight, Ends
      <4>2. CASE Write(r) /\ accepted(save[r])
        <5>1. save'[q] = [save[q] EXCEPT !.current = FALSE] /\ save[q] \in SaveRec
          BY <1>0, <3>1, <4>2 DEF Write, Stores, Ends
        <5> QED BY <5>1 DEF SaveRec
      <4> QED BY <4>1, <4>2
    <3>2. PICK q \in Replicas : Holds(q) /\ ~(ctl[q] = "saving" /\ save[q].at = "saved")
      BY <1>2 DEF AllSaved
    <3>3. q = r
      BY <1>0, <3>1, <3>2 DEF AllSaved, Holds
    <3> QED BY <1>0, <3>2, <3>3 DEF AllSaved, Holds
  <2>2. Write(r) /\ accepted(save[r])
    <3>1. CASE Get(r)
      BY <1>0, <2>1, <3>1 DEF Get, SaveRec
    <3>2. CASE GiveUp(r) \/ GiveUpInFlight(r)
      BY <1>0, <2>1, <3>2 DEF GiveUp, GiveUpInFlight, Ends, SaveRec
    <3>3. CASE Write(r) /\ ~accepted(save[r])
      BY <1>0, <2>1, <3>3 DEF Write, Ends, SaveRec
    <3> QED BY <3>1, <3>2, <3>3 DEF SaveStep
  <2>3. Stores(save[r], Ends(r, "saved"))
    BY <2>2 DEF Write
  <2>4. cm'.version = save[r].version
    BY <2>3 DEF Stores
  <2>5. save[r].version = mem[r] /\ mem[r] = version
    BY <2>1 DEF GenInv, InOrder, KeepInv, HandoverKeepsState
  <2>6. ASSUME NEW m \in late' PROVE ~m.current
    <3>1. PICK l \in late : m = [l EXCEPT !.current = FALSE]
      BY <2>3 DEF Stores
    <3> QED BY <3>1 DEF SaveInv, SaveType, SaveRec
  <2> QED BY <2>4, <2>5, <2>6
<1> QED BY <1>0, <1>1, <1>3 DEF KeepInv

LEMMA KeepPersist ==
    ASSUME SaveInv, LeadInv, GenInv, KeepInv, PersistStep, UNCHANGED <<election, controller, history>>
    PROVE  KeepInv'
<1>0. UNCHANGED <<ctl, mem, version, broken, unsafe>>
  BY DEF controller, history
<1>1. ASSUME NEW m \in late, LateWrite(m) PROVE KeepInv'
  <2>1. HandoverKeepsState' /\ UnsafeBreaks'
    BY <1>0 DEF KeepInv, HandoverKeepsState, UnsafeBreaks
  <2>2. \A q \in Replicas : save'[q].at = save[q].at
    <3>1. ASSUME NEW q \in Replicas, accepted(m) PROVE save'[q].at = save[q].at
      <4>1. save'[q] = [save[q] EXCEPT !.current = FALSE] /\ save[q] \in SaveRec
        BY <1>1, <3>1 DEF LateWrite, Stores, SaveInv, SaveType
      <4> QED BY <4>1 DEF SaveRec
    <3> QED BY <1>1, <3>1 DEF LateWrite
  <2>3. AllSaved' => AllSaved
    BY <1>0, <2>2 DEF AllSaved, Holds
  <2>4. ~broken /\ AllSaved => cm' = cm /\ late' \subseteq late
    BY <1>1 DEF LateWrite, accepted, KeepInv, StoreHasAll
  <2>5. StoreHasAll'
    BY <1>0, <2>3, <2>4 DEF KeepInv, StoreHasAll
  <2> QED BY <1>0, <2>1, <2>5 DEF KeepInv
<1>2. CASE Tick
  BY <1>0, <1>2, KeepUnchanged DEF Tick, KeepInv, UnsafeBreaks
<1> QED BY <1>1, <1>2, KeepSaveStep DEF PersistStep

LEMMA KeepController ==
    ASSUME SaveInv, LeadInv, GenInv, KeepInv, NEW r \in Replicas, ControllerStep(r)
    PROVE  KeepInv'
<1>0. /\ DOMAIN ctl = Replicas /\ mem \in [Replicas -> Nat] /\ save \in [Replicas -> SaveRec]
      /\ broken \in BOOLEAN
  BY DEF LeadInv, CoreType, SaveInv, SaveType, KeepInv
<1>1. CASE OnStartedLeading(r)
  <2>1. /\ ctl[r] = "due" /\ ctl'[r] \in {"loading", "refused"}
        /\ \A q \in Replicas \ {r} : ctl'[q] = ctl[q]
        /\ UNCHANGED <<cm, late, save, mem, version, broken, unsafe>>
    BY <1>0, <1>1 DEF OnStartedLeading, persistVars, history
  <2>2. AllSaved' => AllSaved
    BY <2>1 DEF AllSaved, Holds
  <2>3. StoreHasAll'
    BY <2>1, <2>2 DEF KeepInv, StoreHasAll
  <2>4. HandoverKeepsState'
    BY <2>1 DEF KeepInv, HandoverKeepsState
  <2> QED BY <2>1, <2>3, <2>4 DEF KeepInv, UnsafeBreaks
<1>2. CASE restoreState(r)
  <2>1. /\ ctl[r] = "loading" /\ ctl'[r] = "running"
        /\ \A q \in Replicas \ {r} : ctl'[q] = ctl[q] /\ mem'[q] = mem[q]
        /\ UNCHANGED <<cm, late, save, version, unsafe>>
    BY <1>0, <1>2 DEF restoreState
  <2>2. broken' = TRUE \/ (broken' = broken /\ mem'[r] = cm.version)
    BY <1>0, <1>2 DEF restoreState, Loaded
  <2>3. ~AllSaved'
    BY <2>1 DEF AllSaved, Holds
  <2>4. ASSUME ~broken', NEW q \in Replicas, Holds(q)' PROVE mem'[q] = version'
    <3>1. ~broken /\ broken' = broken /\ mem'[r] = cm.version
      BY <2>2, <2>4
    <3>2. \A p \in Replicas : Active(p) => p = r
      BY <2>1, <3>1, KeepOne DEF Active
    <3>3. AllSaved
      BY <2>1, <3>2 DEF AllSaved, Holds, Active
    <3>4. q = r
      BY <2>1, <2>4, <3>2 DEF Holds, Active
    <3> QED BY <2>1, <3>1, <3>3, <3>4 DEF KeepInv, StoreHasAll
  <2>5. HandoverKeepsState'
    BY <2>4 DEF HandoverKeepsState, Holds
  <2> QED BY <1>0, <2>1, <2>2, <2>3, <2>5 DEF KeepInv, UnsafeBreaks, StoreHasAll
<1>3. CASE Change(r)
  <2>1. /\ ctl[r] \in {"running", "draining"} /\ mem'[r] = version'
        /\ \A q \in Replicas \ {r} : mem'[q] = mem[q]
        /\ UNCHANGED <<ctl, cm, late, save, unsafe, broken>>
    BY <1>0, <1>3 DEF Change, persistVars, history
  <2>2. ~AllSaved'
    BY <2>1 DEF AllSaved, Holds
  <2>3. HandoverKeepsState'
    <3> SUFFICES ASSUME NEW q \in Replicas, Holds(q), ~broken PROVE mem'[q] = version'
      BY <2>1 DEF HandoverKeepsState, Holds
    <3>1. q = r
      BY <2>1, KeepOne DEF Holds, Active
    <3> QED BY <2>1, <3>1
  <2> QED BY <2>1, <2>2, <2>3 DEF KeepInv, UnsafeBreaks, StoreHasAll
<1>4. CASE Drain(r) \/ Drained(r)
  <2>1. /\ Holds(r) /\ ctl'[r] \in {"draining", "saving"}
        /\ \A q \in Replicas \ {r} : ctl'[q] = ctl[q]
        /\ UNCHANGED <<cm, late, mem, version, unsafe, broken>>
    BY <1>0, <1>4 DEF Drain, Drained, Save, Holds, persistVars, history
  <2>2. ~AllSaved'
    <3>1. ctl'[r] = "draining" \/ save'[r].at = "get"
      BY <1>0, <1>4 DEF Drain, Drained, Save
    <3> QED BY <2>1, <3>1 DEF AllSaved, Holds
  <2>3. HandoverKeepsState'
    BY <2>1 DEF KeepInv, HandoverKeepsState, Holds
  <2> QED BY <2>1, <2>2, <2>3 DEF KeepInv, UnsafeBreaks, StoreHasAll
<1>5. CASE FinalSaveReturns(r)
  <2>1. /\ ctl[r] = "saving" /\ ctl'[r] = "over"
        /\ \A q \in Replicas \ {r} : ctl'[q] = ctl[q] /\ save'[q] = save[q]
        /\ UNCHANGED <<cm, late, mem, version, unsafe>>
    BY <1>0, <1>5 DEF FinalSaveReturns, SaveOver
  <2>2. broken' \in BOOLEAN /\ (broken => broken') /\ (~broken' => save[r].at = "saved")
    BY <1>0, <1>5 DEF FinalSaveReturns
  <2>3. ~broken' /\ AllSaved' => AllSaved
    BY <2>1, <2>2 DEF AllSaved, Holds
  <2>4. StoreHasAll'
    BY <2>1, <2>2, <2>3 DEF KeepInv, StoreHasAll
  <2>5. HandoverKeepsState'
    BY <2>1, <2>2 DEF KeepInv, HandoverKeepsState
  <2> QED BY <2>1, <2>2, <2>4, <2>5 DEF KeepInv, UnsafeBreaks
<1> QED BY <1>1, <1>2, <1>3, <1>4, <1>5 DEF ControllerStep

LEMMA KeepSweep ==
    ASSUME SaveInv, GenInv, KeepInv, NEW r \in Replicas, SweepStep(r)
    PROVE  KeepInv'
<1>0. save \in [Replicas -> SaveRec]
  BY DEF SaveInv, SaveType
<1>1. /\ ctl[r] \in {"running", "draining"}
      /\ \A q \in Replicas \ {r} : save'[q] = save[q]
      /\ UNCHANGED <<cm, late, ctl, mem, version, unsafe, broken>>
  BY <1>0 DEF SweepStep, SweepCaptures, SweepSaves, SweepReturns, Save, SaveOver, persistVars,
              election, history, GenInv, InOrder
<1>2. ~AllSaved'
  BY <1>1 DEF AllSaved, Holds
<1> QED BY <1>1, <1>2 DEF KeepInv, UnsafeBreaks, StoreHasAll, HandoverKeepsState

LEMMA KeepMain ==
    ASSUME SaveInv, LeadInv, KeepInv, NEW r \in Replicas, MainStep(r) \/ Crash(r)
    PROVE  KeepInv'
<1>0. DOMAIN ctl = Replicas /\ mem \in [Replicas -> Nat] /\ save \in [Replicas -> SaveRec]
      /\ broken \in BOOLEAN /\ (unsafe # {} => broken)
  BY DEF LeadInv, CoreType, SaveInv, SaveType, KeepInv, UnsafeBreaks
<1>1. CASE Stop(r) \/ BudgetExpires(r) \/ ReleaseEnds(r) \/ WaitEnds(r)
  BY <1>0, <1>1, KeepUnchanged
     DEF Stop, BudgetExpires, ReleaseEnds, WaitEnds, persistVars, controller, history
<1>2. CASE Exit(r) \/ Crash(r)
  <2>1. /\ ctl'[r] = "none" /\ unsafe' \subseteq unsafe
        /\ \A q \in Replicas \ {r} : ctl'[q] = ctl[q] /\ save'[q] = save[q] /\ mem'[q] = mem[q]
        /\ UNCHANGED <<cm, late, version>>
    BY <1>0, <1>2 DEF Exit, Crash, Gone, SaveOver
  <2>2. broken' \in BOOLEAN /\ (broken => broken') /\ (~broken' => main[r] = "exit")
    BY <1>0, <1>2 DEF Exit, Crash
  <2>3. ~broken' => ~Active(r)
    BY <1>0, <2>2 DEF LeadInv, NoAbandonedController
  <2>4. ~broken' /\ AllSaved' => AllSaved
    BY <2>1, <2>3 DEF AllSaved, Holds, Active
  <2>5. StoreHasAll'
    BY <2>1, <2>2, <2>4 DEF KeepInv, StoreHasAll
  <2>6. HandoverKeepsState'
    BY <2>1, <2>2 DEF KeepInv, HandoverKeepsState
  <2> QED BY <1>0, <2>1, <2>2, <2>5, <2>6 DEF KeepInv, UnsafeBreaks
<1> QED BY <1>1, <1>2 DEF MainStep

LEMMA KeepElector ==
    ASSUME LeadInv, KeepInv, NEW r \in Replicas, ElectorStep(r) \/ Stall(r) \/ Signal(r)
    PROVE  KeepInv'
<1>0. DOMAIN ctl = Replicas /\ broken \in BOOLEAN /\ (unsafe # {} => broken)
  BY DEF LeadInv, CoreType, KeepInv, UnsafeBreaks
<1>1. CASE Acquire(r)
  <2>1. /\ ctl[r] = "none" /\ ctl'[r] = "due"
        /\ \A q \in Replicas \ {r} : ctl'[q] = ctl[q]
        /\ UNCHANGED <<cm, late, save, mem, version, broken, unsafe>>
    BY <1>0, <1>1 DEF Acquire, persistVars, history, LeadInv, NotElected
  <2>2. AllSaved' => AllSaved
    BY <2>1 DEF AllSaved, Holds
  <2>3. StoreHasAll'
    BY <2>1, <2>2 DEF KeepInv, StoreHasAll
  <2>4. HandoverKeepsState'
    BY <2>1 DEF KeepInv, HandoverKeepsState
  <2> QED BY <2>1, <2>3, <2>4 DEF KeepInv, UnsafeBreaks
<1>2. CASE RenewalFails(r)
  BY <1>0, <1>2, KeepUnchanged DEF RenewalFails, controller
<1>3. CASE LeaseReleased(r) \/ Stall(r) \/ Signal(r)
  BY <1>0, <1>3, KeepUnchanged DEF LeaseReleased, Stall, Signal, persistVars, controller, history
<1> QED BY <1>1, <1>2, <1>3 DEF ElectorStep

LEMMA KeepNext ==
    ASSUME SaveInv, LeadInv, GenInv, KeepInv, [Next]_vars
    PROVE  KeepInv'
<1>0. broken \in BOOLEAN /\ (unsafe # {} => broken)
  BY DEF KeepInv, UnsafeBreaks
<1>1. CASE UNCHANGED vars
  BY <1>0, <1>1, KeepUnchanged DEF vars, persistVars, controller, history
<1>2. CASE LeaseExpires
  BY <1>0, <1>2, KeepUnchanged DEF LeaseExpires, persistVars, controller, history
<1> QED BY <1>1, <1>2, KeepElector, KeepSweep, KeepController, KeepMain, KeepPersist DEF Next

\* Without a crash, a lost lease, an overrun or a failed load or final save, the
\* controller that runs has every change ever made, for any number of replicas,
\* handovers and late writes (runController's restore and final save).
THEOREM HandoversKeepState == Spec => []HandoverKeepsState
<1>1. SaveInv /\ LeadInv /\ GenInv /\ KeepInv /\ [Next]_vars => KeepInv'
  BY KeepNext
<1>2. KeepInv => HandoverKeepsState
  BY DEF KeepInv
<1> QED BY <1>1, <1>2, KeepInit, SaveAlways, LeadAlways, GenAlways, PTL DEF Spec
=============================================================================
