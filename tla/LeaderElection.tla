--------------------------- MODULE LeaderElection ---------------------------
(***************************************************************************)
(* Replicas that hand the controller over: runLeaderElection with          *)
(* client-go's elector (external), the life of runController as it shows   *)
(* here (restore, run with periodic saves, drain, final save), and the     *)
(* shared ConfigMap.                                                       *)
(*                                                                         *)
(* What a controller knows is a version: every change of its stores makes  *)
(* a new one.  The timers of client-go are reduced to their order: a       *)
(* leader that cannot renew gives up before its lease expires.             *)
(***************************************************************************)
EXTENDS ConfigMapStore

CONSTANTS
    None,       \* no replica
    MaxVersion  \* bound on the number of changes

ASSUME ElectionConstants == None \notin Replicas /\ MaxVersion \in Nat

VARIABLES
    lease,    \* the holder of the Lease
    elector,  \* replica -> "campaign", "leading" or "ended"
    main,     \* replica -> where runLeaderElection is
    lost,     \* those whose elector ended by itself
    slow,     \* those whose controller does not drain in time
    expired,  \* those whose controllerDrainBudget is used up
    signal,   \* those asked to terminate
    ctl,      \* replica -> where OnStartedLeading is
    sweep,    \* replica -> where the save of its sweeper is
    mem,      \* replica -> the version its controller has
    gen,      \* replica -> the generation its sweeper captured
    saved,    \* replica -> savedGen
    version,  \* number of changes so far
    written,  \* history: replica -> the last version it had acknowledged
    unsafe,   \* history: replicas that lost the lease under their controller or
              \* overran the budget
    broken    \* history: a crash, an unsafe replica, a failed load or a failed
              \* final save

election == <<lease, elector, main, lost, slow, expired, signal>>
controller == <<ctl, sweep, mem, gen, saved, version>>
history == <<written, unsafe, broken>>
vars == <<persistVars, election, controller, history>>

Alive(r) == main[r] # "gone"
Started(r) == ctl[r] \in {"loading", "running", "draining", "saving", "over"}
Active(r) == ctl[r] \in {"loading", "running", "draining", "saving"}

Init ==
    /\ PersistInit
    /\ lease = None
    /\ elector = [r \in Replicas |-> "campaign"]
    /\ main = [r \in Replicas |-> "select"]
    /\ lost = {}
    /\ slow = {}
    /\ expired = {}
    /\ signal = {}
    /\ ctl = [r \in Replicas |-> "none"]
    /\ sweep = [r \in Replicas |-> "idle"]
    /\ mem = [r \in Replicas |-> 0]
    /\ gen = [r \in Replicas |-> 0]
    /\ saved = [r \in Replicas |-> 0]
    /\ version = 0
    /\ written = [r \in Replicas |-> 0]
    /\ unsafe = {}
    /\ broken = FALSE

(***************************************************************************)
(* The elector.  It runs on leCtx, so it may still win the lease while its *)
(* process is stopping.                                                    *)
(***************************************************************************)
Acquire(r) ==
    /\ Alive(r)
    /\ elector[r] = "campaign"
    /\ lease = None
    /\ lease' = r
    /\ elector' = [elector EXCEPT ![r] = "leading"]
    /\ ctl' = [ctl EXCEPT ![r] = "due"]
    /\ UNCHANGED <<persistVars, main, lost, slow, expired, signal, sweep, mem, gen, saved, version,
                   history>>

\* RunOrDie returns and leadCtx is cancelled; the lease may have been released.
ElectorEnds(r) ==
    /\ elector' = [elector EXCEPT ![r] = "ended"]
    /\ UNCHANGED lease \/ (lease = r /\ lease' = None)

RenewalFails(r) ==
    /\ Fault
    /\ Alive(r)
    /\ elector[r] = "leading"
    /\ ElectorEnds(r)
    /\ IF ctl[r] = "over" THEN UNCHANGED <<unsafe, broken>>
       ELSE unsafe' = unsafe \cup {r} /\ broken' = TRUE
    /\ UNCHANGED <<cm, save, late, now, main, lost, slow, expired, signal, controller, written>>

\* mutation: the elector runs on the context that the signal cancels
LeaseReleasedOnSignal(r) ==
    /\ Alive(r)
    /\ r \in signal
    /\ elector[r] # "ended"
    /\ ElectorEnds(r)
    /\ UNCHANGED <<persistVars, main, lost, slow, expired, signal, controller, history>>

\* leCtx is cancelled when the wait for the controller is over.
LeaseReleased(r) ==
    /\ main[r] \in {"release", "exit"}
    /\ r \notin lost
    /\ elector[r] # "ended"
    /\ ElectorEnds(r)
    /\ UNCHANGED <<persistVars, main, lost, slow, expired, signal, controller, history>>

LeaseExpires ==
    /\ lease # None
    /\ ~Alive(lease) \/ elector[lease] = "ended"
    /\ lease' = None
    /\ UNCHANGED <<persistVars, elector, main, lost, slow, expired, signal, controller, history>>

(***************************************************************************)
(* The controller of a leader.                                             *)
(***************************************************************************)
Cancelled(r) == r \in signal \/ elector[r] = "ended"

\* mutation: the callback does not look at stopping
CallbackAnyTime(r) ==
    /\ ctl[r] = "due"
    /\ ctl' = [ctl EXCEPT ![r] = "loading"]
    /\ UNCHANGED <<persistVars, election, sweep, mem, gen, saved, version, history>>

\* stopping is set once main has left its select.
OnStartedLeading(r) ==
    /\ ctl[r] = "due"
    /\ ctl' = [ctl EXCEPT ![r] = IF main[r] = "select" THEN "loading" ELSE "refused"]
    /\ UNCHANGED <<persistVars, election, sweep, mem, gen, saved, version, history>>

\* A failed load starts cold.
restoreState(r) ==
    /\ ctl[r] = "loading"
    /\ ctl' = [ctl EXCEPT ![r] = "running"]
    /\ \/ mem' = [mem EXCEPT ![r] = Loaded] /\ UNCHANGED <<broken, faults>>
       \/ Fault /\ broken' = TRUE /\ UNCHANGED mem
    /\ UNCHANGED <<cm, save, late, now, election, sweep, gen, saved, version, written, unsafe>>

\* An emit, a resolve, a delivery: until the drain is over.
Change(r) ==
    /\ ctl[r] \in {"running", "draining"}
    /\ version < MaxVersion
    /\ version' = version + 1
    /\ mem' = [mem EXCEPT ![r] = version + 1]
    /\ UNCHANGED <<persistVars, election, ctl, sweep, gen, saved, history>>

\* The sweeper captures the generations, and goes on if one has moved.
SweepCaptures(r) ==
    /\ ctl[r] = "running"
    /\ ~Cancelled(r)
    /\ sweep[r] = "idle"
    /\ mem[r] # saved[r]
    /\ gen' = [gen EXCEPT ![r] = mem[r]]
    /\ sweep' = [sweep EXCEPT ![r] = "captured"]
    /\ UNCHANGED <<persistVars, election, ctl, mem, saved, version, history>>

SweepSaves(r) ==
    /\ sweep[r] = "captured"
    /\ Save(r, mem[r])
    /\ sweep' = [sweep EXCEPT ![r] = "saving"]
    /\ UNCHANGED <<election, ctl, mem, gen, saved, version, history>>

Ack(r) == written' = [written EXCEPT ![r] = IF save[r].at = "saved" THEN save[r].version ELSE @]
SaveOver(r) == save' = [save EXCEPT ![r] = NoSave]

\* mutation: the generation is read after the save
currentGen(r) == mem[r]

capturedGen(r) == gen[r]

SweepReturns(r) ==
    /\ sweep[r] = "saving"
    /\ Returned(r)
    /\ saved' = [saved EXCEPT ![r] = IF save[r].at = "saved" THEN capturedGen(r) ELSE @]
    /\ sweep' = [sweep EXCEPT ![r] = "idle"]
    /\ Ack(r)
    /\ SaveOver(r)
    /\ UNCHANGED <<cm, late, faults, now, election, ctl, mem, gen, version, unsafe, broken>>

Drain(r) ==
    /\ ctl[r] = "running"
    /\ Cancelled(r)
    /\ ctl' = [ctl EXCEPT ![r] = "draining"]
    /\ UNCHANGED <<persistVars, election, sweep, mem, gen, saved, version, history>>

\* mutation: the controller ends when it has drained
DrainedUnsaved(r) ==
    /\ ctl[r] = "draining"
    /\ sweep[r] = "idle"
    /\ ctl' = [ctl EXCEPT ![r] = "over"]
    /\ UNCHANGED <<persistVars, election, sweep, mem, gen, saved, version, history>>

\* The sweeper has been joined and the pool drained: the final save.
Drained(r) ==
    /\ ctl[r] = "draining"
    /\ sweep[r] = "idle"
    /\ Save(r, mem[r])
    /\ ctl' = [ctl EXCEPT ![r] = "saving"]
    /\ UNCHANGED <<election, sweep, mem, gen, saved, version, history>>

FinalSaveReturns(r) ==
    /\ ctl[r] = "saving"
    /\ Returned(r)
    /\ ctl' = [ctl EXCEPT ![r] = "over"]
    /\ broken' = (broken \/ save[r].at # "saved")
    /\ Ack(r)
    /\ SaveOver(r)
    /\ UNCHANGED <<cm, late, faults, now, election, sweep, mem, gen, saved, version, unsafe>>

(***************************************************************************)
(* runLeaderElection's own goroutine.                                      *)
(***************************************************************************)
Goes(r, where) == main' = [main EXCEPT ![r] = where]

Stop(r) ==
    /\ main[r] = "select"
    /\ \/ r \in signal /\ UNCHANGED lost
       \/ elector[r] = "ended" /\ lost' = lost \cup {r}
    /\ Goes(r, "wait")
    /\ UNCHANGED <<persistVars, lease, elector, slow, expired, signal, controller, history>>

\* A stage of shutdown() that its deadline does not bound hangs.
Stall(r) ==
    /\ Fault
    /\ main[r] = "wait"
    /\ Active(r)
    /\ slow' = slow \cup {r}
    /\ UNCHANGED <<cm, save, late, now, lease, elector, main, lost, expired, signal, controller,
                   history>>

\* The drain stages and the final save share the budget, so the timer fires
\* first only on a controller that hangs, or while the lease is released.
BudgetExpires(r) ==
    /\ main[r] = "release" \/ (main[r] = "wait" /\ r \in slow)
    /\ r \notin expired
    /\ expired' = expired \cup {r}
    /\ UNCHANGED <<persistVars, lease, elector, main, lost, slow, signal, controller, history>>

\* mutation: the controller is waited for, however long it takes
waitForever(r) == Started(r) => ctl[r] = "over"

waitOver(r) == (Started(r) => ctl[r] = "over") \/ r \in expired

WaitEnds(r) ==
    /\ main[r] = "wait"
    /\ waitOver(r)
    /\ Goes(r, IF r \in lost THEN "exit" ELSE "release")
    /\ IF Active(r) /\ r \in expired THEN unsafe' = unsafe \cup {r} /\ broken' = TRUE
       ELSE UNCHANGED <<unsafe, broken>>
    /\ UNCHANGED <<persistVars, lease, elector, lost, slow, expired, signal, controller, written>>

ReleaseEnds(r) ==
    /\ main[r] = "release"
    /\ elector[r] = "ended" \/ r \in expired
    /\ Goes(r, "exit")
    /\ UNCHANGED <<persistVars, lease, elector, lost, slow, expired, signal, controller, history>>

\* The process is gone, and all it had in memory.
Gone(r) ==
    /\ Goes(r, "gone")
    /\ ctl' = [ctl EXCEPT ![r] = "none"]
    /\ sweep' = [sweep EXCEPT ![r] = "idle"]
    /\ elector' = [elector EXCEPT ![r] = "ended"]
    /\ mem' = [mem EXCEPT ![r] = 0]
    /\ gen' = [gen EXCEPT ![r] = 0]
    /\ saved' = [saved EXCEPT ![r] = 0]
    /\ written' = [written EXCEPT ![r] = 0]
    /\ lost' = lost \ {r}
    /\ slow' = slow \ {r}
    /\ expired' = expired \ {r}
    /\ unsafe' = unsafe \ {r}
    /\ SaveOver(r)
    /\ UNCHANGED <<cm, late, now, lease, signal, version>>

Exit(r) ==
    /\ main[r] = "exit"
    /\ Gone(r)
    /\ UNCHANGED <<faults, broken>>

Crash(r) ==
    /\ Fault
    /\ Alive(r)
    /\ Gone(r)
    /\ broken' = TRUE

Signal(r) ==
    /\ Alive(r)
    /\ r \notin signal
    /\ signal' = signal \cup {r}
    /\ UNCHANGED <<persistVars, lease, elector, main, lost, slow, expired, controller, history>>

-----------------------------------------------------------------------------
ElectorStep(r) == Acquire(r) \/ RenewalFails(r) \/ LeaseReleased(r)

SweepStep(r) == SweepCaptures(r) \/ SweepSaves(r) \/ SweepReturns(r)

ControllerStep(r) ==
    OnStartedLeading(r) \/ restoreState(r) \/ Change(r) \/ Drain(r) \/ Drained(r) \/ FinalSaveReturns(r)

MainStep(r) == Stop(r) \/ BudgetExpires(r) \/ WaitEnds(r) \/ ReleaseEnds(r) \/ Exit(r)

Next ==
    \/ \E r \in Replicas :
          \/ ElectorStep(r) \/ SweepStep(r) \/ ControllerStep(r) \/ MainStep(r)
          \/ Stall(r) \/ Crash(r) \/ Signal(r)
    \/ LeaseExpires
    \/ PersistStep /\ UNCHANGED <<election, controller, history>>

Spec == Init /\ [][Next]_vars

-----------------------------------------------------------------------------
(***************************************************************************)
(* Properties.                                                             *)
(***************************************************************************)
\* Two controllers run at once only if one of them had lost its lease or had
\* used up its budget (comment on runLeaderElection): a signal, at any moment
\* of a takeover, never makes a second one.
OneController ==
    \A r, s \in Replicas : r # s /\ Active(r) /\ Active(s) => {r, s} \cap unsafe # {}

\* A callback of client-go that comes after the shutdown has looked for a
\* controller to wait for does not start one (comment on the mutex).
NoAbandonedController ==
    \A r \in Replicas : main[r] \in {"release", "exit"} /\ Active(r) => r \in unsafe

\* A handover keeps the state: without a crash, a lost lease, an overrun or a
\* failed load or final save, the controller that runs has every change that
\* was ever made, although writes of a predecessor may still be on their way.
HandoverKeepsState ==
    \A r \in Replicas :
        ctl[r] \in {"running", "draining", "saving"} /\ ~broken => mem[r] = version

\* The sweeper never takes a change for saved that is not: the version of its
\* savedGen was acknowledged (comment in runSweeper).
NoChangeSkipped == \A r \in Replicas : saved[r] <= written[r]

\* What a controller that does not hang can do next.
Proceeds(r) ==
    /\ r \notin slow
    /\ SweepStep(r) \/ ControllerStep(r) \/ (SaveStep(r) /\ UNCHANGED <<election, controller, history>>)

\* A process that is asked to terminate is never stuck, neither on a controller
\* that hangs nor on a release of the lease that does not return: until it is
\* gone, its main goroutine or a controller that makes progress has a step.
ShutdownNeverStuck ==
    \A r \in signal : Alive(r) => ENABLED MainStep(r) \/ ENABLED Proceeds(r)
=============================================================================
