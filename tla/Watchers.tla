------------------------------ MODULE Watchers ------------------------------
(***************************************************************************)
(* What the watchers of internal/watchers make of a Kubernetes object: for *)
(* each kind, the fields of an object that its evaluate function looks at, *)
(* and the set of reasons that it emits.                                   *)
(*                                                                         *)
(* An informer hands an evaluator the old and the new object.  The old one *)
(* is a set of at most one object, empty on an Add; on a resync old and    *)
(* new are the same pointer, which isResync tells from an update that      *)
(* happens to change nothing the watcher looks at.                         *)
(***************************************************************************)
EXTENDS Naturals, Sequences, FiniteSets

CONSTANTS
    PendingThreshold,   \* behavior.pvcPendingSeconds
    IgnoreRestartCount, \* behavior.ignoreRestartCount
    IgnoreExitZero,     \* behavior.ignoreRestartsWithExitCodeZero
    MaxRestartCount     \* bound on a container's restart count

ASSUME WatcherConstants ==
    PendingThreshold \in Nat /\ IgnoreRestartCount \in Nat /\ MaxRestartCount \in Nat

If(condition, reason) == IF condition THEN {reason} ELSE {}

-----------------------------------------------------------------------------
(***************************************************************************)
(* The kinds built on "simple": only the new object counts.                *)
(***************************************************************************)
\* A condition may carry the reason of a failed rollout and be True again.
Deployments == [observed : BOOLEAN, unavailable : BOOLEAN,
                progress : {"progressing", "deadline exceeded", "stale reason"}]

evaluateDeployment(dep) ==
    If(dep.observed /\ dep.unavailable, "DeploymentUnavailable")
    \cup If(dep.observed /\ dep.progress = "deadline exceeded", "ProgressDeadlineExceeded")

\* Spec.Replicas may be absent.
StatefulSets == [replicas : {{}, {0}, {2}}, ready : 1..2, observed : BOOLEAN]

evaluateStatefulSet(sts) ==
    If(/\ \E desired \in sts.replicas : desired # 0 /\ sts.ready < desired
       /\ sts.observed, "StatefulSetReplicasUnavailable")

DaemonSets == [observed : BOOLEAN, unavailable : BOOLEAN]

evaluateDaemonSet(ds) == If(ds.observed /\ ds.unavailable, "DaemonSetUnavailable")

HPAs == [current : 0..1, max : {1},
         limited : {"no", "too many replicas", "too few replicas"}]

evaluateHPA(hpa) ==
    If(hpa.current >= hpa.max /\ hpa.limited = "too many replicas", "HPAMaxedOut")

Jobs == {"active", "complete", "failed"}

evaluateJob(job) == If(job = "failed", "JobFailed")

\* A claim is created at a time; 0 is the zero timestamp.
evaluatePVC(pvc, now) ==
    If(pvc.phase = "Lost", "PVCLost")
    \cup If(/\ pvc.phase = "Pending"
            /\ pvc.created # 0
            /\ now - pvc.created >= PendingThreshold, "PVCPending")

-----------------------------------------------------------------------------
(***************************************************************************)
(* Nodes: transitions only, except on a resync.                            *)
(***************************************************************************)
Nodes == [Ready : {"True", "False", "Unknown"}, DiskPressure : {"True", "False"},
          cordoned : BOOLEAN]

\* The condition differs from the old object's, or the resync re-asserts it.
nodeChanged(old, resync, field, value) == resync \/ \A o \in old : o[field] # value

evaluateNode(old, node, resync) ==
    If(/\ node.Ready # "True"
       /\ nodeChanged(old, resync, "Ready", node.Ready), "NodeNotReady")
    \cup If(/\ node.DiskPressure = "True"
            /\ nodeChanged(old, resync, "DiskPressure", "True"), "NodeDiskPressure")
    \cup If(/\ node.cordoned
            /\ nodeChanged(old, resync, "cordoned", TRUE), "NodeCordon")

-----------------------------------------------------------------------------
(***************************************************************************)
(* CronJobs: Adds are not handled.  sched and success are the times of the *)
(* last scheduled and the last successful run, 0 for none.                 *)
(***************************************************************************)
CronJobs ==
    {c \in [suspended : BOOLEAN, sched : 0..2, success : 0..2, running : BOOLEAN] :
        c.success <= c.sched}

missingSuccess(cj, sched) ==
    If(sched # 0 /\ cj.success < sched, "CronJobMissingSuccess")

evaluateCronJob(old, cj, resync) ==
    If(cj.suspended /\ (\E o \in old : ~o.suspended), "CronJobSuspended")
    \cup
    IF resync
    THEN IF ~cj.suspended /\ ~cj.running THEN missingSuccess(cj, cj.sched) ELSE {}
    ELSE UNION {IF /\ cj.sched # 0 /\ o.sched # 0 /\ cj.sched # o.sched
                   /\ cj.success = 0 \/ cj.success < o.sched
                THEN missingSuccess(cj, cj.sched) ELSE {} : o \in old}

-----------------------------------------------------------------------------
(***************************************************************************)
(* Pods.  A termination is told apart by what killReason and               *)
(* kubeletTeardown look at; "unknown" is exit 137 with the reason          *)
(* ContainerStatusUnknown.  "why" is the waiting reason or the current     *)
(* termination, "last" is LastTerminationState.                            *)
(***************************************************************************)
Terminations == {"exit 0", "error", "SIGKILL", "OOMKilled", "unknown"}
\* A failed pull is retried: its two reasons alternate.
ImageReasons == {"ImagePullBackOff", "ErrImagePull"}
WaitingReasons == {"ContainerCreating", "CrashLoopBackOff"} \cup ImageReasons

Containers == [state : {"running", "waiting", "terminated"},
               why : {"none"} \cup WaitingReasons \cup Terminations,
               last : {"none"} \cup Terminations, restarts : 0..MaxRestartCount]

\* evicted: phase Failed with a pod-level reason.
Pods == [containers : Seq(Containers), deleting : BOOLEAN, evicted : BOOLEAN]

Critical == {"CrashLoopBackOff", "OOMKilled"}
severityRank(reason) == IF reason \in Critical THEN 3 ELSE 2

killReason(pod, term) ==
    If(term = "OOMKilled", "OOMKilled")
    \cup If(term \in {"SIGKILL", "unknown"} /\ ~pod.deleting, "ContainerKilled")

kubeletTeardown(pod, term) == term = "unknown" \/ pod.evicted

\* The termination that counts: the current one, or the last one while the
\* container is not running.
termOf(c) ==
    IF c.state = "terminated" THEN c.why ELSE IF c.state = "running" THEN "none" ELSE c.last

waitingReason(c) ==
    If(c.state = "waiting" /\ c.why \in {"CrashLoopBackOff"} \cup ImageReasons, c.why)

standingKill(pod, c) ==
    killReason(pod, termOf(c))
    \ If(c.state = "terminated" /\ kubeletTeardown(pod, termOf(c)), "ContainerKilled")

\* What one container's state contributes.
standingOf(pod, c) == waitingReason(c) \cup standingKill(pod, c)

plainRestart(c) ==
    If(~(c.restarts > IgnoreRestartCount \/ (IgnoreExitZero /\ c.last = "exit 0")),
       "ContainerRestart")

\* mutation: the restart is judged by the current termination
restartOfCurrent(pod, was, c) ==
    LET kill == killReason(pod, termOf(c)) IN
    IF c.restarts <= was THEN {} ELSE IF kill # {} THEN kill ELSE plainRestart(c)

\* mutation: a restart count that stays as it is counts as a restart
restartOfSame(pod, was, c) ==
    LET kill == killReason(pod, c.last) IN
    IF c.restarts < was THEN {} ELSE IF kill # {} THEN kill ELSE plainRestart(c)

\* What a rise of a container's restart count from "was" contributes.
restartOf(pod, was, c) ==
    LET kill == killReason(pod, c.last) IN
    IF c.restarts <= was THEN {} ELSE IF kill # {} THEN kill ELSE plainRestart(c)

\* The findings, numbered in the order in which they are considered: first what
\* the containers' states contribute, then their restarts.
found(old, pod) ==
    LET c == pod.containers IN
    (UNION {({2 * i} \X waitingReason(c[i])) \cup ({2 * i + 1} \X standingKill(pod, c[i]))
              : i \in DOMAIN c})
    \cup
    (UNION {{2 * Len(c) + 1 + i} \X UNION {restartOf(pod, o.containers[i].restarts, c[i]) : o \in old}
              : i \in DOMAIN c})

\* consider: the first of the findings with the highest severity.
worstOf(findings) ==
    {f[2] : f \in {f \in findings : \A g \in findings :
        \/ severityRank(g[2]) < severityRank(f[2])
        \/ severityRank(g[2]) = severityRank(f[2]) /\ g[1] >= f[1]}}

evaluatePod(old, pod) == worstOf(found(old, pod))

-----------------------------------------------------------------------------
Kinds == {"deployment", "statefulset", "daemonset", "hpa", "job", "pvc", "node", "cronjob", "pod"}

\* Cluster-scoped nodes have no namespace to filter by.
Namespaced == Kinds \ {"node"}

\* handleDiff's includeAdd.
IncludeAdd == Kinds \ {"cronjob"}

\* Build: the node watcher declines an install scoped to one namespace.
Build(watchNamespace) == IF watchNamespace THEN Namespaced ELSE Kinds

\* Every reason that a watcher gives an alert.
WatcherReasons ==
    {"DeploymentUnavailable", "ProgressDeadlineExceeded", "StatefulSetReplicasUnavailable",
     "DaemonSetUnavailable", "HPAMaxedOut", "JobFailed", "PVCLost", "PVCPending", "NodeNotReady",
     "NodeDiskPressure", "NodeCordon", "CronJobSuspended", "CronJobMissingSuccess",
     "CrashLoopBackOff", "ImagePullBackOff", "ErrImagePull",
     "OOMKilled", "ContainerKilled", "ContainerRestart"}

\* What a change or a resync of an object emits.
evaluate(kind, old, obj, resync, now) ==
    CASE kind = "deployment"  -> evaluateDeployment(obj)
      [] kind = "statefulset" -> evaluateStatefulSet(obj)
      [] kind = "daemonset"   -> evaluateDaemonSet(obj)
      [] kind = "hpa"         -> evaluateHPA(obj)
      [] kind = "job"         -> evaluateJob(obj)
      [] kind = "pvc"         -> evaluatePVC(obj, now)
      [] kind = "node"        -> evaluateNode(old, obj, resync)
      [] kind = "cronjob"     -> evaluateCronJob(old, obj, resync)
      [] kind = "pod"         -> evaluatePod(old, obj)
=============================================================================
