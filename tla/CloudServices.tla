---------------------------- MODULE CloudServices ----------------------------
(***************************************************************************)
(* The cloud services that internal/sources polls, one definition each.    *)
(*                                                                         *)
(* A service is how its resources are listed and what its evaluator says   *)
(* of every status a listed resource can have:                             *)
(*   - the reason of the alert it fires (the severity, the summary and the *)
(*     details do not reach the alert's identity and are left out),        *)
(*   - Resolve, which clears every alert of the resource, or               *)
(*   - Skip, when it emits nothing.                                        *)
(*                                                                         *)
(* How resources are listed decides what one failed call costs:            *)
(*   - Pages: forEachPage evaluates a page as it arrives; a failed page    *)
(*     ends the region,                                                    *)
(*   - Describe: the same, with a call of its own for each resource; a     *)
(*     failed describe skips the resource,                                 *)
(*   - Call: one call lists the region,                                    *)
(*   - Drain: the whole scope is listed before any of it is evaluated, and *)
(*     a failure skips the scope.                                          *)
(***************************************************************************)
EXTENDS Naturals, TLC

Resolve == "resolve"
Skip == "skip"

Listings == {"Pages", "Describe", "Call", "Drain"}
Service(list, verdict) == [list |-> list, verdict |-> verdict]

\* A status out of S fires the reason, any other out of T resolves.
FiresIf(S, reason, T) == [s \in S \cup T |-> IF s \in S THEN reason ELSE Resolve]

-----------------------------------------------------------------------------
(***************************************************************************)
(* AWS.                                                                    *)
(***************************************************************************)
acm ==
    Service("Pages",
        FiresIf({"EXPIRED", "REVOKED", "FAILED", "VALIDATION_TIMED_OUT"},
                "ACMCertificateUnusable", {"PENDING_VALIDATION", "INACTIVE"})
        @@ FiresIf({"ISSUED, 29 days left"}, "ACMCertificateExpiringSoon",
                   {"ISSUED, 30 days left", "ISSUED, no expiry"}))

\* Desired and healthy in-service instances.
asg ==
    Service("Pages",
        [g \in [desired : 0..2, healthy : 0..2] |->
            IF g.desired > 0 /\ g.healthy = 0 THEN "ASGNoHealthyCapacity"
            ELSE IF g.healthy < g.desired THEN "ASGCapacityShortfall" ELSE Resolve])

\* dbStatusSeverity: a critical status and "stopped" fire.
dbVerdict(critical, reason) ==
    FiresIf(critical \cup {"stopped"}, reason, {"available", "backing-up", "rebooting"})

auroraCriticalStatuses ==
    {"failed", "storage-failure", "inaccessible-encryption-credentials",
     "incompatible-parameters", "incompatible-network", "migration-failed"}
aurora == Service("Pages", dbVerdict(auroraCriticalStatuses, "AuroraClusterUnhealthy"))

rdsCriticalStatuses ==
    {"failed", "storage-full", "incompatible-restore", "incompatible-network",
     "incompatible-parameters", "incompatible-option-group", "restore-error",
     "inaccessible-encryption-credentials"}
rds == Service("Pages", dbVerdict(rdsCriticalStatuses, "RDSInstanceUnhealthy"))

cloudwatch ==
    Service("Pages", FiresIf({"ALARM"}, "CloudWatchAlarm", {"OK", "INSUFFICIENT_DATA"}))

dynamodb ==
    Service("Describe",
        ("INACCESSIBLE_ENCRYPTION_CREDENTIALS" :> "DynamoDBTableInaccessible")
        @@ FiresIf({"ARCHIVED"}, "DynamoDBTableArchived", {"ACTIVE", "UPDATING", "DELETING"}))

\* A volume without a status counts as "ok".
ebs ==
    Service("Pages",
        ("impaired" :> "EBSVolumeImpaired")
        @@ FiresIf({"insufficient-data"}, "EBSVolumeStatusUnknown", {"ok", "none"}))

\* The system check and the instance check.
ec2 ==
    Service("Pages",
        [c \in [system : {"impaired", "ok", "not-applicable"},
                instance : {"impaired", "ok", "not-applicable"}] |->
            IF c.system = "impaired" \/ c.instance = "impaired"
            THEN "EC2StatusCheckFailed" ELSE Resolve])

efs == Service("Pages", FiresIf({"error"}, "EFSFileSystemError", {"available", "updating"}))

elasticache ==
    Service("Pages", FiresIf({"incompatible-network", "restore-failed"},
                             "ElastiCacheClusterUnhealthy", {"available", "modifying"}))

\* The keys that AWS manages are left alone.
kms ==
    Service("Describe",
        ("AwsManaged" :> Skip)
        @@ ("Unavailable" :> "KMSKeyUnavailable") @@ ("Disabled" :> "KMSKeyDisabled")
        @@ FiresIf({"PendingDeletion", "PendingReplicaDeletion"}, "KMSKeyPendingDeletion",
                   {"Enabled", "PendingImport", "Creating", "Updating"}))

nat ==
    Service("Pages", FiresIf({"failed"}, "NATGatewayFailed", {"available", "pending", "deleted"}))

\* Failing and reporting health checkers: a strict majority fires.
route53 ==
    Service("Describe",
        [c \in {x \in [failing : 0..3, total : 0..3] : x.failing <= x.total} |->
            IF c.total > 0 /\ c.failing * 2 > c.total
            THEN "Route53HealthCheckFailing" ELSE Resolve])

\* The policy makes the bucket public; the public-access block is complete.  A
\* missing policy or block configuration is an answer, not an error.
s3 ==
    Service("Describe",
        [b \in [public : BOOLEAN, blocked : BOOLEAN] |->
            IF b.public THEN "S3BucketPublic"
            ELSE IF ~b.blocked THEN "S3BucketPublicAccessNotBlocked" ELSE Resolve])

\* Tunnels that are down, and all of them.
vpn ==
    Service("Call",
        [c \in {x \in [available : BOOLEAN, down : 0..2, total : 0..2] : x.down <= x.total} |->
            IF ~c.available \/ c.total = 0 \/ c.down = 0 THEN Resolve
            ELSE IF c.down = c.total THEN "VPNConnectionDown" ELSE "VPNTunnelDegraded"])

eksCluster ==
    Service("Describe",
        ("FAILED" :> "EKSClusterFailed") @@ ("DELETING" :> "EKSClusterDeleting")
        @@ [s \in {"CREATING", "UPDATING", "PENDING"} |-> "EKSClusterNotActive"]
        @@ FiresIf({"ACTIVE with issues"}, "EKSClusterHealthIssue", {"ACTIVE"}))

eksNodegroup ==
    Service("Describe",
        [s \in {"CREATE_FAILED", "DELETE_FAILED", "DEGRADED"} |-> "EKSNodegroupUnhealthy"]
        @@ [s \in {"CREATING", "UPDATING", "DELETING"} |-> "EKSNodegroupNotActive"]
        @@ FiresIf({"ACTIVE with issues"}, "EKSNodegroupHealthIssue", {"ACTIVE"}))

\* A load balancer without a state counts as active.
loadBalancer ==
    Service("Pages",
        ("failed" :> "LoadBalancerFailed") @@ ("active_impaired" :> "LoadBalancerImpaired")
        @@ FiresIf({"provisioning"}, "LoadBalancerNotActive", {"active", "none"}))

targetGroup ==
    Service("Describe",
        [t \in [healthy : 0..1, unhealthy : 0..1] |->
            IF t.unhealthy > 0 /\ t.healthy = 0 THEN "TargetGroupNoHealthyTargets"
            ELSE IF t.unhealthy > 0 THEN "TargetGroupDegraded" ELSE Resolve])

-----------------------------------------------------------------------------
(***************************************************************************)
(* Azure.  An absent provisioning state resolves.                          *)
(***************************************************************************)
aksHealth(failed, notReady, stopped) ==
    [s \in {"Failed", "Canceled"} |-> failed]
    @@ [s \in {"Creating", "Updating", "Deleting"} |-> notReady]
    @@ FiresIf({"Succeeded but stopped"}, stopped, {"Succeeded", "none"})
aksCluster ==
    Service("Drain", aksHealth("AKSClusterProvisioningFailed", "AKSClusterNotReady", "AKSClusterStopped"))
aksNodePool ==
    Service("Drain", aksHealth("AKSNodePoolProvisioningFailed", "AKSNodePoolNotReady", "AKSNodePoolStopped"))

azureMonitor ==
    Service("Drain", ("no condition" :> Skip) @@ FiresIf({"Fired"}, "AzureMonitorAlert", {"Resolved"}))

azureRedis ==
    Service("Drain",
        ("Failed" :> "AzureRedisFailed")
        @@ FiresIf({"RecoveringScaleFailure"}, "AzureRedisScaleRecovering", {"Succeeded", "none"}))

\* Two levels: a server whose databases cannot be listed is skipped.
azureSQL ==
    Service("Drain", FiresIf({"Suspect", "Offline", "Inaccessible", "EmergencyMode", "Shutdown"},
                             "AzureSQLDatabaseUnhealthy", {"Online", "Paused", "none"}))

azureStorage ==
    Service("Drain", FiresIf({"unavailable"}, "AzureStorageUnavailable", {"available", "none"}))

azureVM ==
    Service("Drain", FiresIf({"Failed"}, "AzureVMProvisioningFailed", {"Succeeded", "Updating", "none"}))

-----------------------------------------------------------------------------
(***************************************************************************)
(* GCP.                                                                    *)
(***************************************************************************)
cloudSQL ==
    Service("Drain",
        [s \in {"FAILED", "SUSPENDED"} |-> "CloudSQLInstanceUnhealthy"]
        @@ FiresIf({"PENDING_CREATE", "MAINTENANCE"}, "CloudSQLInstanceNotRunnable", {"RUNNABLE"}))

gce == Service("Drain", FiresIf({"REPAIRING"}, "GCEInstanceRepairing", {"RUNNING", "TERMINATED"}))

\* A list with missing zones is recorded as a failure but still evaluated.
gkeCluster ==
    Service("Drain",
        [s \in {"ERROR", "DEGRADED"} |-> "GKEClusterUnhealthy"]
        @@ FiresIf({"PROVISIONING", "RECONCILING", "STOPPING"}, "GKEClusterNotRunning", {"RUNNING"}))

gkeNodePool ==
    Service("Drain",
        [s \in {"ERROR", "RUNNING_WITH_ERROR"} |-> "GKENodePoolUnhealthy"]
        @@ FiresIf({"PROVISIONING", "RECONCILING", "STOPPING"}, "GKENodePoolNotRunning", {"RUNNING"}))

gcpMonitoring == Service("Drain", FiresIf({"disabled"}, "GCPAlertPolicyDisabled", {"enabled"}))

-----------------------------------------------------------------------------
AWSServices ==
    [ACMCertificate |-> acm, ASG |-> asg, AuroraCluster |-> aurora, RDSInstance |-> rds,
     CloudWatchAlarm |-> cloudwatch, DynamoDBTable |-> dynamodb, EBSVolume |-> ebs,
     EC2Instance |-> ec2, EFSFileSystem |-> efs, ElastiCacheCluster |-> elasticache,
     KMSKey |-> kms, NATGateway |-> nat, Route53HealthCheck |-> route53, S3Bucket |-> s3,
     VPNConnection |-> vpn, EKSCluster |-> eksCluster, EKSNodegroup |-> eksNodegroup,
     LoadBalancer |-> loadBalancer, TargetGroup |-> targetGroup]
AzureServices ==
    [AKSCluster |-> aksCluster, AKSNodePool |-> aksNodePool, AzureMonitorAlert |-> azureMonitor,
     AzureRedis |-> azureRedis, AzureSQLDatabase |-> azureSQL, AzureStorage |-> azureStorage,
     AzureVM |-> azureVM]
GCPServices ==
    [CloudSQLInstance |-> cloudSQL, GCEInstance |-> gce, GKECluster |-> gkeCluster,
     GKENodePool |-> gkeNodePool, GCPAlertPolicy |-> gcpMonitoring]

\* What buildSources of the providers registers: by kind of resource.
Services ==
    [k \in DOMAIN AWSServices \cup DOMAIN AzureServices \cup DOMAIN GCPServices |->
        IF k \in DOMAIN AWSServices THEN AWSServices[k]
        ELSE IF k \in DOMAIN AzureServices THEN AzureServices[k] ELSE GCPServices[k]]
=============================================================================
