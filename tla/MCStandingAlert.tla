-------------------------- MODULE MCStandingAlert --------------------------
EXTENDS StandingAlert

mcObjectOf == [f \in FP |-> "pod"]
mcNoRules == [r \in {} |-> r]

\* gen, startsAt and notified are written but never read here.
EndsAt(m) == [f \in DOMAIN m |-> m[f].endsAt]
Seen(e) == <<EndsAt(e.active), e.lastSent>>
mcView == <<EndsAt(active), lastSent, booting, now, cluster, observed, unsettled, process,
            {Seen(e) : e \in exported}, Seen(disk.store), disk.pending, steadySince, page, setback>>
=============================================================================
