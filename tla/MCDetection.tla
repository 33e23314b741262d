----------------------------- MODULE MCDetection -----------------------------
EXTENDS Detectors, SequencesExt

mcServiceReasons ==
    UNION {{Services[k].verdict[s] : s \in DOMAIN Services[k].verdict} : k \in DOMAIN Services}
mcFP == (mcServiceReasons \ {Resolve, Skip}) \cup {"event"} \cup WatcherReasons
mcObjectOf == [f \in FP |-> "object"]
mcNoRules == [r \in {} |-> r]

\* Only the distance of a time from now counts, up to the longest one that a
\* guard or a property looks at.  Whether an active alert is muted decides only
\* between ShouldSend and Touch, which set the same deadline.
Upto(n, t) == IF now - t > n THEN n + 1 ELSE now - t
Until(t) == IF t < now THEN 0 ELSE t + 1 - now
(***************************************************************************)
(* Statuses of one verdict are alike, and so are two services that drain   *)
(* their lists or both do not and have as many reasons: their reasons are  *)
(* numbered.                                                               *)
(***************************************************************************)
mcVerdicts(k) == {Services[k].verdict[s] : s \in DOMAIN Services[k].verdict}
mcNumber ==
    [k \in DOMAIN Services |->
        LET rs == SetToSeq(mcVerdicts(k) \ {Resolve, Skip}) IN
        [r \in mcVerdicts(k) |->
            IF r = Resolve THEN 0 ELSE IF r = Skip THEN 10 ELSE CHOOSE i \in DOMAIN rs : rs[i] = r]]
mcDetector ==
    IF polling THEN <<drainPager, Range(mcNumber[detector])>> ELSE <<detector>>
mcName(fp) == IF polling THEN mcNumber[detector][fp] ELSE fp
Seen(states) == IF polling THEN {mcName(Verdict(s)) : s \in states} ELSE states
mcStore ==
    <<{<<mcName(f), Until(active[f].endsAt)>> : f \in DOMAIN active},
      IF tailing THEN [f \in DOMAIN lastSent |-> Upto(MuteWindow, lastSent[f])] ELSE <<>> >>
mcSubject ==
    <<mcDetector, Seen(real), changes,
      {<<{mcName(r) : r \in c}, Upto(Lag, standing[c])>> : c \in DOMAIN standing},
      Upto(IF tailing THEN 2 * PollLag ELSE IF oomDue THEN ResolveTTL ELSE Slack, changedAt)>>
mcRunner ==
    <<poll, IF poll = "polling" THEN Upto(Slack, pollStart) ELSE 0,
      IF ticker = 0 THEN 0 ELSE Until(ticker), tick>>
mcTrail ==
    IF tailing
    THEN <<Upto(PollLag, window.from), Upto(PollLag, prevEnd), prevEnd = 0, looked, faults, pages>>
    ELSE <<>>
mcWatch ==
    <<allowed, cached, Upto(Resync, resyncedAt), {[e EXCEPT !.at = Upto(EnrichTime, @)] : e \in enriching},
      replaced, oomKilled, oomDue>>
\* Nothing happens any more once the source has stopped.
mcView ==
    IF poll = "stopped" THEN mcDetector
    ELSE <<mcStore, mcSubject, mcRunner, Seen(listed), evaluated, mcTrail, mcWatch>>
=============================================================================
