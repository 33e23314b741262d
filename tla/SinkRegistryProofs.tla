------------------------- MODULE SinkRegistryProofs -------------------------
(***************************************************************************)
(* Proofs about the sink fan-out and its breakers, for any number of       *)
(* workers and sinks and any thresholds with SendTimeout < Cooldown.       *)
(***************************************************************************)
EXTENDS SinkRegistry, TLAPS

-----------------------------------------------------------------------------
(***************************************************************************)
(* The inductive invariant.                                                *)
(***************************************************************************)
Sending(w, s) == send[w][s].at = "sending"

\* A send is never older than its timeout.
SendsInTime ==
    \A w \in Workers, s \in Sinks :
        Sending(w, s) => send[w][s].since <= now /\ now <= send[w][s].since + SendTimeout

\* If the breaker has re-opened while a probe is out, it did so after the probe
\* began, so its cooldown outlasts the probe.
CooldownOutlastsProbe ==
    \A w \in Workers, s \in Sinks :
        Probing(w, s) /\ brk[s].state = "open" => send[w][s].since + Cooldown <= brk[s].openUntil

\* The counters of a call account for the sinks it has looked at.
Accounted ==
    \A w \in Workers :
        /\ call[w].succeeded > 0 => call[w].reached # {}
        /\ call[w].eligible # {} => \/ call[w].todo # {}
                                    \/ call[w].attempted > 0
                                    \/ call[w].breakerSkipped > 0

\* The loop runs ahead of its sends: a sink it has still to look at has no send,
\* and neither todo nor a send outlives the call.
LoopLeadsSends ==
    \A w \in Workers, s \in Sinks :
        /\ s \in call[w].todo => call[w].busy
        /\ send[w][s].at # "none" => call[w].busy /\ s \notin call[w].todo

SinkInv ==
    /\ TypeOK
    /\ HalfOpenHasProbe
    /\ ClosedIsHealthy
    /\ SendsInTime
    /\ CooldownOutlastsProbe
    /\ OneProbeAtATime
    /\ LoopLeadsSends
    /\ Accounted
    /\ NoSilentLoss

-----------------------------------------------------------------------------
\* What the breaker's transitions return.
LEMMA RecordFacts ==
    ASSUME NEW b \in Breakers, NEW ok \in BOOLEAN, now \in Nat,
           b.state = "closed" => b.failures < Threshold
    PROVE  LET r == Record(b, ok) IN
           /\ r \in Breakers
           /\ r.state # "halfOpen"
           /\ r.slow = b.slow
           /\ r.state = "closed" => r.failures < Threshold
           /\ r.state = "open" => \/ r.openUntil = now + Cooldown
                                  \/ b.state = "open" /\ r.openUntil = b.openUntil
<1> DEFINE r == Record(b, ok)
<1> SUFFICES /\ r \in Breakers
             /\ r.state # "halfOpen"
             /\ r.slow = b.slow
             /\ r.state = "closed" => r.failures < Threshold
             /\ r.state = "open" => \/ r.openUntil = now + Cooldown
                                    \/ b.state = "open" /\ r.openUntil = b.openUntil
  OBVIOUS
<1>1. CASE ok
  <2> DEFINE e == [b EXCEPT !.failures = 0, !.state = "closed"]
  <2>1. r = e
    BY <1>1 DEF Record
  <2>2. e \in Breakers /\ e.state = "closed" /\ e.failures = 0 /\ e.slow = b.slow
    BY DEF Breakers, States
  <2> HIDE DEF e, r
  <2>3. /\ r \in Breakers /\ r.state = "closed" /\ r.failures = 0 /\ r.slow = b.slow
    BY <2>1, <2>2
  <2> QED BY <2>3, SinkConstants
<1>2. CASE ~ok
  <2> DEFINE c == [b EXCEPT !.failures = @ + 1]
  <2>1. /\ c \in Breakers /\ c.failures = b.failures + 1 /\ c.state = b.state
        /\ c.slow = b.slow /\ c.openUntil = b.openUntil
    BY DEF Breakers
  <2>2. r = IF b.state = "halfOpen" \/ c.failures >= Threshold THEN Opened(c) ELSE c
    BY <1>2 DEF Record
  <2>3. /\ Opened(c) \in Breakers /\ Opened(c).state = "open"
        /\ Opened(c).openUntil = now + Cooldown /\ Opened(c).slow = b.slow
    <3>1. now + Cooldown \in Nat
      BY SinkConstants
    <3> HIDE DEF c
    <3> QED BY <2>1, <3>1 DEF Opened, Breakers, States
  <2>4. b.state \in States /\ c.failures \in Nat /\ Threshold \in Nat
    BY <2>1, SinkConstants DEF Breakers
  <2> HIDE DEF c, r
  <2> QED BY <2>1, <2>2, <2>3, <2>4 DEF States
<1> QED BY <1>1, <1>2

\* RecordLatency opens the breaker or leaves all but the slow run alone.
LEMMA LatencyFacts ==
    ASSUME NEW b \in Breakers, NEW slow \in BOOLEAN, now \in Nat, b.slow < SlowRun
    PROVE  LET r == RecordLatency(b, slow) IN
           /\ r \in Breakers
           /\ r.slow < SlowRun
           /\ \/ r.state = b.state /\ r.failures = b.failures /\ r.openUntil = b.openUntil
              \/ r.state = "open" /\ r.openUntil = now + Cooldown
<1> DEFINE r == RecordLatency(b, slow)
<1> SUFFICES /\ r \in Breakers
             /\ r.slow < SlowRun
             /\ \/ r.state = b.state /\ r.failures = b.failures /\ r.openUntil = b.openUntil
                \/ r.state = "open" /\ r.openUntil = now + Cooldown
  OBVIOUS
<1>1. CASE ~slow
  BY <1>1, SinkConstants DEF RecordLatency, Breakers
<1>2. CASE slow /\ b.slow + 1 >= SlowRun
  <2>1. now + Cooldown \in Nat
    BY SinkConstants
  <2>2. /\ Opened(b) \in Breakers /\ Opened(b).state = "open"
        /\ Opened(b).openUntil = now + Cooldown
    BY <2>1 DEF Opened, Breakers, States
  <2>3. r = [Opened(b) EXCEPT !.slow = 0]
    BY <1>2 DEF RecordLatency
  <2> QED BY <2>2, <2>3, SinkConstants DEF Breakers
<1>3. CASE slow /\ ~(b.slow + 1 >= SlowRun)
  <2> DEFINE e == [b EXCEPT !.slow = @ + 1]
  <2>1. r = e
    BY <1>3 DEF RecordLatency
  <2>2. b.slow \in Nat
    BY DEF Breakers
  <2>3. /\ e \in Breakers /\ e.slow = b.slow + 1
        /\ e.state = b.state /\ e.failures = b.failures /\ e.openUntil = b.openUntil
    BY <2>2 DEF Breakers
  <2> HIDE DEF e, r
  <2> QED BY <1>3, <2>1, <2>2, <2>3, SinkConstants
<1> HIDE DEF r
<1> QED BY <1>1, <1>2, <1>3

\* Initially every breaker is closed and nobody sends.
LEMMA InitSinkInv == Init => SinkInv
<1> SUFFICES ASSUME Init PROVE SinkInv
  OBVIOUS
<1>1. TypeOK
  BY SinkConstants DEF Init, TypeOK, Breakers, States, Call, Sends, NoSend
<1>2. \A w \in Workers, s \in Sinks : send[w][s].at = "none"
  BY DEF Init, NoSend
<1>3. HalfOpenHasProbe /\ ClosedIsHealthy
  BY SinkConstants DEF Init, HalfOpenHasProbe, ClosedIsHealthy
<1>4. SendsInTime /\ CooldownOutlastsProbe /\ OneProbeAtATime
  BY <1>2 DEF SendsInTime, CooldownOutlastsProbe, OneProbeAtATime, Probing, Sending
<1>5. LoopLeadsSends /\ Accounted /\ NoSilentLoss
  BY <1>2 DEF Init, LoopLeadsSends, Accounted, NoSilentLoss
<1> QED BY <1>1, <1>3, <1>4, <1>5 DEF SinkInv

-----------------------------------------------------------------------------
\* The part of the invariant that is about breakers and sends, and the part
\* that is about calls.
BreakerInv ==
    /\ brk \in [Sinks -> Breakers]
    /\ send \in [Workers -> [Sinks -> Sends]]
    /\ now \in Nat
    /\ HalfOpenHasProbe
    /\ ClosedIsHealthy
    /\ SendsInTime
    /\ CooldownOutlastsProbe
    /\ OneProbeAtATime

CallInv ==
    /\ call \in [Workers -> Call]
    /\ calls \in 0..MaxCalls
    /\ LoopLeadsSends
    /\ Accounted
    /\ NoSilentLoss

\* The two parts make the whole.
LEMMA Parts == SinkInv <=> BreakerInv /\ CallInv
BY DEF SinkInv, BreakerInv, CallInv, TypeOK

\* Assigning one send leaves the others alone.
LEMMA OneSendChanges ==
    ASSUME send \in [Workers -> [Sinks -> Sends]], NEW w \in Workers, NEW s \in Sinks,
           NEW e \in Sends, send' = [send EXCEPT ![w][s] = e]
    PROVE  /\ send' \in [Workers -> [Sinks -> Sends]]
           /\ send'[w][s] = e
           /\ \A v \in Workers, t \in Sinks : v # w \/ t # s => send'[v][t] = send[v][t]
OBVIOUS

\* A send that records its outcome, or ends without one, may close or re-open
\* the breaker, but never leaves it half-open without a probe.
LEMMA SendLeaves ==
    ASSUME BreakerInv, NEW w \in Workers, NEW s \in Sinks,
           NEW r \in Breakers, brk' = [brk EXCEPT ![s] = r],
           NEW e \in Sends, send' = [send EXCEPT ![w][s] = e], e.at # "sending",
           now' = now,
           r.slow < SlowRun,
           r.state = "closed" => r.failures < Threshold,
           r.state = "halfOpen" => brk[s].state = "halfOpen" /\ ~Probing(w, s),
           r.state = "open" => \/ r.openUntil = now + Cooldown
                               \/ brk[s].state = "open" /\ r.openUntil = brk[s].openUntil
    PROVE  BreakerInv'
<1>1. /\ brk' \in [Sinks -> Breakers] /\ brk'[s] = r
      /\ \A t \in Sinks : t # s => brk'[t] = brk[t]
  BY DEF BreakerInv
<1>2. /\ send' \in [Workers -> [Sinks -> Sends]]
      /\ send'[w][s] = e
      /\ \A v \in Workers, t \in Sinks : v # w \/ t # s => send'[v][t] = send[v][t]
  BY OneSendChanges DEF BreakerInv
<1>3. \A v \in Workers, t \in Sinks :
         /\ Sending(v, t)' => Sending(v, t) /\ send'[v][t] = send[v][t]
         /\ Probing(v, t)' => Probing(v, t) /\ send'[v][t] = send[v][t]
         /\ Probing(v, t) /\ (v # w \/ t # s) => Probing(v, t)'
  BY <1>2 DEF Sending, Probing
<1>4. HalfOpenHasProbe'
  <2> SUFFICES ASSUME NEW t \in Sinks, brk'[t].state = "halfOpen"
               PROVE  \E v \in Workers : Probing(v, t)'
    BY DEF HalfOpenHasProbe
  <2>1. brk[t].state = "halfOpen" /\ (t = s => ~Probing(w, s))
    BY <1>1
  <2>2. PICK v \in Workers : Probing(v, t)
    BY <2>1 DEF BreakerInv, HalfOpenHasProbe
  <2> QED BY <1>3, <2>1, <2>2
<1>5. ClosedIsHealthy'
  BY <1>1 DEF BreakerInv, ClosedIsHealthy
<1>6. SendsInTime'
  BY <1>3 DEF BreakerInv, SendsInTime
<1>7. CooldownOutlastsProbe'
  <2> SUFFICES ASSUME NEW v \in Workers, NEW t \in Sinks, Probing(v, t)', brk'[t].state = "open"
               PROVE  send'[v][t].since + Cooldown <= brk'[t].openUntil
    BY DEF CooldownOutlastsProbe
  <2>1. Probing(v, t) /\ send'[v][t] = send[v][t]
    BY <1>3
  <2>2. send[v][t].since \in Nat /\ send[v][t].since <= now /\ now \in Nat
    <3>1. send[v][t] \in Sends
      BY DEF BreakerInv
    <3> QED BY <2>1, <3>1 DEF BreakerInv, SendsInTime, Sending, Probing, Sends
  <2>3. CASE brk[t].state = "open" /\ brk'[t].openUntil = brk[t].openUntil
    BY <2>1, <2>3 DEF BreakerInv, CooldownOutlastsProbe
  <2>4. CASE brk'[t].openUntil = now + Cooldown
    BY <2>1, <2>2, <2>4, SinkConstants
  <2> QED BY <1>1, <2>3, <2>4
<1>8. OneProbeAtATime'
  BY <1>3 DEF BreakerInv, OneProbeAtATime
<1> QED BY <1>1, <1>2, <1>4, <1>5, <1>6, <1>7, <1>8 DEF BreakerInv

\* A fire that Allow admits, or a resolve, starts a send; the probe of a breaker
\* whose cooldown is over meets no other probe.
LEMMA AttemptKeeps ==
    ASSUME BreakerInv, CallInv, NEW w \in Workers, NEW s \in Sinks, Attempt(w, s)
    PROVE  BreakerInv'
<1> DEFINE e == [at |-> "sending", since |-> now, slow |-> FALSE,
                 probe |-> ~call[w].resolved /\ TakesProbe(brk[s])]
           r == IF call[w].resolved THEN brk[s] ELSE AfterAllow(brk[s])
<1>1. now \in Nat /\ now' = now /\ brk \in [Sinks -> Breakers] /\ brk[s] \in Breakers
  BY DEF BreakerInv, Attempt
<1>2. e \in Sends /\ e.at = "sending" /\ e.since = now
      /\ (e.probe <=> ~call[w].resolved /\ TakesProbe(brk[s]))
  <2>1. (~call[w].resolved /\ TakesProbe(brk[s])) \in BOOLEAN
    BY Zenon
  <2> QED BY <1>1, <2>1 DEF Sends
<1>3. /\ r \in Breakers
      /\ e.probe => brk[s].state = "open" /\ now >= brk[s].openUntil
      /\ \/ e.probe /\ r.state = "halfOpen" /\ r.slow = brk[s].slow
         \/ ~e.probe /\ r = brk[s]
  <2>1. CASE e.probe
    <3>1. r = [brk[s] EXCEPT !.state = "halfOpen"]
      BY <1>2, <2>1 DEF AfterAllow
    <3>2. [brk[s] EXCEPT !.state = "halfOpen"] \in Breakers
      BY <1>1 DEF Breakers, States
    <3>3. r.state = "halfOpen" /\ r.slow = brk[s].slow
      BY <1>1, <3>1 DEF Breakers
    <3> QED BY <1>2, <2>1, <3>1, <3>2, <3>3 DEF TakesProbe
  <2>2. CASE ~e.probe
    <3>1. r = brk[s]
      BY <1>2, <2>2 DEF AfterAllow
    <3> QED BY <1>1, <2>2, <3>1
  <2> QED BY <2>1, <2>2
<1>4. /\ brk' \in [Sinks -> Breakers] /\ brk'[s] = r
      /\ \A t \in Sinks : t # s => brk'[t] = brk[t]
  <2>1. brk' = [brk EXCEPT ![s] = r]
    BY <1>1 DEF Attempt
  <2> HIDE DEF r
  <2> QED BY <1>1, <1>3, <2>1
<1>5. /\ send' \in [Workers -> [Sinks -> Sends]]
      /\ send'[w][s] = e
      /\ \A v \in Workers, t \in Sinks : v # w \/ t # s => send'[v][t] = send[v][t]
  <2>1. send' = [send EXCEPT ![w][s] = e] /\ send \in [Workers -> [Sinks -> Sends]]
    BY DEF BreakerInv, Attempt
  <2> HIDE DEF e
  <2> QED BY <1>2, <2>1, OneSendChanges
<1> HIDE DEF e, r
<1>6. ASSUME e.probe PROVE \A v \in Workers : ~Probing(v, s)
  <2> SUFFICES ASSUME NEW v \in Workers, Probing(v, s) PROVE FALSE
    OBVIOUS
  <2>1. send[v][s] \in Sends /\ brk[s] \in Breakers
    BY DEF BreakerInv
  <2>2. send[v][s].since \in Nat /\ brk[s].openUntil \in Nat
    BY <2>1 DEF Sends, Breakers
  <2>3. now <= send[v][s].since + SendTimeout
    BY DEF BreakerInv, SendsInTime, Sending, Probing
  <2>4. send[v][s].since + Cooldown <= brk[s].openUntil /\ brk[s].openUntil <= now
    BY <1>1, <1>3, <1>6, <2>2 DEF BreakerInv, CooldownOutlastsProbe
  <2> QED BY <1>1, <2>2, <2>3, <2>4, SinkConstants
<1>7. HalfOpenHasProbe'
  <2> SUFFICES ASSUME NEW t \in Sinks, brk'[t].state = "halfOpen"
               PROVE  \E v \in Workers : Probing(v, t)'
    BY DEF HalfOpenHasProbe
  <2>1. CASE t = s /\ e.probe
    BY <1>2, <1>5, <2>1 DEF Probing
  <2>2. CASE ~(t = s /\ e.probe)
    <3>1. brk[t].state = "halfOpen"
      BY <1>3, <1>4, <2>2
    <3>2. PICK v \in Workers : Probing(v, t)
      BY <3>1 DEF BreakerInv, HalfOpenHasProbe
    <3>3. CASE v # w \/ t # s
      BY <1>5, <3>2, <3>3 DEF Probing
    <3>4. CASE v = w /\ t = s
      \* The worker has not looked at this sink before in this call.
      BY <3>2, <3>4 DEF Attempt, Probing, CallInv, LoopLeadsSends
    <3> QED BY <3>3, <3>4
  <2> QED BY <2>1, <2>2
<1>8. ClosedIsHealthy'
  BY <1>3, <1>4 DEF BreakerInv, ClosedIsHealthy
<1>9. \A v \in Workers, t \in Sinks :
         /\ Sending(v, t)' => (Sending(v, t) /\ send'[v][t] = send[v][t]) \/ (v = w /\ t = s)
         /\ Probing(v, t)' => \/ Probing(v, t) /\ send'[v][t] = send[v][t]
                              \/ v = w /\ t = s /\ e.probe
  BY <1>5 DEF Sending, Probing
<1>10. SendsInTime'
  <2> SUFFICES ASSUME NEW v \in Workers, NEW t \in Sinks, Sending(v, t)'
               PROVE  send'[v][t].since <= now' /\ now' <= send'[v][t].since + SendTimeout
    BY DEF SendsInTime
  <2>1. CASE Sending(v, t) /\ send'[v][t] = send[v][t]
    BY <1>1, <2>1 DEF BreakerInv, SendsInTime
  <2>2. CASE v = w /\ t = s
    BY <1>1, <1>2, <1>5, <2>2, SinkConstants
  <2> QED BY <1>9, <2>1, <2>2
<1>11. CooldownOutlastsProbe'
  <2> SUFFICES ASSUME NEW v \in Workers, NEW t \in Sinks, Probing(v, t)', brk'[t].state = "open"
               PROVE  send'[v][t].since + Cooldown <= brk'[t].openUntil
    BY DEF CooldownOutlastsProbe
  <2>1. ~(t = s /\ e.probe) /\ brk'[t] = brk[t]
    BY <1>3, <1>4
  <2>2. Probing(v, t) /\ send'[v][t] = send[v][t]
    BY <1>9, <2>1
  <2> QED BY <2>1, <2>2 DEF BreakerInv, CooldownOutlastsProbe
<1>12. OneProbeAtATime'
  <2> SUFFICES ASSUME NEW t \in Sinks, NEW u \in Workers, NEW v \in Workers,
                      Probing(u, t)', Probing(v, t)'
               PROVE  u = v
    BY DEF OneProbeAtATime
  <2>1. CASE t = s /\ e.probe
    BY <1>6, <1>9, <2>1
  <2>2. CASE ~(t = s /\ e.probe)
    BY <1>9, <2>2 DEF BreakerInv, OneProbeAtATime
  <2> QED BY <2>1, <2>2
<1> QED BY <1>1, <1>4, <1>5, <1>7, <1>8, <1>10, <1>11, <1>12 DEF BreakerInv

\* Time passes only while every send is within its timeout.
LEMMA TickKeeps ==
    ASSUME BreakerInv, Tick PROVE BreakerInv'
<1>1. now \in Nat /\ now' = now + 1 /\ brk' = brk /\ send' = send
  BY DEF BreakerInv, Tick
<1>2. HalfOpenHasProbe' /\ ClosedIsHealthy' /\ CooldownOutlastsProbe' /\ OneProbeAtATime'
  BY <1>1 DEF BreakerInv, HalfOpenHasProbe, ClosedIsHealthy, CooldownOutlastsProbe,
              OneProbeAtATime, Probing
<1>3. SendsInTime'
  <2> SUFFICES ASSUME NEW w \in Workers, NEW s \in Sinks, Sending(w, s)'
               PROVE  send'[w][s].since <= now' /\ now' <= send'[w][s].since + SendTimeout
    BY DEF SendsInTime
  <2>1. Sending(w, s) /\ send'[w][s].since = send[w][s].since
    BY <1>1 DEF Sending
  <2>2. send[w][s].since \in Nat
    <3>1. send[w][s] \in Sends
      BY DEF BreakerInv
    <3> QED BY <3>1 DEF Sends
  <2>3. now - send[w][s].since < SendTimeout /\ send[w][s].since <= now
    BY <2>1 DEF Tick, BreakerInv, SendsInTime, Sending
  <2> QED BY <1>1, <2>1, <2>2, <2>3, SinkConstants
<1> QED BY <1>1, <1>2, <1>3 DEF BreakerInv

\* The end of a send, in each of its forms, keeps the breakers consistent.
LEMMA SendStepKeeps ==
    ASSUME BreakerInv, NEW w \in Workers, NEW s \in Sinks, SendStep(w, s)
    PROVE  /\ BreakerInv'
           /\ send[w][s].at # "none"
           /\ \A v \in Workers, t \in Sinks : send'[v][t].at # "none" => send[v][t].at # "none"
<1> DEFINE b == brk[s]
<1>1. /\ b \in Breakers /\ now \in Nat /\ b.slow < SlowRun
      /\ b.state = "closed" => b.failures < Threshold
      /\ send[w][s] \in Sends
      /\ send \in [Workers -> [Sinks -> Sends]]
  BY DEF BreakerInv, ClosedIsHealthy
<1>2. NoSend \in Sends /\ NoSend.at = "none"
  BY DEF NoSend, Sends
<1>3. \A ok \in BOOLEAN :
         /\ Record(b, ok) \in Breakers
         /\ Record(b, ok).state # "halfOpen"
         /\ Record(b, ok).slow = b.slow
         /\ Record(b, ok).state = "closed" => Record(b, ok).failures < Threshold
         /\ Record(b, ok).state = "open" =>
               \/ Record(b, ok).openUntil = now + Cooldown
               \/ b.state = "open" /\ Record(b, ok).openUntil = b.openUntil
  BY <1>1, RecordFacts
<1>4. CASE RateLimited(w, s)
  <2> DEFINE r == afterRateLimit(b, send[w][s].probe)
  <2>1. send[w][s].at = "sending" /\ brk' = [brk EXCEPT ![s] = r]
        /\ send' = [send EXCEPT ![w][s] = NoSend] /\ now' = now
    BY <1>4 DEF RateLimited
  <2>2. /\ r \in Breakers
        /\ r.slow < SlowRun
        /\ r.state = "closed" => r.failures < Threshold
        /\ r.state = "halfOpen" => b.state = "halfOpen" /\ ~Probing(w, s)
        /\ r.state = "open" => \/ r.openUntil = now + Cooldown
                               \/ b.state = "open" /\ r.openUntil = b.openUntil
    <3>1. CASE send[w][s].probe
      <4>1. r = Record(b, FALSE)
        BY <3>1 DEF afterRateLimit
      <4> HIDE DEF r, b
      <4> QED BY <1>1, <1>3, <4>1
    <3>2. CASE ~send[w][s].probe
      <4>1. r = b
        BY <3>2 DEF afterRateLimit
      <4> HIDE DEF r, b
      <4> QED BY <1>1, <3>2, <4>1 DEF Probing
    <3> QED BY <3>1, <3>2
  <2>3. BreakerInv'
    <3> HIDE DEF r
    <3> QED BY <1>2, <2>1, <2>2, SendLeaves
  <2> QED BY <1>1, <1>2, <2>1, <2>3, OneSendChanges
<1>5. ASSUME NEW ok \in BOOLEAN, NEW slow \in BOOLEAN, SendReturns(w, s, ok, slow)
      PROVE  /\ BreakerInv'
             /\ send[w][s].at # "none"
             /\ \A v \in Workers, t \in Sinks : send'[v][t].at # "none" => send[v][t].at # "none"
  <2> DEFINE r == Record(b, ok)
             e == [send[w][s] EXCEPT !.at = "latency", !.slow = slow]
  <2>1. send[w][s].at = "sending" /\ brk' = [brk EXCEPT ![s] = r] /\ now' = now
    BY <1>5 DEF SendReturns
  <2>2. send' = [send EXCEPT ![w][s] = e]
    BY <1>1, <1>5 DEF SendReturns
  <2>3. e \in Sends /\ e.at = "latency"
    BY <1>1 DEF Sends
  <2>4. /\ r \in Breakers
        /\ r.slow < SlowRun
        /\ r.state # "halfOpen"
        /\ r.state = "closed" => r.failures < Threshold
        /\ r.state = "open" => \/ r.openUntil = now + Cooldown
                               \/ b.state = "open" /\ r.openUntil = b.openUntil
    <3> HIDE DEF b
    <3> QED BY <1>1, <1>3
  <2> HIDE DEF r, e
  <2>5. BreakerInv'
    BY <2>1, <2>2, <2>3, <2>4, SendLeaves
  <2> QED BY <1>1, <2>1, <2>2, <2>3, <2>5, OneSendChanges
<1>6. CASE SendPanics(w, s)
  <2> DEFINE r == Record(b, FALSE)
  <2>1. send[w][s].at = "sending" /\ brk' = [brk EXCEPT ![s] = r] /\ now' = now
        /\ send' = [send EXCEPT ![w][s] = NoSend]
    BY <1>6 DEF SendPanics
  <2>2. /\ r \in Breakers
        /\ r.slow < SlowRun
        /\ r.state # "halfOpen"
        /\ r.state = "closed" => r.failures < Threshold
        /\ r.state = "open" => \/ r.openUntil = now + Cooldown
                               \/ b.state = "open" /\ r.openUntil = b.openUntil
    <3> HIDE DEF b
    <3> QED BY <1>1, <1>3
  <2> HIDE DEF r
  <2>3. BreakerInv'
    BY <1>2, <2>1, <2>2, SendLeaves
  <2> QED BY <1>1, <1>2, <2>1, <2>3, OneSendChanges
<1>7. CASE LatencyRecorded(w, s)
  <2> DEFINE r == RecordLatency(b, send[w][s].slow)
  <2>1. send[w][s].at = "latency" /\ brk' = [brk EXCEPT ![s] = r] /\ now' = now
        /\ send' = [send EXCEPT ![w][s] = NoSend]
    BY <1>7 DEF LatencyRecorded
  <2>2. send[w][s].slow \in BOOLEAN
    BY <1>1 DEF Sends
  <2>3. /\ r \in Breakers
        /\ r.slow < SlowRun
        /\ \/ r.state = b.state /\ r.failures = b.failures /\ r.openUntil = b.openUntil
           \/ r.state = "open" /\ r.openUntil = now + Cooldown
    BY <1>1, <2>2, LatencyFacts
  <2>4. ~Probing(w, s)
    BY <2>1 DEF Probing
  <2> HIDE DEF r
  <2>5. BreakerInv'
    BY <1>1, <1>2, <2>1, <2>3, <2>4, SendLeaves
  <2> QED BY <1>1, <1>2, <2>1, <2>5, OneSendChanges
<1> QED BY <1>4, <1>5, <1>6, <1>7 DEF SendStep

-----------------------------------------------------------------------------
\* The calls: what a step of one worker leaves of the others' accounts.
LEMMA CallsKept ==
    ASSUME CallInv, NEW w \in Workers, NEW c \in Call,
           call' = [call EXCEPT ![w] = c], calls' \in 0..MaxCalls,
           c.succeeded > 0 => c.reached # {},
           c.eligible # {} => \/ c.todo # {}
                              \/ c.attempted > 0
                              \/ c.breakerSkipped > 0,
           ~c.busy /\ c.ok /\ c.eligible # {} => c.reached # {},
           \A t \in Sinks :
              /\ t \in c.todo => c.busy
              /\ send'[w][t].at # "none" => c.busy /\ t \notin c.todo,
           \A v \in Workers, t \in Sinks :
              v # w /\ send'[v][t].at # "none" => send[v][t].at # "none"
    PROVE  CallInv'
<1>1. /\ call' \in [Workers -> Call] /\ call'[w] = c
      /\ \A v \in Workers : v # w => call'[v] = call[v]
  BY DEF CallInv
<1>2. LoopLeadsSends'
  BY <1>1 DEF CallInv, LoopLeadsSends
<1>3. Accounted'
  BY <1>1 DEF CallInv, Accounted
<1>4. NoSilentLoss'
  BY <1>1 DEF CallInv, NoSilentLoss
<1> QED BY <1>1, <1>2, <1>3, <1>4 DEF CallInv

\* A call that begins finds no send of an earlier one: Return waited for all.
LEMMA DispatchKeeps ==
    ASSUME SinkInv, NEW w \in Workers, NEW r \in BOOLEAN, NEW el \in SUBSET Sinks,
           Dispatch(w, r, el)
    PROVE  SinkInv'
<1> DEFINE c == [busy |-> TRUE, resolved |-> r, eligible |-> el, todo |-> el,
                 attempted |-> 0, breakerSkipped |-> 0, succeeded |-> 0, reached |-> {},
                 ok |-> TRUE]
<1>1. BreakerInv /\ CallInv
  BY Parts
<1>2. BreakerInv'
  BY <1>1 DEF Dispatch, BreakerInv, HalfOpenHasProbe, ClosedIsHealthy, SendsInTime,
              CooldownOutlastsProbe, OneProbeAtATime, Probing, Sending
<1>3. call' = [call EXCEPT ![w] = c] /\ send' = send /\ ~call[w].busy /\ calls' \in 0..MaxCalls
  BY <1>1, SinkConstants DEF Dispatch, CallInv
<1>4. /\ c \in Call /\ c.busy /\ c.todo = el /\ c.eligible = el /\ c.succeeded = 0
  BY DEF Call
<1>5. \A t \in Sinks : send'[w][t].at = "none"
  BY <1>1, <1>3 DEF CallInv, LoopLeadsSends
<1> HIDE DEF c
<1>6. CallInv'
  <2>1. /\ c.succeeded > 0 => c.reached # {}
        /\ c.eligible # {} => c.todo # {} \/ c.attempted > 0 \/ c.breakerSkipped > 0
    BY <1>4
  <2>2. ~c.busy /\ c.ok /\ c.eligible # {} => c.reached # {}
    BY <1>4
  <2>3. \A t \in Sinks :
          /\ t \in c.todo => c.busy
          /\ send'[w][t].at # "none" => c.busy /\ t \notin c.todo
    BY <1>4, <1>5
  <2>4. \A v \in Workers, t \in Sinks :
          v # w /\ send'[v][t].at # "none" => send[v][t].at # "none"
    BY <1>3
  <2> QED BY <1>1, <1>3, <1>4, <2>1, <2>2, <2>3, <2>4, CallsKept
<1> QED BY <1>2, <1>6, Parts DEF SinkInv, BreakerInv, CallInv, TypeOK

\* A sink the breaker holds back is counted as skipped.
LEMMA SkipKeeps ==
    ASSUME SinkInv, NEW w \in Workers, NEW s \in Sinks, Skip(w, s)
    PROVE  SinkInv'
<1> DEFINE c == [call[w] EXCEPT !.todo = @ \ {s}, !.breakerSkipped = @ + 1]
<1>1. BreakerInv /\ CallInv
  BY Parts
<1>2. BreakerInv'
  BY <1>1 DEF Skip, BreakerInv, HalfOpenHasProbe, ClosedIsHealthy, SendsInTime,
              CooldownOutlastsProbe, OneProbeAtATime, Probing, Sending
<1>3. call[w] \in Call
  BY <1>1 DEF CallInv
<1>4. call' = [call EXCEPT ![w] = c] /\ send' = send /\ calls' \in 0..MaxCalls
  BY <1>1 DEF Skip, CallInv
<1>5. /\ c \in Call /\ c.busy = call[w].busy /\ c.todo = call[w].todo \ {s}
      /\ c.breakerSkipped = call[w].breakerSkipped + 1 /\ call[w].breakerSkipped \in Nat
      /\ c.succeeded = call[w].succeeded /\ c.reached = call[w].reached
      /\ c.eligible = call[w].eligible /\ c.ok = call[w].ok
  <2>1. call[w].todo \ {s} \in SUBSET Sinks /\ call[w].breakerSkipped \in Nat
        /\ call[w].breakerSkipped + 1 \in Nat
    BY <1>3 DEF Call
  <2>2. c \in Call
    BY <1>3, <2>1 DEF Call
  <2>3. c.todo = call[w].todo \ {s} /\ c.breakerSkipped = call[w].breakerSkipped + 1
    BY <1>3 DEF Call
  <2>4. c.busy = call[w].busy /\ c.succeeded = call[w].succeeded /\ c.reached = call[w].reached
        /\ c.eligible = call[w].eligible /\ c.ok = call[w].ok
    BY <1>3 DEF Call
  <2> HIDE DEF c
  <2> QED BY <2>1, <2>2, <2>3, <2>4
<1> HIDE DEF c
<1>6. s \in call[w].todo /\ call[w].busy
  BY <1>1 DEF Skip, CallInv, LoopLeadsSends
<1>7. CallInv'
  <2>1. c.succeeded > 0 => c.reached # {}
    BY <1>1, <1>5 DEF CallInv, Accounted
  <2>2. \A t \in Sinks :
          /\ t \in c.todo => c.busy
          /\ send'[w][t].at # "none" => c.busy /\ t \notin c.todo
    BY <1>1, <1>4, <1>5, <1>6 DEF CallInv, LoopLeadsSends
  <2>3. ~c.busy /\ c.ok /\ c.eligible # {} => c.reached # {}
    BY <1>5, <1>6
  <2>4. c.eligible # {} => c.todo # {} \/ c.attempted > 0 \/ c.breakerSkipped > 0
    BY <1>5
  <2>5. \A v \in Workers, t \in Sinks :
          v # w /\ send'[v][t].at # "none" => send[v][t].at # "none"
    BY <1>4
  <2> QED BY <1>1, <1>4, <1>5, <2>1, <2>2, <2>3, <2>4, <2>5, CallsKept
<1> QED BY <1>2, <1>7, Parts DEF SinkInv, BreakerInv, CallInv, TypeOK

\* A sink that is tried is counted as attempted.
LEMMA AttemptKeepsAll ==
    ASSUME SinkInv, NEW w \in Workers, NEW s \in Sinks, Attempt(w, s)
    PROVE  SinkInv'
<1> DEFINE c == [call[w] EXCEPT !.todo = @ \ {s}, !.attempted = @ + 1]
<1>1. BreakerInv /\ CallInv
  BY Parts
<1>2. BreakerInv'
  BY <1>1, AttemptKeeps
<1>3. call[w] \in Call
  BY <1>1 DEF CallInv
<1>4. call' = [call EXCEPT ![w] = c] /\ calls' \in 0..MaxCalls
  BY <1>1 DEF Attempt, CallInv
<1>5. /\ c \in Call /\ c.busy = call[w].busy /\ c.todo = call[w].todo \ {s}
      /\ c.attempted = call[w].attempted + 1 /\ call[w].attempted \in Nat
      /\ c.succeeded = call[w].succeeded /\ c.reached = call[w].reached
      /\ c.eligible = call[w].eligible /\ c.ok = call[w].ok
  <2>1. call[w].todo \ {s} \in SUBSET Sinks /\ call[w].attempted \in Nat
        /\ call[w].attempted + 1 \in Nat
    BY <1>3 DEF Call
  <2>2. c \in Call
    BY <1>3, <2>1 DEF Call
  <2>3. c.todo = call[w].todo \ {s} /\ c.attempted = call[w].attempted + 1
    BY <1>3 DEF Call
  <2>4. c.busy = call[w].busy /\ c.succeeded = call[w].succeeded /\ c.reached = call[w].reached
        /\ c.eligible = call[w].eligible /\ c.ok = call[w].ok
    BY <1>3 DEF Call
  <2> HIDE DEF c
  <2> QED BY <2>1, <2>2, <2>3, <2>4
<1> HIDE DEF c
<1>6. s \in call[w].todo /\ call[w].busy
  BY <1>1 DEF Attempt, CallInv, LoopLeadsSends
<1>7. \A v \in Workers, t \in Sinks : v # w \/ t # s => send'[v][t] = send[v][t]
  BY <1>1 DEF Attempt, BreakerInv
<1>8. CallInv'
  <2>1. c.succeeded > 0 => c.reached # {}
    BY <1>1, <1>5 DEF CallInv, Accounted
  <2>2. \A t \in Sinks :
          /\ t \in c.todo => c.busy
          /\ send'[w][t].at # "none" => c.busy /\ t \notin c.todo
    BY <1>1, <1>5, <1>6, <1>7 DEF CallInv, LoopLeadsSends
  <2>3. ~c.busy /\ c.ok /\ c.eligible # {} => c.reached # {}
    BY <1>5, <1>6
  <2>4. c.eligible # {} => c.todo # {} \/ c.attempted > 0 \/ c.breakerSkipped > 0
    BY <1>5
  <2>5. \A v \in Workers, t \in Sinks :
          v # w /\ send'[v][t].at # "none" => send[v][t].at # "none"
    BY <1>7
  <2> QED BY <1>1, <1>4, <1>5, <2>1, <2>2, <2>3, <2>4, <2>5, CallsKept
<1> QED BY <1>2, <1>8, Parts DEF SinkInv, BreakerInv, CallInv, TypeOK

\* The verdict of a call whose sends have all ended is true only if one succeeded.
LEMMA ReturnKeeps ==
    ASSUME SinkInv, NEW w \in Workers, Return(w)
    PROVE  SinkInv'
<1> DEFINE c == [call[w] EXCEPT !.busy = FALSE, !.ok = Verdict(call[w])]
<1>1. BreakerInv /\ CallInv
  BY Parts
<1>2. BreakerInv'
  BY <1>1 DEF Return, BreakerInv, HalfOpenHasProbe, ClosedIsHealthy, SendsInTime,
              CooldownOutlastsProbe, OneProbeAtATime, Probing, Sending
<1>3. call[w] \in Call
  BY <1>1 DEF CallInv
<1>4. call' = [call EXCEPT ![w] = c] /\ send' = send /\ calls' \in 0..MaxCalls
  BY <1>1 DEF Return, CallInv
<1>5. /\ call[w].attempted \in Nat /\ call[w].breakerSkipped \in Nat /\ call[w].succeeded \in Nat
  BY <1>3 DEF Call
<1>6. Verdict(call[w]) \in BOOLEAN
  <2>1. (call[w].succeeded > 0) \in BOOLEAN
    BY <1>5
  <2>2. (call[w].breakerSkipped = 0) \in BOOLEAN
    BY Zenon
  <2> QED BY <2>1, <2>2, Zenon DEF Verdict
<1>7. /\ c \in Call /\ c.todo = call[w].todo
      /\ c.attempted = call[w].attempted /\ c.breakerSkipped = call[w].breakerSkipped
      /\ c.succeeded = call[w].succeeded /\ c.reached = call[w].reached
      /\ c.eligible = call[w].eligible /\ c.ok = Verdict(call[w])
  BY <1>3, <1>6 DEF Call
<1> HIDE DEF c
<1>8. call[w].todo = {} /\ \A t \in Sinks : send'[w][t].at = "none"
  BY <1>4 DEF Return, Joined
<1>9. /\ c.succeeded > 0 => c.reached # {}
      /\ c.eligible # {} => c.attempted > 0 \/ c.breakerSkipped > 0
  BY <1>1, <1>7, <1>8 DEF CallInv, Accounted
<1>10. c.ok /\ c.eligible # {} => c.reached # {}
  <2>1. c.ok => IF call[w].attempted > 0 THEN call[w].succeeded > 0 ELSE call[w].breakerSkipped = 0
    BY <1>7, Zenon DEF Verdict
  <2> QED BY <1>5, <1>7, <1>9, <2>1
<1>11. CallInv'
  BY <1>1, <1>4, <1>7, <1>8, <1>9, <1>10, CallsKept
<1> QED BY <1>2, <1>11, Parts DEF SinkInv, BreakerInv, CallInv, TypeOK

\* The end of a send keeps the calls' accounts.
LEMMA SendStepKeepsAll ==
    ASSUME SinkInv, NEW w \in Workers, NEW s \in Sinks, SendStep(w, s)
    PROVE  SinkInv'
<1>1. BreakerInv /\ CallInv
  BY Parts
<1>2. /\ BreakerInv'
      /\ send[w][s].at # "none"
      /\ \A v \in Workers, t \in Sinks : send'[v][t].at # "none" => send[v][t].at # "none"
  BY <1>1, SendStepKeeps
<1>3. CASE call' = call /\ calls' = calls
  <2>1. LoopLeadsSends' /\ Accounted' /\ NoSilentLoss'
    BY <1>1, <1>2, <1>3 DEF CallInv, LoopLeadsSends, Accounted, NoSilentLoss
  <2>2. CallInv'
    BY <1>1, <1>3, <2>1 DEF CallInv
  <2> QED BY <1>2, <2>2, Parts DEF SinkInv, BreakerInv, CallInv, TypeOK
<1>4. CASE \E slow \in BOOLEAN : SendReturns(w, s, TRUE, slow)
  <2> DEFINE c == [call[w] EXCEPT !.succeeded = @ + 1, !.reached = @ \cup {s}]
  <2>1. call[w] \in Call
    BY <1>1 DEF CallInv
  <2>2. call' = [call EXCEPT ![w] = c] /\ calls' \in 0..MaxCalls
    BY <1>1, <1>4 DEF SendReturns, CallInv
  <2>3. /\ c \in Call /\ c.busy = call[w].busy /\ c.todo = call[w].todo
        /\ c.attempted = call[w].attempted /\ c.breakerSkipped = call[w].breakerSkipped
        /\ c.reached # {} /\ c.eligible = call[w].eligible
    <3>1. call[w].succeeded + 1 \in Nat /\ call[w].reached \cup {s} \in SUBSET Sinks
      BY <2>1 DEF Call
    <3>2. c \in Call
      BY <2>1, <3>1 DEF Call
    <3>3. c.busy = call[w].busy /\ c.todo = call[w].todo /\ c.eligible = call[w].eligible
          /\ c.attempted = call[w].attempted /\ c.breakerSkipped = call[w].breakerSkipped
      BY <2>1 DEF Call
    <3>4. c.reached = call[w].reached \cup {s}
      BY <2>1 DEF Call
    <3> HIDE DEF c
    <3> QED BY <3>2, <3>3, <3>4
  <2> HIDE DEF c
  <2>4. CallInv'
    <3>1. c.eligible # {} => c.todo # {} \/ c.attempted > 0 \/ c.breakerSkipped > 0
      BY <1>1, <2>3 DEF CallInv, Accounted
    <3>2. \A t \in Sinks :
            /\ t \in c.todo => c.busy
            /\ send'[w][t].at # "none" => c.busy /\ t \notin c.todo
      BY <1>1, <1>2, <2>3 DEF CallInv, LoopLeadsSends
    <3> QED BY <1>1, <1>2, <2>2, <2>3, <3>1, <3>2, CallsKept
  <2> QED BY <1>2, <2>4, Parts DEF SinkInv, BreakerInv, CallInv, TypeOK
<1>5. \/ call' = call /\ calls' = calls
      \/ \E slow \in BOOLEAN : SendReturns(w, s, TRUE, slow)
  BY DEF SendStep, RateLimited, SendReturns, SendPanics, LatencyRecorded
<1> QED BY <1>3, <1>4, <1>5

\* Every step preserves the invariant.
LEMMA StepSinkInv == SinkInv /\ [Next]_vars => SinkInv'
<1> SUFFICES ASSUME SinkInv, [Next]_vars PROVE SinkInv'
  OBVIOUS
<1>1. CASE \E w \in Workers, r \in BOOLEAN, el \in SUBSET Sinks : Dispatch(w, r, el)
  BY <1>1, DispatchKeeps
<1>2. CASE \E w \in Workers : LoopStep(w)
  BY <1>2, SkipKeeps, AttemptKeepsAll, ReturnKeeps DEF LoopStep
<1>3. CASE \E w \in Workers, s \in Sinks : SendStep(w, s)
  BY <1>3, SendStepKeepsAll
<1>4. CASE Tick
  <2>1. BreakerInv /\ CallInv
    BY Parts
  <2>2. BreakerInv'
    BY <1>4, <2>1, TickKeeps
  <2>3. CallInv'
    BY <1>4, <2>1 DEF Tick, CallInv, LoopLeadsSends, Accounted, NoSilentLoss
  <2> QED BY <2>2, <2>3 DEF SinkInv, BreakerInv, CallInv, TypeOK
<1>5. CASE UNCHANGED vars
  BY <1>5 DEF vars, SinkInv, TypeOK, HalfOpenHasProbe, ClosedIsHealthy, SendsInTime,
              CooldownOutlastsProbe, OneProbeAtATime, LoopLeadsSends, Accounted, NoSilentLoss,
              Probing, Sending
<1> QED BY <1>1, <1>2, <1>3, <1>4, <1>5 DEF Next

-----------------------------------------------------------------------------
\* The inductive invariant holds in every reachable state.
THEOREM SinkInvariant == Spec => []SinkInv
<1>1. Init => SinkInv
  BY InitSinkInv
<1>2. SinkInv /\ [Next]_vars => SinkInv'
  BY StepSinkInv
<1> QED BY <1>1, <1>2, PTL DEF Spec

\* The breakers, calls and sends always have their shapes.
THEOREM SinkTypeCorrect == Spec => []TypeOK
<1>1. SinkInv => TypeOK
  BY DEF SinkInv
<1> QED BY <1>1, SinkInvariant, PTL

\* A half-open breaker always has the probe that will close or re-open it.
THEOREM BreakerNeverStranded == Spec => []HalfOpenHasProbe
<1>1. SinkInv => HalfOpenHasProbe
  BY DEF SinkInv
<1> QED BY <1>1, SinkInvariant, PTL

\* Two probes of one sink never overlap, whatever the workers do: perSinkTimeout
\* is below breakerCooldown.
THEOREM ProbesDoNotMeet == Spec => []OneProbeAtATime
<1>1. SinkInv => OneProbeAtATime
  BY DEF SinkInv
<1> QED BY <1>1, SinkInvariant, PTL

\* A closed breaker is below both thresholds.
THEOREM ClosedBreakersHealthy == Spec => []ClosedIsHealthy
<1>1. SinkInv => ClosedIsHealthy
  BY DEF SinkInv
<1> QED BY <1>1, SinkInvariant, PTL

\* Dispatch never reports success for an alert with eligible sinks that no sink
\* accepted.
THEOREM NoAlertSilentlyLost == Spec => []NoSilentLoss
<1>1. SinkInv => NoSilentLoss
  BY DEF SinkInv
<1> QED BY <1>1, SinkInvariant, PTL
=============================================================================
