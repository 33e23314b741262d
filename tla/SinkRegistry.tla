---------------------------- MODULE SinkRegistry ----------------------------
(***************************************************************************)
(* internal/sinks: Registry.Dispatch fans one alert out to the sinks of    *)
(* its route, each send on its own goroutine, guarded by a circuit breaker *)
(* per sink.  The workers of the dispatch pool call Dispatch concurrently. *)
(* A breaker method is one critical section; Record and RecordLatency of   *)
(* one send are two.                                                       *)
(***************************************************************************)
EXTENDS Naturals, FiniteSets

CONSTANTS
    Workers,        \* goroutines that call Dispatch
    Sinks,
    Threshold,      \* breakerThreshold
    SlowRun,        \* breakerSlowRun
    Cooldown,       \* breakerCooldown
    SlowThreshold,  \* breakerSlowThreshold
    SendTimeout,    \* perSinkTimeout
    MaxNow,         \* bound on the clock
    MaxCalls        \* bound on the number of calls of Dispatch

\* The order of the budgets in breaker.go and pipeline.go.
ASSUME SinkConstants ==
    /\ Threshold \in Nat \ {0}
    /\ SlowRun \in Nat \ {0}
    /\ SlowThreshold \in Nat
    /\ SendTimeout \in Nat
    /\ Cooldown \in Nat
    /\ SendTimeout < Cooldown
    /\ MaxNow \in Nat
    /\ MaxCalls \in Nat

VARIABLES
    brk,   \* sink -> its breaker
    call,  \* worker -> the Dispatch it is in
    send,  \* worker -> sink -> the send goroutine of that call
    now,
    calls  \* number of calls so far

vars == <<brk, call, send, now, calls>>

States == {"closed", "open", "halfOpen"}
Breakers == [state : States, failures : Nat, slow : Nat, openUntil : Nat]

\* todo: the sinks the loop has still to look at; eligible: those of the route
\* that are registered and support the alert; reached: those whose Send
\* returned nil.
Call == [busy : BOOLEAN, resolved : BOOLEAN, eligible : SUBSET Sinks, todo : SUBSET Sinks,
         attempted : Nat, breakerSkipped : Nat, succeeded : Nat, reached : SUBSET Sinks,
         ok : BOOLEAN]

\* "sending" until Record, "latency" until RecordLatency.
Sends == [at : {"none", "sending", "latency"}, probe : BOOLEAN, since : Nat, slow : BOOLEAN]

NoSend == [at |-> "none", probe |-> FALSE, since |-> 0, slow |-> FALSE]

Init ==
    /\ brk = [s \in Sinks |-> [state |-> "closed", failures |-> 0, slow |-> 0, openUntil |-> 0]]
    /\ call = [w \in Workers |->
                 [busy |-> FALSE, resolved |-> FALSE, eligible |-> {}, todo |-> {},
                  attempted |-> 0, breakerSkipped |-> 0, succeeded |-> 0, reached |-> {},
                  ok |-> TRUE]]
    /\ send = [w \in Workers |-> [s \in Sinks |-> NoSend]]
    /\ now = 0
    /\ calls = 0

(***************************************************************************)
(* The breaker.                                                            *)
(***************************************************************************)
\* mutation: the breaker opens without a cooldown
OpenedNoCooldown(b) == [b EXCEPT !.state = "open"]

Opened(b) == [b EXCEPT !.state = "open", !.openUntil = now + Cooldown]

Allows(b) == b.state = "closed" \/ (b.state = "open" /\ now >= b.openUntil)

TakesProbe(b) == b.state = "open" /\ now >= b.openUntil

AfterAllow(b) == IF TakesProbe(b) THEN [b EXCEPT !.state = "halfOpen"] ELSE b

Record(b, success) ==
    IF success THEN [b EXCEPT !.failures = 0, !.state = "closed"]
    ELSE LET c == [b EXCEPT !.failures = @ + 1]
         IN  IF b.state = "halfOpen" \/ c.failures >= Threshold THEN Opened(c) ELSE c

RecordLatency(b, slow) ==
    IF ~slow THEN [b EXCEPT !.slow = 0]
    ELSE IF b.slow + 1 >= SlowRun THEN [Opened(b) EXCEPT !.slow = 0]
    ELSE [b EXCEPT !.slow = @ + 1]

(***************************************************************************)
(* Dispatch.                                                               *)
(***************************************************************************)
Dispatch(w, resolved, eligible) ==
    /\ calls < MaxCalls
    /\ ~call[w].busy
    /\ calls' = calls + 1
    /\ call' = [call EXCEPT ![w] =
                  [busy |-> TRUE, resolved |-> resolved, eligible |-> eligible, todo |-> eligible,
                   attempted |-> 0, breakerSkipped |-> 0, succeeded |-> 0, reached |-> {},
                   ok |-> TRUE]]
    /\ UNCHANGED <<brk, send, now>>

\* One iteration of the loop over the route.  Resolves bypass the breaker.
Skip(w, s) ==
    /\ s \in call[w].todo
    /\ ~call[w].resolved
    /\ ~Allows(brk[s])
    /\ call' = [call EXCEPT ![w].todo = @ \ {s}, ![w].breakerSkipped = @ + 1]
    /\ UNCHANGED <<brk, send, now, calls>>

Attempt(w, s) ==
    /\ s \in call[w].todo
    /\ call[w].resolved \/ Allows(brk[s])
    /\ brk' = IF call[w].resolved THEN brk ELSE [brk EXCEPT ![s] = AfterAllow(@)]
    /\ call' = [call EXCEPT ![w].todo = @ \ {s}, ![w].attempted = @ + 1]
    /\ send' = [send EXCEPT ![w][s] =
                  [at |-> "sending", since |-> now, slow |-> FALSE,
                   probe |-> ~call[w].resolved /\ TakesProbe(brk[s])]]
    /\ UNCHANGED <<now, calls>>

\* mutation: a probe that was never sent is not recorded
afterRateLimitSilent(b, probe) == b

afterRateLimit(b, probe) == IF probe THEN Record(b, FALSE) ELSE b

\* The rate limiter gives no token in time: the goroutine ends without a send.
RateLimited(w, s) ==
    /\ send[w][s].at = "sending"
    /\ brk' = [brk EXCEPT ![s] = afterRateLimit(@, send[w][s].probe)]
    /\ send' = [send EXCEPT ![w][s] = NoSend]
    /\ UNCHANGED <<call, now, calls>>

\* Send returned.  The wait for the limiter is not part of its latency.
SendReturns(w, s, success, slow) ==
    /\ send[w][s].at = "sending"
    /\ slow => now - send[w][s].since >= SlowThreshold
    /\ brk' = [brk EXCEPT ![s] = Record(@, success)]
    /\ send' = [send EXCEPT ![w][s].at = "latency", ![w][s].slow = slow]
    /\ call' = IF success
               THEN [call EXCEPT ![w].succeeded = @ + 1, ![w].reached = @ \cup {s}]
               ELSE call
    /\ UNCHANGED <<now, calls>>

SendPanics(w, s) ==
    /\ send[w][s].at = "sending"
    /\ brk' = [brk EXCEPT ![s] = Record(@, FALSE)]
    /\ send' = [send EXCEPT ![w][s] = NoSend]
    /\ UNCHANGED <<call, now, calls>>

LatencyRecorded(w, s) ==
    /\ send[w][s].at = "latency"
    /\ brk' = [brk EXCEPT ![s] = RecordLatency(@, send[w][s].slow)]
    /\ send' = [send EXCEPT ![w][s] = NoSend]
    /\ UNCHANGED <<call, now, calls>>

\* mutation: the wait group counts a sink before its breaker is asked, so a
\* skipped sink is waited for
JoinedUnlessSkipped(w) ==
    /\ call[w].todo = {}
    /\ \A s \in Sinks : send[w][s].at = "none"
    /\ call[w].breakerSkipped = 0

Joined(w) == call[w].todo = {} /\ \A s \in Sinks : send[w][s].at = "none"

\* mutation: nothing attempted counts as nothing to deliver
VerdictOptimist(c) == IF c.attempted > 0 THEN c.succeeded > 0 ELSE TRUE

Verdict(c) == IF c.attempted > 0 THEN c.succeeded > 0 ELSE c.breakerSkipped = 0

Return(w) ==
    /\ call[w].busy
    /\ Joined(w)
    /\ call' = [call EXCEPT ![w].busy = FALSE, ![w].ok = Verdict(call[w])]
    /\ UNCHANGED <<brk, send, now, calls>>

\* Every send ends within perSinkTimeout.
Tick ==
    /\ now < MaxNow
    /\ \A w \in Workers, s \in Sinks :
          send[w][s].at = "sending" => now - send[w][s].since < SendTimeout
    /\ now' = now + 1
    /\ UNCHANGED <<brk, call, send, calls>>

SendStep(w, s) ==
    \/ RateLimited(w, s)
    \/ \E success, slow \in BOOLEAN : SendReturns(w, s, success, slow)
    \/ SendPanics(w, s)
    \/ LatencyRecorded(w, s)

LoopStep(w) == (\E s \in Sinks : Skip(w, s) \/ Attempt(w, s)) \/ Return(w)

Next ==
    \/ \E w \in Workers, r \in BOOLEAN, e \in SUBSET Sinks : Dispatch(w, r, e)
    \/ \E w \in Workers : LoopStep(w)
    \/ \E w \in Workers, s \in Sinks : SendStep(w, s)
    \/ Tick

Spec == Init /\ [][Next]_vars

\* The loop runs, and every send ends by itself or by its timeout.
FairSpec ==
    /\ Spec
    /\ \A w \in Workers : WF_vars(LoopStep(w))
    /\ \A w \in Workers, s \in Sinks : WF_vars(SendStep(w, s))

-----------------------------------------------------------------------------
(***************************************************************************)
(* Properties.                                                             *)
(***************************************************************************)
\* The breakers, calls and sends have their shapes.
TypeOK ==
    /\ brk \in [Sinks -> Breakers]
    /\ call \in [Workers -> Call]
    /\ send \in [Workers -> [Sinks -> Sends]]
    /\ now \in Nat
    /\ calls \in 0..MaxCalls

Probing(w, s) == send[w][s].at = "sending" /\ send[w][s].probe

\* A breaker is never stranded half-open: while it is, the probe that will
\* close or re-open it is still on its way (comments on Allow and on the rate
\* limiter in Dispatch).
HalfOpenHasProbe ==
    \A s \in Sinks : brk[s].state = "halfOpen" => \E w \in Workers : Probing(w, s)

\* One trial at a time: the cooldown outlasts any send, so a second probe never
\* meets the first one.
OneProbeAtATime ==
    \A s \in Sinks : \A v, w \in Workers : Probing(v, s) /\ Probing(w, s) => v = w

\* A closed breaker is below both thresholds: a run that reached one has opened
\* it, whatever sends of other workers ended in between.
ClosedIsHealthy ==
    \A s \in Sinks : brk[s].slow < SlowRun /\ (brk[s].state = "closed" => brk[s].failures < Threshold)

\* Dispatch answers true for an alert that had somewhere to go only if some
\* sink accepted it: otherwise the caller would mute an alert nobody saw.
NoSilentLoss ==
    \A w \in Workers :
        ~call[w].busy /\ call[w].ok /\ call[w].eligible # {} => call[w].reached # {}

\* Every Dispatch returns: wg.Wait is not held up by a panic, a dropped send or
\* an open breaker.
EveryDispatchReturns == \A w \in Workers : call[w].busy ~> ~call[w].busy
=============================================================================
