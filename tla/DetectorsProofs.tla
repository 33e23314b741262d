--------------------------- MODULE DetectorsProofs ---------------------------
(***************************************************************************)
(* Proofs about the detectors, for every set of services and fingerprints, *)
(* every interval, jitter, window and TTL.                                 *)
(***************************************************************************)
EXTENDS Detectors, AlertStoreProofs, WellFoundedInduction

\* A detector is of one class.
LEMMA Apart == DOMAIN Services \cap Kinds = {} /\ "CloudTrail" \notin DOMAIN Services \cup Kinds
<1>1. DOMAIN Services = DOMAIN AWSServices \cup DOMAIN AzureServices \cup DOMAIN GCPServices
  BY DEF Services
<1>2. Kinds \cap DOMAIN AWSServices = {} /\ "CloudTrail" \notin DOMAIN AWSServices
  BY DEF AWSServices, Kinds
<1>3. Kinds \cap DOMAIN AzureServices = {} /\ "CloudTrail" \notin DOMAIN AzureServices
  BY DEF AzureServices, Kinds
<1>4. Kinds \cap DOMAIN GCPServices = {} /\ "CloudTrail" \notin DOMAIN GCPServices
  BY DEF GCPServices, Kinds
<1>5. "CloudTrail" \notin Kinds
  BY DEF Kinds
<1> QED BY <1>1, <1>2, <1>3, <1>4, <1>5

-----------------------------------------------------------------------------
(***************************************************************************)
(* The runner.                                                             *)
(***************************************************************************)
\* The time of the next poll of a source that rests.
NextPoll == IF tick THEN now ELSE ticker

RunnerType ==
    /\ now \in Nat \ {0}
    /\ poll \in {"jitter", "idle", "polling", "stopped"}
    /\ pollStart \in Nat
    /\ ticker \in Nat
    /\ tick \in BOOLEAN

\* A poll ends a teardown after its deadline, and polls start at most the longest
\* poll and one interval apart.
RunnerPace ==
    /\ poll = "jitter" => now <= Jitter + 1 /\ ticker = 0 /\ ~tick
    /\ poll \in {"idle", "polling"} => 1 <= pollStart /\ pollStart <= now
    /\ poll = "polling" =>
          /\ now <= pollStart + 2 * Interval + Teardown
          /\ ticker = 0 => ~tick
          /\ ticker # 0 /\ ~tick => ticker <= pollStart + Interval
    /\ poll = "idle" => /\ ticker # 0
                        /\ now <= NextPoll
                        /\ NextPoll <= pollStart + 3 * Interval + Teardown
    /\ ticker # 0 => now < ticker /\ ticker <= now + Interval

RunnerInv == RunnerType /\ RunnerPace

LEMMA RunnerStarts == Init /\ RunnerInit(TRUE) => RunnerInv
<1> SUFFICES ASSUME Init, RunnerInit(TRUE) PROVE RunnerInv
  OBVIOUS
<1>1. now = 1 /\ poll = "jitter" /\ pollStart = 0 /\ ticker = 0 /\ tick = FALSE
  BY DEF Init, RunnerInit
<1>2. ~tick /\ tick \in BOOLEAN
  BY <1>1, Zenon
<1>3. RunnerInv
  BY <1>1, <1>2, RunnerConstants DEF RunnerInv, RunnerType, RunnerPace, NextPoll, validatePollInterval
<1> QED BY <1>3

\* What the runner does, and the clock when the runner may wait.
RunnerStep ==
    \/ PollBegins /\ UNCHANGED now
    \/ PollReturns /\ UNCHANGED now
    \/ Cancelled /\ UNCHANGED now
    \/ UNCHANGED <<runner, now>>
    \/ RunnerMayWait /\ RunnerTicks /\ now' = now + 1

LEMMA RunnerSteps == RunnerInv /\ RunnerStep => RunnerInv'
<1> SUFFICES ASSUME RunnerInv, RunnerStep PROVE RunnerInv'
  OBVIOUS
<1> USE RunnerConstants DEF validatePollInterval, RunnerInv, RunnerType, RunnerPace, NextPoll
<1>1. CASE PollBegins /\ UNCHANGED now
  <2>1. /\ (poll = "jitter" \/ (poll = "idle" /\ tick)) /\ poll' = "polling" /\ pollStart' = now
        /\ ticker' = ticker /\ now' = now
    BY <1>1 DEF PollBegins
  <2>2. ~tick' /\ tick' \in BOOLEAN
    BY <1>1, Zenon DEF PollBegins
  <2> QED BY <2>1, <2>2
<1>2. CASE PollReturns /\ UNCHANGED now
  <2>1. /\ poll = "polling" /\ poll' = "idle" /\ pollStart' = pollStart /\ tick' = tick
        /\ now' = now /\ ticker' = IF ticker = 0 THEN now + Interval ELSE ticker
    BY <1>2 DEF PollReturns, nextTicker
  <2>2. RunnerType'
    BY <2>1
  <2>3. CASE ticker = 0
    BY <2>1, <2>2, <2>3
  <2>4. CASE ticker # 0
    BY <2>1, <2>2, <2>4
  <2> QED BY <2>3, <2>4
<1>3. CASE Cancelled /\ UNCHANGED now
  BY <1>3 DEF Cancelled
<1>4. CASE UNCHANGED <<runner, now>>
  BY <1>4 DEF runner
<1>5. CASE RunnerMayWait /\ RunnerTicks /\ now' = now + 1
  <2>1. CASE ticker # 0 /\ now + 1 >= ticker
    <3>1. tick' /\ tick' \in BOOLEAN
      BY <1>5, <2>1, Zenon DEF RunnerTicks
    <3>7. ticker' = ticker + Interval /\ ticker = now + 1
      BY <1>5, <2>1 DEF RunnerTicks
    <3>2. poll' = poll /\ pollStart' = pollStart /\ now' = now + 1
      BY <1>5 DEF RunnerTicks
    <3>3. RunnerType'
      BY <3>1, <3>2, <3>7
    <3>4. CASE poll = "idle"
      BY <1>5, <3>1, <3>2, <3>3, <3>7, <3>4 DEF RunnerMayWait
    <3>5. CASE poll = "polling"
      BY <1>5, <3>1, <3>2, <3>3, <3>7, <3>5 DEF RunnerMayWait, pollDeadline, PollDeadlineFactor
    <3>6. CASE poll = "jitter" \/ poll = "stopped"
      BY <1>5, <2>1, <3>1, <3>2, <3>3, <3>7, <3>6 DEF RunnerMayWait
    <3> QED BY <3>4, <3>5, <3>6
  <2>2. CASE ~(ticker # 0 /\ now + 1 >= ticker)
    <3>1. tick' = tick /\ ticker' = ticker
      BY <1>5, <2>2 DEF RunnerTicks
    <3> QED BY <1>5, <2>2, <3>1 DEF RunnerTicks, RunnerMayWait, pollDeadline, PollDeadlineFactor
  <2> QED BY <2>1, <2>2
<1> QED BY <1>1, <1>2, <1>3, <1>4, <1>5 DEF RunnerStep

-----------------------------------------------------------------------------
(***************************************************************************)
(* CloudTrail.                                                             *)
(***************************************************************************)
TrailType ==
    /\ changedAt \in Nat /\ 1 <= changedAt /\ changedAt <= now
    /\ window.from \in Nat /\ window.to \in Nat
    /\ prevEnd \in Nat
    /\ faults \in 0..2
    /\ pages \in Nat
    /\ IsMap(lastSent, FP, Times)
    /\ DOMAIN active = {}
    /\ DOMAIN standing = {}

\* The windows follow each other without a gap and reach back at most as far as
\* two polls may be apart.
Windows ==
    /\ poll = "jitter" => prevEnd = 0 /\ window.from = 0
    /\ poll \in {"idle", "polling"} =>
          /\ prevEnd = pollStart
          /\ window.to = pollStart
          /\ window.from <= window.to
          /\ window.to <= window.from + 3 * Interval + Teardown

\* A sent event is remembered until the mute window has passed.
Remembered ==
    /\ ~happened => faults = 0 /\ pages = 0
    /\ EventId \in DOMAIN lastSent => EventId \in DOMAIN notified
    /\ pages # 0 => \/ EventId \in DOMAIN lastSent /\ changedAt <= lastSent[EventId]
                    \/ changedAt + MuteWindow <= now

\* An event that was not sent is in the window of this poll, which has not looked
\* it up, or in the window of the next one.
Unsent == real = {"with id"} /\ EventId \notin DOMAIN notified /\ faults < 2

Covered ==
    Unsent =>
        /\ poll = "polling" =>
              \/ /\ ~looked /\ window.from <= changedAt /\ changedAt <= window.to
                 /\ faults = 0 => window.to <= changedAt + Interval
              \/ window.to <= changedAt /\ faults = 0
        /\ poll = "idle" =>
              /\ window.from <= changedAt
              /\ faults = 0 => prevEnd <= changedAt /\ NextPoll <= changedAt + Interval
              /\ faults = 1 => \/ prevEnd <= changedAt
                               \/ NextPoll <= changedAt + 2 * Interval

TrailInv == RunnerInv /\ TrailType /\ Windows /\ Remembered /\ Covered

LEMMA TrailStarts == DetectorsInit /\ tailing => TrailInv
<1> SUFFICES ASSUME DetectorsInit, tailing PROVE TrailInv
  OBVIOUS
<1>1. RunnerInit(TRUE) /\ NoTrail /\ real = {} /\ standing = EmptyMap
  BY Apart DEF DetectorsInit, tailing, Build, TrailInit
<1>2. RunnerInv
  BY <1>1, RunnerStarts DEF DetectorsInit
<1>3. now = 1 /\ changedAt = 1 /\ DOMAIN active = {} /\ DOMAIN lastSent = {} /\ IsMap(lastSent, FP, Times)
  BY DEF DetectorsInit, Init, EmptyMap, IsMap
<1>4. DOMAIN standing = {}
  BY <1>1, Zenon DEF NoTrail, EmptyMap
<1>5. TrailType
  BY <1>1, <1>3, <1>4 DEF NoTrail, TrailType
<1>6. poll = "jitter"
  BY <1>1 DEF RunnerInit
<1>7. Windows /\ Remembered /\ Covered
  BY <1>1, <1>3, <1>6 DEF NoTrail, Windows, Remembered, Covered, Unsent, happened
<1> QED BY <1>2, <1>5, <1>7 DEF TrailInv

\* The steps of a CloudTrail source.
LEMMA TrailCases ==
    ASSUME tailing, TrailType, DetectorsNext
    PROVE  \/ EventHappens \/ StartTrailPoll \/ lookupEvent \/ TrailPollReturns \/ StopTrail
           \/ CleanOldHistory /\ UNCHANGED <<subject, runner, trailVars>>
           \/ TimePasses
<1>1. ~polling /\ ~watching
  BY Apart DEF tailing, polling, watching
<1>2. ~CloudNext
  BY <1>1 DEF CloudNext, StatusChanges, StartPoll, ListReturns, EvaluatesListed, ReturnFromPoll,
      StopPolling
<1>3. ~WatchNext
  BY <1>1 DEF WatchNext, ObjectChanges, Add, Update, ResyncObject, ResyncDue, Delete, Enriched
<1>4. ~SweepResolved
  BY DEF SweepResolved, Expired, TrailType
<1> QED BY <1>2, <1>3, <1>4 DEF DetectorsNext, TrailNext, Sweep

\* The constants and the runner, as the arithmetic below needs them.
LEMMA TrailBounds ==
    ASSUME TrailInv
    PROVE  /\ Interval \in Nat /\ Interval > 0 /\ Jitter \in Nat /\ Jitter <= Interval
           /\ Teardown \in Nat /\ MuteWindow \in Nat
           /\ RunnerType /\ RunnerPace /\ TrailType /\ Windows /\ Remembered /\ Covered
BY RunnerConstants, StoreConstants DEF validatePollInterval, TrailInv, RunnerInv

LEMMA EventHappensInv ==
    ASSUME TrailInv, EventHappens
    PROVE  TrailInv'
<1>1. real = {} /\ changedAt' = now /\ now' = now
  BY DEF EventHappens, storeVars, happened
<1>2. /\ UNCHANGED <<active, lastSent, notified, standing>> /\ UNCHANGED runner
      /\ UNCHANGED <<window, prevEnd, looked, faults, pages>>
  BY DEF EventHappens, storeVars, trailVars
<1>3. RunnerInv'
  BY <1>1, <1>2, RunnerSteps DEF RunnerStep, TrailInv
<1>4. TrailType'
  BY <1>1, <1>2, TrailBounds DEF TrailType, RunnerType
<1>5. UNCHANGED <<poll, pollStart, tick, ticker>>
  BY <1>2 DEF runner
<1>6. Windows'
  BY <1>2, <1>5, TrailBounds DEF Windows
<1>7. pages = 0 /\ faults = 0
  BY <1>1, TrailBounds DEF Remembered, happened
<1>8. Remembered'
  <2>1. happened'
    BY DEF EventHappens, happened
  <2> QED BY <1>2, <1>7, <2>1, TrailBounds DEF Remembered
<1>9. Covered'
  <2>1. now \in Nat /\ prevEnd \in Nat /\ window.to \in Nat /\ Interval \in Nat
    BY TrailBounds DEF RunnerType, TrailType
  <2>2. CASE poll = "polling"
    <3>1. window.to <= now
      BY <2>1, <2>2, TrailBounds DEF Windows, RunnerPace
    <3> QED BY <1>1, <1>2, <1>5, <1>7, <2>2, <3>1 DEF Covered
  <2>3. CASE poll = "idle"
    <3>1. window.from <= now /\ prevEnd <= now
      <4>1. prevEnd = pollStart /\ window.to = pollStart /\ window.from <= window.to
        BY <2>3, TrailBounds DEF Windows
      <4>2. pollStart <= now
        BY <2>3, TrailBounds DEF RunnerPace
      <4>3. window.from \in Nat
        BY TrailBounds DEF TrailType
      <4> QED BY <2>1, <4>1, <4>2, <4>3
    <3>2. NextPoll' <= now + Interval
      BY <1>1, <1>2, <1>5, <2>3, TrailBounds DEF NextPoll, RunnerPace, RunnerType
    <3> QED BY <1>1, <1>2, <1>5, <1>7, <2>3, <3>1, <3>2 DEF Covered
  <2> QED BY <1>5, <2>2, <2>3 DEF Covered
<1> QED BY <1>3, <1>4, <1>6, <1>8, <1>9 DEF TrailInv

LEMMA StartTrailPollInv ==
    ASSUME TrailInv, StartTrailPoll
    PROVE  TrailInv'
<1>1. /\ UNCHANGED <<active, lastSent, notified, now, real, changedAt, standing, faults, pages>>
      /\ window' = [from |-> windowStart, to |-> now] /\ prevEnd' = now
      /\ poll' = "polling" /\ pollStart' = now /\ ticker' = ticker
      /\ poll = "jitter" \/ (poll = "idle" /\ tick)
  BY DEF StartTrailPoll, PollBegins, storeVars, subject
<1>2. ~looked'
  BY Zenon DEF StartTrailPoll
<1>3. RunnerInv'
  BY <1>1, RunnerSteps DEF RunnerStep, TrailInv, StartTrailPoll
<1>4. /\ windowStart \in Nat /\ windowStart <= now
      /\ poll = "jitter" => windowStart = 0
      /\ prevEnd # 0 => windowStart <= prevEnd
      /\ windowStart + 2 * Interval <= now \/ windowStart = 0
      /\ windowStart + 2 * Interval = now \/ windowStart = 0 \/ windowStart = prevEnd
      /\ now <= windowStart + 3 * Interval + Teardown
  <2>1. now \in Nat /\ now # 0 /\ prevEnd \in Nat
    BY TrailBounds DEF RunnerType, TrailType
  <2>2. CASE poll = "jitter"
    <3>1. prevEnd = 0 /\ now <= 2 * Interval
      BY <2>1, <2>2, TrailBounds DEF Windows, RunnerPace
    <3> QED BY <2>1, <2>2, <3>1, TrailBounds DEF windowStart, lookback
  <2>3. CASE poll = "idle" /\ tick
    <3>1. prevEnd # 0 /\ now <= prevEnd + 3 * Interval + Teardown
      BY <2>1, <2>3, TrailBounds DEF Windows, RunnerPace, RunnerType, NextPoll
    <3> QED BY <2>1, <2>3, <3>1, TrailBounds DEF windowStart, lookback
  <2> QED BY <1>1, <2>2, <2>3
<1>5. window'.from = windowStart /\ window'.to = now
  BY <1>1
<1>6. TrailType'
  BY <1>1, <1>2, <1>4, <1>5, TrailBounds DEF TrailType, RunnerType
<1>7. Windows'
  BY <1>1, <1>4, <1>5, TrailBounds DEF Windows, RunnerType
<1>8. Remembered'
  BY <1>1, TrailBounds DEF Remembered, happened
<1>9. Covered'
  <2> SUFFICES ASSUME Unsent'
               PROVE  /\ window'.from <= changedAt /\ changedAt <= window'.to
                      /\ faults = 0 => window'.to <= changedAt + Interval
    BY <1>1, <1>2 DEF Covered
  <2>1. Unsent
    BY <1>1 DEF Unsent
  <2>2. CASE poll = "jitter"
    BY <1>1, <1>4, <1>5, <2>2, TrailBounds DEF TrailType, RunnerType, RunnerPace
  <2>3. CASE poll = "idle"
    <3>1. /\ faults = 0 => prevEnd <= changedAt /\ now <= changedAt + Interval
          /\ faults = 1 => prevEnd <= changedAt \/ now <= changedAt + 2 * Interval
      BY <1>1, <2>1, <2>3, TrailBounds DEF Covered, NextPoll
    <3>2. faults = 0 \/ faults = 1
      <4>1. faults < 2
        BY <2>1 DEF Unsent
      <4> QED BY <4>1, TrailBounds DEF TrailType
    <3>3. prevEnd # 0
      BY <2>3, TrailBounds DEF Windows, RunnerPace, TrailType, RunnerType
    <3>4. /\ windowStart \in Nat /\ now \in Nat /\ changedAt \in Nat /\ Interval \in Nat
          /\ changedAt <= now /\ windowStart <= prevEnd
          /\ windowStart + 2 * Interval <= now \/ windowStart = 0
      BY <1>4, <3>3, TrailBounds DEF TrailType, RunnerType
    <3>5. prevEnd \in Nat /\ windowStart <= changedAt
      BY <3>1, <3>2, <3>4, TrailBounds DEF TrailType
    <3> QED BY <1>5, <3>1, <3>4, <3>5
  <2> QED BY <1>1, <2>2, <2>3
<1> QED BY <1>3, <1>6, <1>7, <1>8, <1>9 DEF TrailInv

\* emits leaves the mute record and a notification of the event behind.
LEMMA EmitsEvent ==
    ASSUME TrailInv, emits
    PROVE  /\ UNCHANGED <<active, now>>
           /\ IsMap(lastSent', FP, Times)
           /\ EventId \in DOMAIN lastSent' /\ EventId \in DOMAIN notified'
           /\ pages' \in Nat
           /\ \/ mutedLocked(EventId) /\ UNCHANGED <<lastSent, pages>>
              \/ ~mutedLocked(EventId) /\ lastSent'[EventId] = now /\ pages' = pages + 1
<1>1. CASE ShouldSendEvent(EventId) /\ pages' = pages + 1
  BY <1>1, TrailBounds, Fingerprints DEF ShouldSendEvent, Put, IsMap, Times, TrailType, RunnerType
<1>2. CASE mutedLocked(EventId) /\ UNCHANGED <<storeVars, pages>>
  BY <1>2, TrailBounds DEF storeVars, mutedLocked, TrailType, Remembered
<1> QED BY <1>1, <1>2 DEF emits

LEMMA lookupEventInv ==
    ASSUME TrailInv, lookupEvent
    PROVE  TrailInv'
<1>1. /\ UNCHANGED <<real, changedAt, standing, runner, window, prevEnd, faults>>
      /\ poll = "polling"
      /\ looked' = TRUE
  BY DEF lookupEvent, subject, InTime
<1>2. UNCHANGED <<poll, pollStart, tick, ticker>>
  BY <1>1 DEF runner
<1>3. CASE InWindow /\ eventToAlert # {} /\ emits
  <2>1. now' = now
    BY <1>3, EmitsEvent
  <2>2. RunnerInv'
    BY <1>1, <2>1, RunnerSteps DEF RunnerStep, TrailInv
  <2>3. TrailType'
    BY <1>1, <1>3, EmitsEvent, TrailBounds DEF TrailType
  <2>4. Windows'
    BY <1>1, <1>2, TrailBounds DEF Windows
  <2>5. Remembered'
    BY <1>1, <1>3, EmitsEvent, TrailBounds DEF Remembered, InWindow, happened, TrailType, RunnerType
  <2>6. Covered'
    BY <1>3, EmitsEvent DEF Covered, Unsent
  <2> QED BY <2>2, <2>3, <2>4, <2>5, <2>6 DEF TrailInv
<1>4. CASE ~(InWindow /\ eventToAlert # {}) /\ UNCHANGED <<storeVars, pages>>
  <2>1. UNCHANGED <<active, lastSent, notified, now, pages>>
    BY <1>4 DEF storeVars
  <2>2. RunnerInv'
    BY <1>1, <2>1, RunnerSteps DEF RunnerStep, TrailInv
  <2>3. TrailType'
    BY <1>1, <2>1, TrailBounds DEF TrailType
  <2>4. Windows'
    BY <1>1, <1>2, TrailBounds DEF Windows
  <2>5. Remembered'
    BY <1>1, <2>1, TrailBounds DEF Remembered, happened
  <2>6. Covered'
    BY <1>1, <1>2, <1>4, <2>1, TrailBounds
       DEF Covered, Unsent, InWindow, eventToAlert, happened
  <2> QED BY <2>2, <2>3, <2>4, <2>5, <2>6 DEF TrailInv
<1> QED BY <1>3, <1>4 DEF lookupEvent

LEMMA TrailPollReturnsInv ==
    ASSUME TrailInv, TrailPollReturns
    PROVE  TrailInv'
<1> DEFINE failed  == InWindow /\ ~looked
           overran == now > pollStart + (IF ticker = 0 THEN 0 ELSE Interval)
           n       == (IF failed THEN 1 ELSE 0) + (IF happened /\ overran THEN 1 ELSE 0)
<1>1. /\ UNCHANGED <<active, lastSent, notified, now, real, changedAt, standing, window, prevEnd>>
      /\ UNCHANGED <<looked, pages>>
      /\ poll = "polling" /\ poll' = "idle" /\ pollStart' = pollStart /\ tick' = tick
      /\ ticker' = IF ticker = 0 THEN now + Interval ELSE ticker
  BY DEF TrailPollReturns, PollReturns, storeVars, subject, nextTicker
<1>2. faults' = IF faults + n < 2 THEN faults + n ELSE 2
  BY DEF TrailPollReturns
<1>3. n \in 0..2 /\ (~happened => n = 0)
  BY DEF InWindow
<1>4. RunnerInv'
  BY <1>1, RunnerSteps DEF RunnerStep, TrailInv, TrailPollReturns
<1> HIDE DEF n
<1>5. TrailType'
  BY <1>1, <1>2, <1>3, TrailBounds DEF TrailType
<1>6. Windows'
  BY <1>1, TrailBounds DEF Windows
<1>7. Remembered'
  <2>1. ~happened => faults' = 0
    BY <1>2, <1>3, TrailBounds DEF Remembered
  <2> QED BY <1>1, <2>1, TrailBounds DEF Remembered, happened
<1>8. Covered'
  <2> SUFFICES ASSUME Unsent'
               PROVE  /\ window.from <= changedAt
                      /\ faults' = 0 => prevEnd <= changedAt /\ NextPoll' <= changedAt + Interval
                      /\ faults' = 1 => \/ prevEnd <= changedAt
                                        \/ NextPoll' <= changedAt + 2 * Interval
    BY <1>1 DEF Covered
  <2>1. real = {"with id"} /\ EventId \notin DOMAIN notified
    BY <1>1 DEF Unsent
  <2>10. faults' < 2
    BY DEF Unsent
  <2>2. faults' = faults + n /\ faults < 2 /\ faults \in Nat
    BY <1>2, <1>3, <2>10, TrailBounds DEF TrailType
  <2>3. Unsent
    BY <2>1, <2>2 DEF Unsent
  <2>4. happened
    BY <2>1 DEF happened
  <2>5. /\ ~looked /\ window.from <= changedAt /\ changedAt <= window.to => n >= 1
        /\ overran => n >= 1
        /\ ~looked /\ window.from <= changedAt /\ changedAt <= window.to /\ overran => n = 2
    BY <2>4 DEF n, InWindow
  <2>6. \/ /\ ~looked /\ window.from <= changedAt /\ changedAt <= window.to
           /\ faults = 0 => window.to <= changedAt + Interval
        \/ window.to <= changedAt /\ faults = 0
    BY <1>1, <2>3, TrailBounds DEF Covered
  <2>7. ~overran => NextPoll' <= pollStart + Interval
    BY <1>1, TrailBounds DEF NextPoll, RunnerPace, RunnerType
  <2>8. /\ prevEnd = pollStart /\ window.to = pollStart /\ window.from <= window.to
        /\ window.from \in Nat /\ pollStart \in Nat /\ changedAt \in Nat
    BY <1>1, TrailBounds DEF Windows, TrailType, RunnerType
  <2>9. NextPoll' \in Nat
    BY <1>1, TrailBounds DEF NextPoll, RunnerType
  <2> HIDE DEF overran
  <2> QED BY <1>3, <2>2, <2>5, <2>6, <2>7, <2>8, <2>9, <2>10, TrailBounds
<1> QED BY <1>4, <1>5, <1>6, <1>7, <1>8 DEF TrailInv

LEMMA StopTrailInv ==
    ASSUME TrailInv, StopTrail
    PROVE  TrailInv'
<1>1. /\ UNCHANGED <<active, lastSent, notified, now, real, changedAt, standing>>
      /\ UNCHANGED <<window, prevEnd, looked, faults, pages>>
      /\ poll' = "stopped"
  BY DEF StopTrail, Cancelled, storeVars, subject, trailVars
<1>2. RunnerInv'
  BY <1>1, RunnerSteps DEF RunnerStep, TrailInv, StopTrail
<1>3. TrailType' /\ Windows'
  BY <1>1, TrailBounds DEF TrailType, Windows
<1>4. Remembered'
  BY <1>1, TrailBounds DEF Remembered, happened
<1>5. Covered'
  BY <1>1 DEF Covered
<1> QED BY <1>2, <1>3, <1>4, <1>5 DEF TrailInv

\* CleanOldHistory gives up a mute record only after the mute window.
LEMMA TrailCleanInv ==
    ASSUME TrailInv, CleanOldHistory, UNCHANGED <<subject, runner, trailVars>>
    PROVE  TrailInv'
<1>1. /\ UNCHANGED <<active, notified, now, real, changedAt, standing>>
      /\ UNCHANGED <<window, prevEnd, looked, faults, pages, poll, pollStart, ticker, tick>>
  BY DEF CleanOldHistory, subject, runner, trailVars
<1>2. /\ DOMAIN lastSent' \subseteq DOMAIN lastSent
      /\ \A f \in DOMAIN lastSent' : lastSent'[f] = lastSent[f]
      /\ \A f \in DOMAIN lastSent \ DOMAIN lastSent' : lastSent[f] + retention < now
      /\ IsMap(lastSent', FP, Times)
  BY TrailBounds DEF CleanOldHistory, Without, Restrict, IsMap, TrailType
<1>3. RunnerInv'
  BY <1>1, RunnerSteps DEF RunnerStep, TrailInv
<1>4. TrailType' /\ Windows'
  BY <1>1, <1>2, TrailBounds DEF TrailType, Windows
<1>5. Remembered'
  <2>1. /\ EventId \in DOMAIN lastSent' => EventId \in DOMAIN notified'
        /\ ~happened' => faults' = 0 /\ pages' = 0
    BY <1>1, <1>2, TrailBounds DEF Remembered, happened
  <2>2. EventId \in DOMAIN lastSent => lastSent[EventId] \in Nat
    BY TrailBounds DEF TrailType, IsMap, Times
  <2>3. pages' # 0 => \/ EventId \in DOMAIN lastSent' /\ changedAt' <= lastSent'[EventId]
                      \/ changedAt' + MuteWindow <= now'
    BY <1>1, <1>2, <2>2, TrailBounds, RetentionCoversMute DEF Remembered, TrailType, RunnerType
  <2> QED BY <2>1, <2>3 DEF Remembered
<1>6. Covered'
  BY <1>1, TrailBounds DEF Covered, Unsent, NextPoll
<1> QED BY <1>3, <1>4, <1>5, <1>6 DEF TrailInv

LEMMA TrailTimeInv ==
    ASSUME TrailInv, tailing, TimePasses
    PROVE  TrailInv'
<1>1. /\ UNCHANGED <<active, lastSent, notified, real, changedAt>>
      /\ UNCHANGED <<window, prevEnd, looked, faults, pages, poll, pollStart>>
      /\ now' = now + 1 /\ RunnerMayWait /\ RunnerTicks
  BY DEF TimePasses, Tick, trailVars, TrailMayWait, RunnerTicks
<1>2. standing' = standing
  BY Apart DEF TimePasses, watching, tailing
<1>3. RunnerInv'
  BY <1>1, RunnerSteps DEF RunnerStep, TrailInv
<1>4. TrailType' /\ Windows'
  BY <1>1, <1>2, TrailBounds DEF TrailType, Windows, RunnerType
<1>5. Remembered'
  <2>1. /\ EventId \in DOMAIN lastSent' => EventId \in DOMAIN notified'
        /\ ~happened' => faults' = 0 /\ pages' = 0
    BY <1>1, TrailBounds DEF Remembered, happened
  <2>2. pages' # 0 => \/ EventId \in DOMAIN lastSent' /\ changedAt' <= lastSent'[EventId]
                      \/ changedAt' + MuteWindow <= now'
    BY <1>1, TrailBounds DEF Remembered, TrailType, RunnerType
  <2> QED BY <2>1, <2>2 DEF Remembered
<1>6. Covered'
  <2>1. CASE poll = "idle"
    <3>1. ~tick /\ ticker \in Nat /\ now \in Nat /\ now < ticker
      BY <1>1, <2>1, TrailBounds DEF RunnerMayWait, RunnerPace, RunnerType
    <3>2. CASE now + 1 >= ticker
      <4>1. ticker # 0 /\ ticker = now + 1
        BY <3>1, <3>2
      <4>3. tick'
        BY <1>1, <3>2, <4>1, Zenon DEF RunnerTicks
      <4>2. NextPoll' = NextPoll
        BY <1>1, <3>1, <4>1, <4>3 DEF NextPoll
      <4> QED BY <1>1, <2>1, <4>2, TrailBounds DEF Covered, Unsent
    <3>3. CASE ~(now + 1 >= ticker)
      <4>1. ~tick' /\ ticker' = ticker
        BY <1>1, <3>1, <3>3, Zenon DEF RunnerTicks
      <4>2. NextPoll' = NextPoll
        BY <3>1, <4>1 DEF NextPoll
      <4> QED BY <1>1, <2>1, <4>2, TrailBounds DEF Covered, Unsent
    <3> QED BY <3>2, <3>3
  <2>2. CASE poll # "idle"
    BY <1>1, <2>2, TrailBounds DEF Covered, Unsent
  <2> QED BY <2>1, <2>2
<1> QED BY <1>3, <1>4, <1>5, <1>6 DEF TrailInv

LEMMA SameDetector == ASSUME [DetectorsNext]_detectorVars PROVE detector' = detector
<1>1. CASE UNCHANGED detectorVars
  BY <1>1 DEF detectorVars, subject
<1>2. CASE CloudNext
  BY <1>2 DEF CloudNext, StatusChanges, StartPoll, ListReturns, EvaluatesListed, ReturnFromPoll,
      StopPolling, subject
<1>3. CASE TrailNext
  BY <1>3 DEF TrailNext, EventHappens, StartTrailPoll, lookupEvent, TrailPollReturns, StopTrail,
      subject
<1>4. CASE WatchNext
  BY <1>4 DEF WatchNext, ObjectChanges, Add, Update, ResyncObject, Delete, Enriched, Delivered,
      subject
<1>5. CASE Sweep \/ TimePasses
  BY <1>5 DEF Sweep, TimePasses, subject
<1> QED BY <1>1, <1>2, <1>3, <1>4, <1>5 DEF DetectorsNext

LEMMA TrailSteps ==
    ASSUME tailing, TrailInv, [DetectorsNext]_detectorVars
    PROVE  TrailInv'
<1>1. TrailType
  BY TrailBounds
<1>2. CASE DetectorsNext
  <2>1. CASE TimePasses
    BY <2>1, TrailTimeInv
  <2>2. CASE CleanOldHistory /\ UNCHANGED <<subject, runner, trailVars>>
    BY <2>2, TrailCleanInv
  <2>3. CASE EventHappens
    BY <2>3, EventHappensInv
  <2>4. CASE StartTrailPoll
    BY <2>4, StartTrailPollInv
  <2>5. CASE lookupEvent
    BY <2>5, lookupEventInv
  <2>6. CASE TrailPollReturns
    BY <2>6, TrailPollReturnsInv
  <2>7. CASE StopTrail
    BY <2>7, StopTrailInv
  <2> QED BY <1>1, <1>2, <2>1, <2>2, <2>3, <2>4, <2>5, <2>6, <2>7, TrailCases
<1>3. CASE UNCHANGED detectorVars
  <2>1. /\ UNCHANGED <<active, lastSent, notified, now, real, changedAt, standing>>
        /\ UNCHANGED <<window, prevEnd, looked, faults, pages, poll, pollStart, ticker, tick>>
    BY <1>3 DEF detectorVars, storeVars, subject, runner, trailVars
  <2> QED BY <2>1 DEF TrailInv, RunnerInv, RunnerType, RunnerPace, NextPoll, TrailType, Windows,
        Remembered, Covered, Unsent, happened
<1> QED BY <1>2, <1>3

LEMMA TrailAlways == DetectorsSpec => [](tailing => TrailInv)
<1>1. DetectorsInit => (tailing => TrailInv)
  BY TrailStarts
<1>2. (tailing => TrailInv) /\ [DetectorsNext]_detectorVars => (tailing => TrailInv)'
  <2> SUFFICES ASSUME tailing => TrailInv, [DetectorsNext]_detectorVars, tailing'
               PROVE  TrailInv'
    OBVIOUS
  <2>1. tailing
    BY SameDetector DEF tailing
  <2> QED BY <2>1, TrailSteps
<1> QED BY <1>1, <1>2, PTL DEF DetectorsSpec

\* An event that one fault at most stands in the way of is sent before the windows
\* leave it behind: whatever the interval, the jitter and the teardown time,
\* overlapping the windows by twice the interval and starting the next one no
\* later than the last one ended leaves no gap.
THEOREM EventsAreNotLost == DetectorsSpec => []NoEventLost
<1>1. (tailing => TrailInv) => NoEventLost
  <2> SUFFICES ASSUME tailing, TrailInv, faults < 2, poll # "stopped", ~(eventToAlert \subseteq DOMAIN notified)
               PROVE  ~(changedAt < window.from \/ now > changedAt + 2 * PollLag)
    BY DEF NoEventLost
  <2>1. Unsent
    BY DEF Unsent, eventToAlert
  <2> HIDE DEF Unsent
  <2>2. /\ now \in Nat /\ changedAt \in Nat /\ changedAt >= 1 /\ window.from \in Nat
        /\ window.to \in Nat /\ prevEnd \in Nat /\ pollStart \in Nat
        /\ 2 * PollLag = 10 * Interval + 4 * Teardown
        /\ Interval \in Nat /\ Teardown \in Nat
    <3>1. Interval \in Nat /\ Teardown \in Nat
      BY TrailBounds
    <3>2. 2 * PollLag = 10 * Interval + 4 * Teardown
      BY <3>1 DEF PollLag, PollDeadlineFactor
    <3> QED BY <3>1, <3>2, TrailBounds DEF TrailType, RunnerType
  <2>3. faults = 0 \/ faults = 1
    BY TrailBounds DEF TrailType
  <2>4. CASE poll = "jitter"
    BY <2>2, <2>4, TrailBounds DEF Windows, RunnerPace
  <2>5. CASE poll = "polling"
    <3>1. /\ now <= pollStart + 2 * Interval + Teardown /\ window.to = pollStart
          /\ window.from <= window.to /\ window.to <= window.from + 3 * Interval + Teardown
      BY <2>5, TrailBounds DEF Windows, RunnerPace
    <3>2. window.from <= changedAt \/ window.to <= changedAt
      BY <2>1, <2>5, TrailBounds DEF Covered
    <3> QED BY <2>2, <3>1, <3>2
  <2>6. CASE poll = "idle"
    <3>1. /\ NextPoll \in Nat /\ now <= NextPoll /\ NextPoll <= pollStart + 3 * Interval + Teardown
          /\ prevEnd = pollStart
      BY <2>6, TrailBounds DEF Windows, RunnerPace, NextPoll, RunnerType
    <3>2. /\ window.from <= changedAt
          /\ prevEnd <= changedAt \/ NextPoll <= changedAt + 2 * Interval
      BY <2>1, <2>3, <2>6, TrailBounds DEF Covered
    <3> QED BY <2>2, <3>1, <3>2
  <2> QED BY <2>4, <2>5, <2>6, TrailBounds DEF RunnerType
<1> QED BY <1>1, TrailAlways, PTL

\* An event is sent once if the mute window outlasts the time in which the
\* overlapping windows show it: the longest window and the deadline of a poll.
THEOREM EventsAreSentOnce ==
    ASSUME MuteWindow > 5 * Interval + Teardown
    PROVE  DetectorsSpec => []EventSentOnce
<1> DEFINE Once == pages \in Nat /\ pages <= 1 /\ (tailing => TrailInv)
<1>1. DetectorsInit => Once
  <2>1. DetectorsInit => NoTrail
    BY Zenon DEF DetectorsInit, TrailInit
  <2> QED BY <2>1, TrailStarts DEF NoTrail
<1>2. Once /\ [DetectorsNext]_detectorVars => Once'
  <2> SUFFICES ASSUME Once, [DetectorsNext]_detectorVars PROVE Once'
    OBVIOUS
  <2>1. (tailing => TrailInv)'
    BY SameDetector, TrailSteps DEF tailing
  <2>2. pages' = pages \/ (tailing /\ lookupEvent)
    <3>1. TrailNext \/ UNCHANGED pages
      BY DEF DetectorsNext, TimePasses, detectorVars, trailVars, idle
    <3>2. CASE TrailNext
      BY <3>2 DEF TrailNext, EventHappens, StartTrailPoll, lookupEvent, TrailPollReturns,
          StopTrail, trailVars
    <3> QED BY <3>1, <3>2
  <2>3. ASSUME tailing, lookupEvent PROVE pages' \in Nat /\ pages' <= 1
    <3>1. CASE pages' = pages
      BY <3>1
    <3>2. CASE pages = 0 /\ emits
      BY <3>2, <2>3, EmitsEvent
    <3>3. CASE InWindow /\ emits /\ pages # 0
      <4>1. /\ window.from <= changedAt /\ window.to = pollStart
            /\ window.to <= window.from + 3 * Interval + Teardown
            /\ now <= pollStart + 2 * Interval
        BY <2>3, <3>3, TrailBounds
           DEF InWindow, Windows, lookupEvent, InTime, pollDeadline, PollDeadlineFactor
      <4>2. /\ now \in Nat /\ changedAt \in Nat /\ window.from \in Nat /\ window.to \in Nat
            /\ pollStart \in Nat
        BY <2>3, TrailBounds DEF TrailType, RunnerType
      <4>3. now < changedAt + MuteWindow
        BY <2>3, <4>1, <4>2, TrailBounds
      <4>4. EventId \in DOMAIN lastSent /\ changedAt <= lastSent[EventId]
        BY <2>3, <3>3, <4>2, <4>3, TrailBounds DEF Remembered
      <4>5. lastSent[EventId] \in Nat
        BY <2>3, <4>4, TrailBounds DEF TrailType, IsMap, Times
      <4>6. mutedLocked(EventId)
        BY <2>3, <4>2, <4>3, <4>4, <4>5, TrailBounds DEF mutedLocked
      <4> QED BY <2>3, <3>3, <4>6, EmitsEvent
    <3> QED BY <2>3, <3>1, <3>2, <3>3 DEF lookupEvent
  <2> QED BY <2>1, <2>2, <2>3
<1>3. Once => EventSentOnce
  BY DEF EventSentOnce
<1> HIDE DEF Once
<1> QED BY <1>1, <1>2, <1>3, PTL DEF DetectorsSpec

-----------------------------------------------------------------------------
(***************************************************************************)
(* The store below the detectors whose alerts stay active.                 *)
(***************************************************************************)
\* A mute record belongs to an active alert, so a muted alert that fires again is
\* touched; a deadline is at most a TTL away.
StoreInv ==
    /\ now \in Nat \ {0}
    /\ IsMap(active, FP, Alerts)
    /\ IsMap(lastSent, FP, Times)
    /\ DOMAIN lastSent \subseteq DOMAIN active
    /\ \A f \in DOMAIN active : 1 <= active[f].endsAt /\ active[f].endsAt <= now + ResolveTTL

\* The reasons R fired at once: their deadlines are a TTL away, the others stay.
Asserts(R) ==
    /\ DOMAIN active' = DOMAIN active \cup R
    /\ \A f \in R : active'[f].endsAt = now + ResolveTTL
    /\ \A f \in DOMAIN active \ R : active'[f].endsAt = active[f].endsAt

\* What is left after a sweep: at least the alerts whose deadline has not passed.
Sweeps ==
    /\ DOMAIN active' \subseteq DOMAIN active
    /\ \A f \in DOMAIN active : now <= active[f].endsAt => f \in DOMAIN active'
    /\ \A f \in DOMAIN active' : active'[f].endsAt = active[f].endsAt

LEMMA StoreBounds ==
    ASSUME StoreInv
    PROVE  /\ now \in Nat /\ now >= 1 /\ ResolveTTL \in Nat /\ ResolveTTL >= 1
           /\ MuteWindow \in Nat
           /\ \A f \in DOMAIN active :
                 /\ f \in FP /\ active[f].startsAt \in Nat /\ active[f].endsAt \in Nat
                 /\ active[f].endsAt >= 1
                 /\ active[f].endsAt <= now + ResolveTTL
BY StoreConstants DEF StoreInv, IsMap, Alerts, Times

LEMMA EmitsAll ==
    ASSUME StoreInv, NEW R \in SUBSET FP, EmitAll(R)
    PROVE  StoreInv' /\ Asserts(R) /\ now' = now
<1> DEFINE muted == {r \in R : mutedLocked(r)}
           touched == muted \cap DOMAIN active
           sent == R \ muted
<1>1. /\ active' = [r \in DOMAIN active \cup sent |->
                        [startsAt |-> startOf(r, now),
                         endsAt |-> IF r \in sent \cup touched THEN now + ResolveTTL
                                    ELSE active[r].endsAt]]
      /\ lastSent' = [r \in DOMAIN lastSent \cup sent |-> IF r \in sent THEN now ELSE lastSent[r]]
      /\ now' = now
  BY DEF EmitAll
<1>2. touched = muted /\ DOMAIN active \cup sent = DOMAIN active \cup R
  BY DEF mutedLocked, StoreInv
<1>3. sent \cup touched = R /\ sent \subseteq R
  BY <1>2
<1> HIDE DEF muted, touched, sent
<1>4. Asserts(R)
  BY <1>1, <1>2, <1>3 DEF Asserts
<1>5. \A r \in DOMAIN active' : active'[r].startsAt \in Nat /\ active'[r] \in Alerts
  BY <1>1, <1>2, <1>3, StoreBounds DEF startOf, Alerts, Times
<1>6. IsMap(active', FP, Alerts)
  BY <1>1, <1>2, <1>5 DEF IsMap, StoreInv
<1>7. IsMap(lastSent', FP, Times) /\ DOMAIN lastSent' \subseteq DOMAIN active'
  BY <1>1, <1>3, StoreBounds DEF IsMap, StoreInv, Times
<1>8. \A f \in DOMAIN active' : 1 <= active'[f].endsAt /\ active'[f].endsAt <= now' + ResolveTTL
  BY <1>1, <1>4, StoreBounds DEF Asserts
<1> QED BY <1>1, <1>4, <1>6, <1>7, <1>8, StoreBounds DEF StoreInv

LEMMA Fires ==
    ASSUME StoreInv, NEW fp \in FP, Fire(fp)
    PROVE  StoreInv' /\ Asserts({fp}) /\ now' = now
<1>1. CASE ShouldSend(fp, now)
  <2>1. /\ now' = now
        /\ active' = Put(active, fp, [startsAt |-> startOf(fp, now), endsAt |-> now + ResolveTTL])
        /\ lastSent' = Put(lastSent, fp, now)
    BY <1>1 DEF ShouldSend
  <2>2. startOf(fp, now) \in Nat
    BY StoreBounds DEF startOf
  <2>3. IsMap(active', FP, Alerts) /\ IsMap(lastSent', FP, Times)
    BY <2>1, <2>2, StoreBounds DEF StoreInv, Put, IsMap, Alerts, Times
  <2>4. Asserts({fp}) /\ DOMAIN lastSent' \subseteq DOMAIN active'
    BY <2>1 DEF Asserts, Put, StoreInv
  <2> QED BY <2>1, <2>3, <2>4, StoreBounds DEF StoreInv, Asserts
<1>2. CASE mutedLocked(fp) /\ Touch(fp)
  <2>1. /\ now' = now /\ lastSent' = lastSent /\ fp \in DOMAIN active
        /\ active' = [active EXCEPT ![fp].endsAt = now + ResolveTTL]
    BY <1>2 DEF Touch
  <2>2. active[fp] \in Alerts /\ now + ResolveTTL \in Nat
    BY <2>1, StoreBounds DEF StoreInv, IsMap
  <2>4. /\ [active[fp] EXCEPT !.endsAt = now + ResolveTTL] \in Alerts
        /\ [active[fp] EXCEPT !.endsAt = now + ResolveTTL].endsAt = now + ResolveTTL
    BY <2>2 DEF Alerts, Times
  <2>3. IsMap(active', FP, Alerts) /\ Asserts({fp})
    BY <2>1, <2>4 DEF StoreInv, IsMap, Asserts
  <2> QED BY <2>1, <2>3, StoreBounds DEF StoreInv, Asserts
<1>3. CASE mutedLocked(fp) /\ fp \notin DOMAIN active
  BY <1>3 DEF mutedLocked, StoreInv
<1> QED BY <1>1, <1>2, <1>3 DEF Fire

\* dropLocked, as far as the detectors are concerned.
LEMMA Drops ==
    ASSUME StoreInv, NEW F, dropLocked(F), now' = now
    PROVE  /\ StoreInv' /\ DOMAIN active' = DOMAIN active \ F
           /\ \A f \in DOMAIN active' : active'[f] = active[f]
<1>1. /\ IsMap(active', FP, Alerts) /\ DOMAIN active' = DOMAIN active \ F
      /\ \A x \in DOMAIN active' : active'[x] = active[x]
  BY DEF StoreInv, dropLocked, IsMap, Without, Restrict
<1>2. IsMap(lastSent', FP, Times) /\ DOMAIN lastSent' = DOMAIN lastSent \ F
  BY DEF StoreInv, dropLocked, IsMap, Without, Restrict
<1> QED BY <1>1, <1>2 DEF StoreInv

\* The alerts all belong to the one object.
LEMMA Clears ==
    ASSUME StoreInv, Clear
    PROVE  StoreInv' /\ DOMAIN active' = {} /\ now' = now
<1>1. ASSUME NEW o \in Objects, ResolveObject(o) PROVE StoreInv' /\ DOMAIN active' = {} /\ now' = now
  <2>1. OfObject(o) = DOMAIN active
    BY <1>1, OneObject DEF OfObject, ResolveObject, StoreInv, IsMap
  <2>2. dropLocked(OfObject(o)) /\ now' = now
    BY <1>1 DEF ResolveObject
  <2> QED BY <2>1, <2>2, Drops
<1>2. CASE DOMAIN active = {} /\ UNCHANGED storeVars
  BY <1>2 DEF storeVars, StoreInv
<1> QED BY <1>1, <1>2 DEF Clear

LEMMA SweepSweeps ==
    ASSUME StoreInv, Sweep
    PROVE  StoreInv' /\ Sweeps /\ UNCHANGED <<now, detector, real, changes, standing, changedAt>>
<1>1. UNCHANGED <<detector, real, changes, standing, changedAt>>
  BY DEF Sweep, subject
<1>2. CASE SweepResolved
  <2>1. dropLocked(Expired) /\ now' = now
    BY <1>2 DEF SweepResolved
  <2>2. /\ StoreInv' /\ DOMAIN active' = DOMAIN active \ Expired
        /\ \A f \in DOMAIN active' : active'[f] = active[f]
    BY <2>1, Drops
  <2>3. Sweeps
    BY <2>2, StoreBounds DEF Sweeps, Expired
  <2> QED BY <1>1, <2>1, <2>2, <2>3
<1>3. CASE CleanOldHistory
  <2>1. active' = active /\ now' = now
    BY <1>3 DEF CleanOldHistory
  <2>2. IsMap(lastSent', FP, Times) /\ DOMAIN lastSent' \subseteq DOMAIN lastSent
    BY <1>3 DEF CleanOldHistory, StoreInv, IsMap, Without, Restrict
  <2> QED BY <1>1, <2>1, <2>2 DEF StoreInv, Sweeps
<1> QED BY <1>2, <1>3 DEF Sweep

-----------------------------------------------------------------------------
(***************************************************************************)
(* The cloud sources.                                                      *)
(***************************************************************************)
\* A resource is listed with one of its statuses, or is gone or not listed.
OneStatus(states) == states = {} \/ \E s \in Statuses(detector) : states = {s}

\* What this poll listed is the present status, or has changed since it started.
CloudType ==
    /\ OneStatus(real)
    /\ OneStatus(listed)
    /\ listed # {} => poll = "polling"
    /\ listed # {} /\ listed # real => pollStart <= changedAt
    /\ changedAt \in Nat /\ 1 <= changedAt /\ changedAt <= now

\* The claims are those of the present status.
CloudStanding ==
    /\ DOMAIN standing = CloudClaims(real)
    /\ \A c \in DOMAIN standing : standing[c] \in Nat /\ 1 <= standing[c] /\ standing[c] <= now

\* EndedIsNotReasserted
CloudEnded ==
    \A f \in DOMAIN active :
        f \notin UNION DOMAIN standing =>
            active[f].endsAt <= changedAt + 2 * Interval + Teardown + ResolveTTL

CloudInv == RunnerInv /\ StoreInv /\ CloudType /\ CloudStanding /\ CloudEnded

\* One status makes at most one claim: its reason, or that there is no alert.
LEMMA OneClaim ==
    /\ CloudClaims({}) = {}
    /\ \A s : Verdict(s) = Skip => CloudClaims({s}) = {}
    /\ \A s : Verdict(s) = Resolve => CloudClaims({s}) = {{}}
    /\ \A s : Verdict(s) \notin {Skip, Resolve} => CloudClaims({s}) = {{Verdict(s)}}
BY DEF CloudClaims, Skip, Resolve

LEMMA VerdictFP ==
    ASSUME polling, NEW s \in Statuses(detector), Verdict(s) \notin {Skip, Resolve}
    PROVE  Verdict(s) \in FP
BY Fingerprints DEF polling, Verdict

LEMMA CloudStarts == DetectorsInit /\ polling => CloudInv
<1> SUFFICES ASSUME DetectorsInit, polling PROVE CloudInv
  OBVIOUS
<1>1. /\ RunnerInit(TRUE) /\ listed = {} /\ real \in {{s} : s \in Statuses(detector)}
      /\ standing = [c \in CloudClaims(real) |-> now]
  BY Apart DEF DetectorsInit, polling, Build, CloudInit
<1>2. RunnerInv
  BY <1>1, RunnerStarts DEF DetectorsInit
<1>3. now = 1 /\ changedAt = 1 /\ StoreInv /\ DOMAIN active = {}
  BY DEF DetectorsInit, Init, EmptyMap, IsMap, StoreInv
<1>4. CloudType
  BY <1>1, <1>3 DEF CloudType, OneStatus
<1>5. CloudStanding /\ CloudEnded
  BY <1>1, <1>3 DEF CloudStanding, CloudEnded
<1> QED BY <1>2, <1>3, <1>4, <1>5 DEF CloudInv

\* The steps of a cloud source.
LEMMA CloudCases ==
    ASSUME polling, DetectorsNext
    PROVE  CloudNext \/ (Sweep /\ UNCHANGED <<runner, cloudVars>>) \/ TimePasses
<1>1. ~tailing /\ ~watching
  BY Apart DEF tailing, polling, watching
<1>2. ~TrailNext
  BY <1>1 DEF TrailNext, EventHappens, StartTrailPoll, lookupEvent, TrailPollReturns, StopTrail
<1>3. ~WatchNext
  BY <1>1 DEF WatchNext, ObjectChanges, Add, Update, ResyncObject, ResyncDue, Delete, Enriched
<1> QED BY <1>2, <1>3 DEF DetectorsNext

\* The runner takes a step of its own in every step of a cloud source.
LEMMA CloudRuns ==
    ASSUME polling, CloudNext
    PROVE  RunnerStep
<1>1. CASE StatusChanges
  BY <1>1 DEF StatusChanges, RunnerStep, storeVars
<1>2. CASE StartPoll
  BY <1>2 DEF StartPoll, RunnerStep, storeVars
<1>3. CASE ListReturns
  BY <1>3 DEF ListReturns, RunnerStep, storeVars
<1>4. CASE ReturnFromPoll
  BY <1>4 DEF ReturnFromPoll, RunnerStep, storeVars
<1>5. CASE StopPolling
  BY <1>5 DEF StopPolling, RunnerStep, storeVars
<1>6. CASE EvaluatesListed
  <2>1. now' = now
    BY <1>6 DEF EvaluatesListed, Evaluate, storeVars, Clear, ResolveObject, Fire, ShouldSend, Touch
  <2> QED BY <1>6, <2>1 DEF EvaluatesListed, RunnerStep
<1> QED BY <1>1, <1>2, <1>3, <1>4, <1>5, <1>6 DEF CloudNext

\* What an evaluation does to the store, by the claim of the status.
LEMMA Evaluates ==
    ASSUME polling, StoreInv, NEW s \in Statuses(detector), Evaluate(s)
    PROVE  /\ StoreInv' /\ now' = now
           /\ \/ CloudClaims({s}) = {} /\ UNCHANGED active
              \/ CloudClaims({s}) = {{}} /\ DOMAIN active' = {}
              \/ CloudClaims({s}) = {{Verdict(s)}} /\ Asserts({Verdict(s)})
<1>1. CASE Verdict(s) = Skip /\ UNCHANGED storeVars
  BY <1>1, OneClaim DEF storeVars, StoreInv
<1>2. CASE Verdict(s) = Resolve /\ Clear
  BY <1>2, OneClaim, Clears
<1>3. CASE Verdict(s) \notin {Skip, Resolve} /\ Fire(Verdict(s))
  <2>1. Verdict(s) \in FP
    BY <1>3, VerdictFP
  <2>2. CloudClaims({s}) = {{Verdict(s)}}
    BY <1>3, OneClaim
  <2>3. StoreInv' /\ Asserts({Verdict(s)}) /\ now' = now
    BY <1>3, <2>1, Fires
  <2> QED BY <2>2, <2>3
<1> QED BY <1>1, <1>2, <1>3 DEF Evaluate

LEMMA CloudBounds ==
    ASSUME CloudInv
    PROVE  /\ Interval \in Nat /\ Interval >= 1 /\ Jitter \in Nat /\ Jitter <= Interval
           /\ Teardown \in Nat /\ ResolveTTL \in Nat
           /\ RunnerInv /\ RunnerType /\ RunnerPace /\ StoreInv /\ CloudType /\ CloudStanding
           /\ CloudEnded
BY RunnerConstants, StoreConstants DEF validatePollInterval, CloudInv, RunnerInv

\* The claims of the next state, which has the same detector.
LEMMA ClaimsAfter ==
    ASSUME detector' = detector
    PROVE  /\ CloudClaims(real)' = CloudClaims(real')
           /\ OneStatus(real)' <=> OneStatus(real')
           /\ OneStatus(listed)' <=> OneStatus(listed')
BY DEF CloudClaims, Verdict, OneStatus

LEMMA StatusChangesInv ==
    ASSUME polling, CloudInv, StatusChanges
    PROVE  CloudInv'
<1>1. /\ UNCHANGED <<active, now, detector, listed, poll, pollStart>>
      /\ standing' = Hold(CloudClaims(real'), now) /\ changedAt' = now
  BY DEF StatusChanges, storeVars, runner, cloudVars
<1>2. OneStatus(real')
  BY DEF StatusChanges, OneStatus
<1>3. RunnerInv'
  BY CloudRuns, CloudBounds, RunnerSteps DEF CloudNext
<1>4. StoreInv'
  BY CloudBounds DEF StatusChanges, storeVars, StoreInv
<1>5. CloudType'
  BY <1>1, <1>2, ClaimsAfter, CloudBounds DEF CloudType, RunnerPace, RunnerType
<1>6. CloudStanding'
  <2>1. DOMAIN standing' = CloudClaims(real)'
    BY <1>1, ClaimsAfter DEF Hold
  <2>2. \A c \in DOMAIN standing' : standing'[c] \in Nat /\ 1 <= standing'[c] /\ standing'[c] <= now
    BY <1>1, CloudBounds DEF Hold, CloudStanding, RunnerType
  <2> QED BY <1>1, <2>1, <2>2 DEF CloudStanding
<1>7. CloudEnded'
  BY <1>1, CloudBounds, StoreBounds DEF CloudEnded
<1> QED BY <1>3, <1>4, <1>5, <1>6, <1>7 DEF CloudInv

\* Whatever leaves the resource and its alerts alone.
LEMMA CloudQuiet ==
    ASSUME polling, CloudInv, RunnerInv', StoreInv', OneStatus(listed'),
           UNCHANGED <<now, detector, real, changedAt>>, Sweeps, DOMAIN standing' = DOMAIN standing,
           listed' # {} => poll' = "polling",
           listed' # {} /\ listed' # real => pollStart' <= changedAt,
           \A c \in DOMAIN standing : standing'[c] = standing[c] \/ standing'[c] = now
    PROVE  CloudInv'
<1>1. CloudType'
  <2>1. OneStatus(real)' /\ OneStatus(listed)'
    BY ClaimsAfter, CloudBounds DEF CloudType, OneStatus
  <2> QED BY <2>1, CloudBounds DEF CloudType
<1>2. CloudStanding'
  <2>1. DOMAIN standing' = CloudClaims(real)'
    BY ClaimsAfter, CloudBounds DEF CloudStanding
  <2>2. \A c \in DOMAIN standing' : standing'[c] \in Nat /\ 1 <= standing'[c] /\ standing'[c] <= now
    BY CloudBounds DEF CloudStanding, RunnerType
  <2> QED BY <2>1, <2>2 DEF CloudStanding
<1>3. CloudEnded'
  BY CloudBounds DEF CloudEnded, Sweeps
<1> QED BY <1>1, <1>2, <1>3 DEF CloudInv

LEMMA ListReturnsInv ==
    ASSUME polling, CloudInv, ListReturns
    PROVE  CloudInv'
<1>1. /\ UNCHANGED <<active, now, detector, real, changedAt, standing, poll, pollStart>>
      /\ listed' = real /\ poll = "polling"
  BY DEF ListReturns, storeVars, subject, runner, InTime
<1>2. RunnerInv'
  BY CloudRuns, CloudBounds, RunnerSteps DEF CloudNext
<1>3. StoreInv' /\ Sweeps
  BY <1>1, CloudBounds DEF ListReturns, storeVars, StoreInv, Sweeps
<1>4. OneStatus(listed')
  BY <1>1, CloudBounds DEF CloudType
<1> QED BY <1>1, <1>2, <1>3, <1>4, CloudQuiet

LEMMA StartPollInv ==
    ASSUME polling, CloudInv, StartPoll
    PROVE  CloudInv'
<1>1. UNCHANGED <<active, now, detector, real, changedAt, standing>> /\ listed' = {}
  BY DEF StartPoll, storeVars, subject
<1>2. RunnerInv'
  BY CloudRuns, CloudBounds, RunnerSteps DEF CloudNext
<1>3. StoreInv' /\ Sweeps
  BY <1>1, CloudBounds DEF StartPoll, storeVars, StoreInv, Sweeps
<1>4. OneStatus(listed')
  BY <1>1 DEF OneStatus
<1> QED BY <1>1, <1>2, <1>3, <1>4, CloudQuiet

LEMMA ReturnFromPollInv ==
    ASSUME polling, CloudInv, ReturnFromPoll
    PROVE  CloudInv'
<1>1. /\ UNCHANGED <<active, now, detector, real, changedAt>> /\ listed' = {}
      /\ standing' = IF evaluated \/ real = {} THEN standing ELSE Disturb(CloudClaims(real), now)
  BY DEF ReturnFromPoll, storeVars
<1>2. RunnerInv'
  BY CloudRuns, CloudBounds, RunnerSteps DEF CloudNext
<1>3. StoreInv' /\ Sweeps
  BY <1>1, CloudBounds DEF ReturnFromPoll, storeVars, StoreInv, Sweeps
<1>4. OneStatus(listed')
  BY <1>1 DEF OneStatus
<1>5. /\ DOMAIN standing' = DOMAIN standing
      /\ \A c \in DOMAIN standing : standing'[c] = standing[c] \/ standing'[c] = now
  BY <1>1, CloudBounds DEF Disturb, CloudStanding
<1> QED BY <1>1, <1>2, <1>3, <1>4, <1>5, CloudQuiet

LEMMA StopPollingInv ==
    ASSUME polling, CloudInv, StopPolling
    PROVE  CloudInv'
<1>1. /\ UNCHANGED <<active, now, detector, real, changedAt, standing, listed, pollStart>>
      /\ poll \in {"jitter", "idle"}
  BY DEF StopPolling, storeVars, subject, cloudVars, Cancelled
<1>2. RunnerInv'
  BY CloudRuns, CloudBounds, RunnerSteps DEF CloudNext
<1>3. StoreInv' /\ Sweeps
  BY <1>1, CloudBounds DEF StopPolling, storeVars, StoreInv, Sweeps
<1>4. OneStatus(listed') /\ listed = {}
  BY <1>1, CloudBounds DEF CloudType
<1> QED BY <1>1, <1>2, <1>3, <1>4, CloudQuiet

LEMMA CloudSweepInv ==
    ASSUME polling, CloudInv, Sweep, UNCHANGED <<runner, cloudVars>>
    PROVE  CloudInv'
<1>1. UNCHANGED <<listed, poll, pollStart>>
  BY DEF runner, cloudVars
<1>2. StoreInv' /\ Sweeps /\ UNCHANGED <<now, detector, real, changes, standing, changedAt>>
  BY CloudBounds, SweepSweeps
<1>3. RunnerInv'
  BY <1>2, CloudBounds, RunnerSteps DEF RunnerStep
<1>4. /\ OneStatus(listed') /\ (listed' # {} => poll' = "polling")
      /\ listed' # {} /\ listed' # real => pollStart' <= changedAt
  BY <1>1, CloudBounds DEF CloudType
<1> QED BY <1>2, <1>3, <1>4, CloudQuiet

\* A poll evaluates the present status, or one that changed while it ran.
LEMMA EvaluatesListedInv ==
    ASSUME polling, CloudInv, EvaluatesListed
    PROVE  CloudInv'
<1>1. /\ UNCHANGED <<detector, real, changedAt, standing>> /\ listed' = {} /\ poll = "polling"
  BY DEF EvaluatesListed, subject
<1>2. PICK s \in listed : Evaluate(s)
  BY DEF EvaluatesListed
<1>3. s \in Statuses(detector) /\ listed = {s}
  BY <1>2, CloudBounds DEF CloudType, OneStatus
<1>4. /\ StoreInv' /\ now' = now
      /\ \/ CloudClaims({s}) = {} /\ UNCHANGED active
         \/ CloudClaims({s}) = {{}} /\ DOMAIN active' = {}
         \/ CloudClaims({s}) = {{Verdict(s)}} /\ Asserts({Verdict(s)})
  BY <1>2, <1>3, CloudBounds, Evaluates
<1>5. RunnerInv'
  BY CloudRuns, CloudBounds, RunnerSteps DEF CloudNext
<1>6. CASE UNCHANGED active \/ DOMAIN active' = {}
  <2>1. CloudType'
    <3>1. OneStatus(real)' /\ OneStatus(listed)'
      BY <1>1, ClaimsAfter, CloudBounds DEF CloudType, OneStatus
    <3> QED BY <1>1, <1>4, <3>1, CloudBounds DEF CloudType
  <2>2. CloudStanding'
    BY <1>1, <1>4, ClaimsAfter, CloudBounds DEF CloudStanding
  <2>3. CloudEnded'
    BY <1>1, <1>6, CloudBounds DEF CloudEnded
  <2> QED BY <1>4, <1>5, <2>1, <2>2, <2>3 DEF CloudInv
<1>7. CASE CloudClaims({s}) = {{Verdict(s)}} /\ Asserts({Verdict(s)})
  <2>1. CloudType'
    <3>1. OneStatus(real)' /\ OneStatus(listed)'
      BY <1>1, ClaimsAfter, CloudBounds DEF CloudType, OneStatus
    <3> QED BY <1>1, <1>4, <3>1, CloudBounds DEF CloudType
  <2>2. CloudStanding'
    BY <1>1, <1>4, ClaimsAfter, CloudBounds DEF CloudStanding
  <2>3. CloudEnded'
    <3>1. CASE real = listed
      <4>1. Verdict(s) \in UNION DOMAIN standing
        BY <1>3, <1>7, <3>1, CloudBounds DEF CloudStanding
      <4> QED BY <1>1, <1>7, <4>1, CloudBounds DEF CloudEnded, Asserts
    <3>2. CASE real # listed
      <4>1. now <= changedAt + 2 * Interval + Teardown
        BY <1>1, <1>3, <3>2, CloudBounds DEF CloudType, RunnerPace, RunnerType
      <4>2. now + ResolveTTL <= changedAt + 2 * Interval + Teardown + ResolveTTL
        BY <4>1, CloudBounds DEF CloudType, RunnerType
      <4> QED BY <1>1, <1>7, <4>2, CloudBounds DEF CloudEnded, Asserts
    <3> QED BY <3>1, <3>2
  <2> QED BY <1>4, <1>5, <2>1, <2>2, <2>3 DEF CloudInv
<1> QED BY <1>4, <1>6, <1>7

LEMMA CloudTimeInv ==
    ASSUME polling, CloudInv, TimePasses
    PROVE  CloudInv'
<1>1. /\ UNCHANGED <<active, lastSent, detector, real, changedAt, listed, poll, pollStart>>
      /\ now' = now + 1 /\ RunnerMayWait /\ RunnerTicks
  BY DEF TimePasses, Tick, cloudVars, CloudMayWait, RunnerTicks
<1>2. standing' = standing
  BY Apart DEF TimePasses, watching, polling
<1>3. RunnerInv'
  BY <1>1, CloudBounds, RunnerSteps DEF RunnerStep
<1>4. StoreInv'
  BY <1>1, CloudBounds, StoreBounds DEF StoreInv
<1>5. CloudType'
  <2>1. OneStatus(real)' /\ OneStatus(listed)'
    BY <1>1, ClaimsAfter, CloudBounds DEF CloudType, OneStatus
  <2> QED BY <1>1, <2>1, CloudBounds DEF CloudType, RunnerType
<1>6. CloudStanding'
  <2>1. DOMAIN standing' = CloudClaims(real)'
    BY <1>1, <1>2, ClaimsAfter, CloudBounds DEF CloudStanding
  <2>2. \A c \in DOMAIN standing' : standing'[c] \in Nat /\ 1 <= standing'[c] /\ standing'[c] <= now'
    BY <1>1, <1>2, CloudBounds DEF CloudStanding, RunnerType
  <2> QED BY <2>1, <2>2 DEF CloudStanding
<1>7. CloudEnded'
  BY <1>1, <1>2, CloudBounds DEF CloudEnded
<1> QED BY <1>3, <1>4, <1>5, <1>6, <1>7 DEF CloudInv

LEMMA CloudSteps ==
    ASSUME polling, CloudInv, [DetectorsNext]_detectorVars
    PROVE  CloudInv'
<1>1. CASE DetectorsNext
  <2>1. CASE TimePasses
    BY <2>1, CloudTimeInv
  <2>2. CASE Sweep /\ UNCHANGED <<runner, cloudVars>>
    BY <2>2, CloudSweepInv
  <2>3. CASE CloudNext
    BY <2>3, StatusChangesInv, StartPollInv, ListReturnsInv, EvaluatesListedInv, ReturnFromPollInv,
       StopPollingInv DEF CloudNext
  <2> QED BY <1>1, <2>1, <2>2, <2>3, CloudCases
<1>2. CASE UNCHANGED detectorVars
  <2>1. /\ UNCHANGED <<active, lastSent, now, detector, real, changedAt, standing, listed>>
        /\ UNCHANGED <<poll, pollStart, ticker, tick>>
    BY <1>2 DEF detectorVars, storeVars, subject, runner, cloudVars
  <2>2. RunnerInv' /\ StoreInv' /\ Sweeps
    BY <2>1, CloudBounds DEF RunnerInv, RunnerType, RunnerPace, NextPoll, StoreInv, Sweeps
  <2>3. /\ OneStatus(listed') /\ (listed' # {} => poll' = "polling")
        /\ listed' # {} /\ listed' # real => pollStart' <= changedAt
    BY <2>1, CloudBounds DEF CloudType
  <2> QED BY <2>1, <2>2, <2>3, CloudQuiet
<1> QED BY <1>1, <1>2

(***************************************************************************)
(* What stands about a resource is known, if the TTL outlasts two polls in *)
(* a row of which the first evaluates the resource at once and the second  *)
(* one last.                                                               *)
(***************************************************************************)
Gap == 3 * Interval + Teardown

\* The claim holds and its alert is good until t.
Kept(c, t) ==
    /\ c = {} => DOMAIN active = {}
    /\ \A v \in c : v \in DOMAIN active /\ t <= active[v].endsAt

\* A poll that starts while the claim stands lists what makes the claim, and has
\* made it known when it has evaluated it; what the poll before made known lasts
\* until then.
CloudKnown ==
    poll \in {"idle", "polling"} =>
        \A c \in DOMAIN standing :
            standing[c] < pollStart =>
                /\ listed # {} => CloudClaims(listed) = {c}
                /\ poll = "idle" \/ evaluated => Kept(c, pollStart + ResolveTTL)
                /\ standing[c] + Gap < pollStart => Kept(c, pollStart + ResolveTTL - Gap)

LEMMA CloudKnownStarts == DetectorsInit /\ polling => CloudKnown
<1> SUFFICES ASSUME DetectorsInit, polling PROVE CloudKnown
  OBVIOUS
<1>1. RunnerInit(TRUE)
  BY Apart DEF DetectorsInit, polling, Build, CloudInit
<1>2. poll = "jitter"
  BY <1>1 DEF RunnerInit
<1> QED BY <1>2 DEF CloudKnown

LEMMA KeptSweeps ==
    ASSUME NEW c, NEW t, Kept(c, t), Sweeps, now <= t, StoreInv, t \in Int
    PROVE  Kept(c, t)'
<1>1. c = {} => DOMAIN active' = {}
  BY DEF Kept, Sweeps
<1>2. ASSUME NEW v \in c PROVE v \in DOMAIN active' /\ t <= active'[v].endsAt
  <2>1. v \in DOMAIN active /\ t <= active[v].endsAt /\ active[v].endsAt \in Nat
    BY <1>2, StoreBounds DEF Kept
  <2>2. now <= active[v].endsAt
    BY <2>1, StoreBounds
  <2> QED BY <2>1, <2>2 DEF Sweeps
<1> QED BY <1>1, <1>2 DEF Kept

\* One claim stands at a time.
LEMMA OnlyClaim ==
    ASSUME CloudInv, NEW c \in DOMAIN standing
    PROVE  CloudClaims(real) = {c}
<1>1. c \in CloudClaims(real)
  BY CloudBounds DEF CloudStanding
<1>2. PICK s : real = {s}
  BY <1>1, CloudBounds, OneClaim DEF CloudType, OneStatus
<1> QED BY <1>1, <1>2, OneClaim

\* The parts of CloudKnown for one claim that stood before the poll started.
LEMMA KnownClaim ==
    ASSUME CloudKnown, poll \in {"idle", "polling"}, NEW c \in DOMAIN standing,
           standing[c] < pollStart
    PROVE  /\ listed # {} => CloudClaims(listed) = {c}
           /\ poll = "idle" \/ evaluated => Kept(c, pollStart + ResolveTTL)
           /\ standing[c] + Gap < pollStart => Kept(c, pollStart + ResolveTTL - Gap)
BY DEF CloudKnown

\* Whatever leaves the poll as it is and takes no claim back.
LEMMA KnownQuiet ==
    ASSUME polling, CloudInv, CloudKnown, PollLag <= ResolveTTL, CloudInv',
           UNCHANGED <<detector, poll, pollStart, listed, evaluated>>,
           now' = now, Sweeps,
           \A c \in DOMAIN standing' :
               standing'[c] < pollStart => c \in DOMAIN standing /\ standing'[c] = standing[c]
    PROVE  CloudKnown'
<1> SUFFICES ASSUME poll \in {"idle", "polling"}, NEW c \in DOMAIN standing', standing'[c] < pollStart
             PROVE  /\ listed # {} => CloudClaims(listed)' = {c}
                    /\ poll = "idle" \/ evaluated => Kept(c, pollStart + ResolveTTL)'
                    /\ standing'[c] + Gap < pollStart => Kept(c, pollStart + ResolveTTL - Gap)'
  BY DEF CloudKnown
<1>1. c \in DOMAIN standing /\ standing'[c] = standing[c]
  OBVIOUS
<1>2. CloudClaims(listed)' = CloudClaims(listed)
  BY DEF CloudClaims, Verdict
<1>3. /\ pollStart \in Nat /\ now \in Nat /\ Gap = 3 * Interval + Teardown
      /\ PollLag = 5 * Interval + 2 * Teardown /\ Interval \in Nat /\ Teardown \in Nat /\ ResolveTTL \in Nat
  BY CloudBounds DEF RunnerType, Gap, PollLag, PollDeadlineFactor
<1>4. poll = "idle" => now <= pollStart + Gap
  <2>1. NextPoll \in Nat
    BY CloudBounds DEF RunnerType, NextPoll
  <2> QED BY <1>3, <2>1, CloudBounds DEF RunnerPace
<1>5. poll = "polling" => now <= pollStart + 2 * Interval + Teardown
  BY CloudBounds DEF RunnerPace
<1>6. poll = "idle" \/ evaluated => Kept(c, pollStart + ResolveTTL)'
  <2> SUFFICES ASSUME poll = "idle" \/ evaluated PROVE Kept(c, pollStart + ResolveTTL)'
    OBVIOUS
  <2> DEFINE t == pollStart + ResolveTTL
  <2>1. Kept(c, t)
    BY <1>1, KnownClaim
  <2>2. now <= t /\ t \in Int
    BY <1>3, <1>4, <1>5
  <2>3. t' = t
    OBVIOUS
  <2> HIDE DEF t
  <2>4. \A u : u = t => Kept(c, u)'
    BY <2>1, <2>2, CloudBounds, KeptSweeps
  <2> QED BY <2>3, <2>4 DEF Kept, t
<1>7. ASSUME standing'[c] + Gap < pollStart PROVE Kept(c, pollStart + ResolveTTL - Gap)'
  <2>1. CASE poll = "idle" \/ evaluated
    <3>2. \A v \in c : v \in DOMAIN active' => active'[v].endsAt \in Nat
      BY DEF CloudInv, StoreInv, IsMap, Alerts, Times
    <3> QED BY <1>3, <1>6, <2>1, <3>2 DEF Kept, Gap
  <2>2. CASE poll = "polling"
    <3> DEFINE t == pollStart + ResolveTTL - Gap
    <3>1. Kept(c, t)
      BY <1>1, <1>7, KnownClaim
    <3>2. now <= t /\ t \in Int
      BY <1>3, <1>5, <2>2
    <3>3. t' = t
      BY DEF Gap
    <3> HIDE DEF t
    <3>4. \A u : u = t => Kept(c, u)'
      BY <3>1, <3>2, CloudBounds, KeptSweeps
    <3> QED BY <3>3, <3>4 DEF Kept, t
  <2> QED BY <2>1, <2>2
<1> QED BY <1>1, <1>2, <1>6, <1>7, KnownClaim

LEMMA StartPollKnown ==
    ASSUME polling, CloudInv, CloudKnown, StartPoll, PollLag <= ResolveTTL
    PROVE  CloudKnown'
<1>1. /\ UNCHANGED <<active, standing, now>> /\ listed' = {} /\ poll' = "polling" /\ pollStart' = now
      /\ poll = "jitter" \/ (poll = "idle" /\ tick)
  BY DEF StartPoll, PollBegins, storeVars, subject
<1>2. ~evaluated'
  BY Zenon DEF StartPoll
<1> SUFFICES ASSUME NEW c \in DOMAIN standing, standing[c] + Gap < now
             PROVE  Kept(c, pollStart + ResolveTTL - Gap)'
  BY <1>1, <1>2 DEF CloudKnown
<1>3. /\ Gap = 3 * Interval + Teardown /\ Interval \in Nat /\ Teardown \in Nat /\ ResolveTTL \in Nat
      /\ now \in Nat /\ pollStart \in Nat /\ standing[c] \in Nat /\ standing[c] >= 1
      /\ Interval >= 1 /\ Jitter \in Nat /\ Jitter <= Interval
  BY CloudBounds DEF Gap, RunnerType, CloudStanding
<1>4. poll = "idle" /\ now <= pollStart + Gap
  <2>1. poll # "jitter"
    BY <1>3, CloudBounds DEF RunnerPace
  <2>2. poll = "idle" /\ NextPoll = now
    BY <1>1, <2>1 DEF NextPoll
  <2> QED BY <1>3, <2>2, CloudBounds DEF RunnerPace
<1>5. Kept(c, pollStart + ResolveTTL)
  BY <1>3, <1>4, KnownClaim
<1>6. \A v \in c : v \in DOMAIN active => active[v].endsAt \in Nat
  BY CloudBounds, StoreBounds
<1>7. now + ResolveTTL - Gap <= pollStart + ResolveTTL
  BY <1>3, <1>4
<1>8. \A v \in c : v \in DOMAIN active /\ now + ResolveTTL - Gap <= active[v].endsAt
  BY <1>3, <1>5, <1>6, <1>7 DEF Kept
<1> QED BY <1>1, <1>5, <1>8 DEF Kept, Gap

LEMMA ListReturnsKnown ==
    ASSUME polling, CloudInv, CloudKnown, ListReturns
    PROVE  CloudKnown'
<1>1. /\ UNCHANGED <<active, standing, detector, poll, pollStart, evaluated>> /\ listed' = real
  BY DEF ListReturns, storeVars, subject, runner
<1>2. CloudClaims(listed)' = CloudClaims(real)
  BY <1>1 DEF CloudClaims, Verdict
<1>3. \A c \in DOMAIN standing : CloudClaims(listed)' = {c}
  BY <1>2, OnlyClaim
<1>4. \A c, t : Kept(c, t)' <=> Kept(c, t)
  BY <1>1 DEF Kept
<1> SUFFICES ASSUME poll \in {"idle", "polling"}, NEW c \in DOMAIN standing, standing[c] < pollStart
             PROVE  /\ poll = "idle" \/ evaluated => Kept(c, pollStart + ResolveTTL)'
                    /\ standing[c] + Gap < pollStart => Kept(c, pollStart + ResolveTTL - Gap)'
  BY <1>1, <1>3 DEF CloudKnown, Gap
<1> QED BY <1>1, KnownClaim DEF Kept, Gap

LEMMA ReturnFromPollKnown ==
    ASSUME polling, CloudInv, CloudKnown, ReturnFromPoll
    PROVE  CloudKnown'
<1>1. /\ UNCHANGED <<active, pollStart>> /\ poll = "polling" /\ poll' = "idle" /\ listed' = {}
      /\ standing' = IF evaluated \/ real = {} THEN standing ELSE Disturb(CloudClaims(real), now)
  BY DEF ReturnFromPoll, storeVars, PollReturns
<1> SUFFICES ASSUME NEW c \in DOMAIN standing', standing'[c] < pollStart
             PROVE  /\ Kept(c, pollStart + ResolveTTL)'
                    /\ standing'[c] + Gap < pollStart => Kept(c, pollStart + ResolveTTL - Gap)'
  BY <1>1 DEF CloudKnown, Gap
<1>2. evaluated /\ c \in DOMAIN standing /\ standing'[c] = standing[c]
  <2>1. CASE evaluated
    BY <1>1, <2>1
  <2>2. CASE ~evaluated /\ real = {}
    BY <1>1, <2>2, CloudBounds, OneClaim DEF CloudStanding
  <2>3. CASE ~evaluated /\ real # {}
    <3>1. standing'[c] = now
      BY <1>1, <2>3 DEF Disturb
    <3> QED BY <1>1, <3>1, CloudBounds DEF RunnerPace, RunnerType
  <2> QED BY <2>1, <2>2, <2>3
<1> QED BY <1>1, <1>2, KnownClaim DEF Kept, Gap

LEMMA EvaluatesListedKnown ==
    ASSUME polling, CloudInv, CloudKnown, EvaluatesListed
    PROVE  CloudKnown'
<1>1. /\ UNCHANGED <<standing, poll, pollStart>> /\ listed' = {} /\ poll = "polling"
  BY DEF EvaluatesListed, subject, runner
<1>2. PICK s \in listed : Evaluate(s)
  BY DEF EvaluatesListed
<1>3. s \in Statuses(detector) /\ listed = {s}
  BY <1>2, CloudBounds DEF CloudType, OneStatus
<1>4. \/ CloudClaims({s}) = {} /\ UNCHANGED active
      \/ CloudClaims({s}) = {{}} /\ DOMAIN active' = {}
      \/ CloudClaims({s}) = {{Verdict(s)}} /\ Asserts({Verdict(s)})
  BY <1>2, <1>3, CloudBounds, Evaluates
<1> SUFFICES ASSUME NEW c \in DOMAIN standing, standing[c] < pollStart
             PROVE  /\ Kept(c, pollStart + ResolveTTL)'
                    /\ standing[c] + Gap < pollStart => Kept(c, pollStart + ResolveTTL - Gap)'
  BY <1>1 DEF CloudKnown, Gap
<1>5. CloudClaims({s}) = {c}
  BY <1>1, <1>3, KnownClaim
<1>6. /\ Gap \in Nat /\ ResolveTTL \in Nat /\ now \in Nat /\ pollStart \in Nat /\ pollStart <= now
  BY <1>1, CloudBounds DEF Gap, RunnerType, RunnerPace
<1>7. CASE c = {} /\ DOMAIN active' = {}
  BY <1>7 DEF Kept
<1>8. CASE c = {Verdict(s)} /\ Asserts({Verdict(s)})
  <2>1. c # {} /\ \A v \in c : v \in DOMAIN active' /\ active'[v].endsAt = now + ResolveTTL
    BY <1>8 DEF Asserts
  <2>2. pollStart + ResolveTTL <= now + ResolveTTL /\ pollStart + ResolveTTL - Gap <= now + ResolveTTL
    BY <1>6
  <2> QED BY <1>1, <2>1, <2>2 DEF Kept, Gap
<1> QED BY <1>4, <1>5, <1>7, <1>8

LEMMA CloudTimeKnown ==
    ASSUME polling, CloudInv, CloudKnown, TimePasses
    PROVE  CloudKnown'
<1>1. UNCHANGED <<active, detector, listed, evaluated, poll, pollStart>>
  BY DEF TimePasses, Tick, cloudVars, RunnerTicks
<1>2. standing' = standing
  BY Apart DEF TimePasses, watching, polling
<1>3. CloudClaims(listed)' = CloudClaims(listed)
  BY <1>1 DEF CloudClaims, Verdict
<1> QED BY <1>1, <1>2, <1>3 DEF CloudKnown, Kept, Gap

LEMMA CloudKnownSteps ==
    ASSUME polling, CloudInv, CloudKnown, [DetectorsNext]_detectorVars, PollLag <= ResolveTTL
    PROVE  CloudKnown'
<1>1. CloudInv'
  BY CloudSteps
<1>2. CASE TimePasses
  BY <1>2, CloudTimeKnown
<1>3. CASE Sweep /\ UNCHANGED <<runner, cloudVars>>
  <2>1. UNCHANGED <<listed, evaluated, poll, pollStart>>
    BY <1>3 DEF runner, cloudVars
  <2>2. Sweeps /\ UNCHANGED <<now, detector, standing>>
    BY <1>3, CloudBounds, SweepSweeps
  <2> QED BY <1>1, <2>1, <2>2, KnownQuiet
<1>4. CASE StatusChanges
  <2>1. /\ UNCHANGED <<active, now, detector, listed, evaluated, poll, pollStart>>
        /\ standing' = Hold(CloudClaims(real'), now)
    BY <1>4 DEF StatusChanges, storeVars, runner, cloudVars
  <2>2. Sweeps
    BY <2>1 DEF Sweeps
  <2>3. \A c \in DOMAIN standing' :
           \/ c \in DOMAIN standing /\ standing'[c] = standing[c]
           \/ standing'[c] = now
    BY <2>1 DEF Hold
  <2>4. CASE poll \in {"idle", "polling"}
    <3>1. ~(now < pollStart)
      BY <2>4, CloudBounds DEF RunnerPace, RunnerType
    <3> QED BY <1>1, <2>1, <2>2, <2>3, <3>1, KnownQuiet
  <2>5. CASE poll \notin {"idle", "polling"}
    BY <2>1, <2>5 DEF CloudKnown
  <2> QED BY <2>4, <2>5
<1>5. CASE StopPolling
  BY <1>5 DEF StopPolling, Cancelled, CloudKnown
<1>6. CASE UNCHANGED detectorVars
  <2>1. UNCHANGED <<active, now, detector, standing, listed, evaluated, poll, pollStart>>
    BY <1>6 DEF detectorVars, storeVars, subject, runner, cloudVars
  <2>2. Sweeps
    BY <2>1 DEF Sweeps
  <2> QED BY <1>1, <2>1, <2>2, KnownQuiet
<1>7. CASE CloudNext
  BY <1>4, <1>5, <1>7, StartPollKnown, ListReturnsKnown, ReturnFromPollKnown, EvaluatesListedKnown
     DEF CloudNext
<1> QED BY <1>2, <1>3, <1>6, <1>7, CloudCases

\* The invariant gives what StandingIsKnown says of a resource.
LEMMA CloudKnows ==
    ASSUME CloudInv, CloudKnown, PollLag <= ResolveTTL, poll # "stopped",
           NEW c \in DOMAIN standing, now > standing[c] + PollLag
    PROVE  Holds(c)
<1>1. /\ Gap = 3 * Interval + Teardown /\ Interval \in Nat /\ Teardown \in Nat /\ ResolveTTL \in Nat
      /\ now \in Nat /\ pollStart \in Nat /\ standing[c] \in Nat /\ standing[c] >= 1
      /\ Interval >= 1 /\ Jitter \in Nat /\ Jitter <= Interval
      /\ PollLag = 5 * Interval + 2 * Teardown
  BY CloudBounds DEF Gap, RunnerType, CloudStanding, PollLag, PollDeadlineFactor
<1>2. \A v \in c : v \in DOMAIN active => active[v].endsAt \in Nat
  BY CloudBounds, StoreBounds
<1>3. poll # "jitter"
  BY <1>1, CloudBounds DEF RunnerPace
<1>4. ASSUME NEW t \in Int, Kept(c, t), now <= t PROVE Holds(c)
  <2>1. \A v \in c : v \in DOMAIN active /\ now <= active[v].endsAt
    BY <1>1, <1>2, <1>4 DEF Kept
  <2> QED BY <1>4, <2>1 DEF Holds, Alive, Kept
<1>5. CASE poll = "idle"
  <2>1. NextPoll \in Nat
    BY CloudBounds DEF RunnerType, NextPoll
  <2>2. now <= pollStart + Gap
    BY <1>1, <1>5, <2>1, CloudBounds DEF RunnerPace
  <2>3. standing[c] < pollStart /\ now <= pollStart + ResolveTTL /\ pollStart + ResolveTTL \in Int
    BY <1>1, <2>2
  <2>4. Kept(c, pollStart + ResolveTTL)
    BY <1>5, <2>3, KnownClaim
  <2> QED BY <1>4, <2>3, <2>4
<1>6. CASE poll = "polling"
  <2>1. now <= pollStart + 2 * Interval + Teardown
    BY <1>6, CloudBounds DEF RunnerPace
  <2>2. /\ standing[c] < pollStart /\ standing[c] + Gap < pollStart
        /\ now <= pollStart + ResolveTTL - Gap /\ pollStart + ResolveTTL - Gap \in Int
    BY <1>1, <2>1
  <2>3. Kept(c, pollStart + ResolveTTL - Gap)
    BY <1>6, <2>2, KnownClaim
  <2> QED BY <1>4, <2>2, <2>3
<1> QED BY <1>3, <1>5, <1>6, CloudBounds DEF RunnerType

-----------------------------------------------------------------------------
(***************************************************************************)
(* The watchers.                                                           *)
(***************************************************************************)
\* A container that waits has been started before or has no restarts.
IsContainer(c) ==
    /\ c = [state |-> c.state, why |-> c.why, last |-> c.last, restarts |-> c.restarts]
    /\ c.state \in {"running", "waiting", "terminated"}
    /\ c.restarts \in Nat
    /\ c.state = "terminated" => c.why \in Terminations
    /\ c.state = "waiting" => \/ c.last = "none" /\ c.restarts = 0
                              \/ c.last \in Terminations /\ c.why = "CrashLoopBackOff"

IsPod(pod) ==
    /\ pod = [containers |-> pod.containers, deleting |-> pod.deleting, evicted |-> pod.evicted]
    /\ pod.containers = <<pod.containers[1], pod.containers[2]>>
    /\ IsContainer(pod.containers[1]) /\ IsContainer(pod.containers[2])

IsPVC(pvc) == pvc = [phase |-> pvc.phase, created |-> pvc.created] /\ pvc.created \in Nat

AreObjects(objs) ==
    \A o \in objs : (detector = "pod" => IsPod(o)) /\ (detector = "pvc" => IsPVC(o))

\* One object at most; the informer's copy differs from the object only at the
\* moment of a change.
WatchType ==
    /\ \A o, p \in real : o = p
    /\ \A o, p \in cached : o = p
    /\ AreObjects(real) /\ AreObjects(cached)
    /\ changedAt \in Nat /\ 1 <= changedAt /\ changedAt <= now
    /\ cached # real \/ replaced => changedAt = now
    /\ resyncedAt \in Nat /\ resyncedAt <= now /\ now <= resyncedAt + Resync

WatchStanding ==
    /\ DOMAIN standing = WatchClaims(real, now)
    /\ \A c \in DOMAIN standing : standing[c] \in Nat /\ 1 <= standing[c] /\ standing[c] <= now

\* What does not pass the filters has no alerts, and only pods are enriched.  An
\* enrichment is about something that stands or did when it started.
WatchEnriching ==
    /\ ~allowed => DOMAIN active = {} /\ enriching = {}
    /\ detector # "pod" => enriching = {}
    /\ \A e \in enriching :
          /\ e.reason \in FP /\ e.at \in Nat /\ e.at <= now /\ now <= e.at + EnrichTime
          /\ e.reason \in UNION DOMAIN standing \/ e.at <= changedAt

\* DeletedIsCleared.
WatchCleared == detector # "pod" /\ cached = {} => DOMAIN active = {}

\* EndedIsNotReasserted.
WatchEnded ==
    \A f \in DOMAIN active :
        f \notin UNION DOMAIN standing => active[f].endsAt <= changedAt + EnrichTime + ResolveTTL

WatchInv ==
    StoreInv /\ WatchType /\ WatchStanding /\ WatchEnriching /\ WatchCleared /\ WatchEnded

\* A container whose last death was an OOM kill still shows it, or has been
\* started since.
ShowsOOM(was, c) ==
    \/ c.state = "terminated" /\ c.why = "OOMKilled"
    \/ c.state = "waiting" /\ c.why = "CrashLoopBackOff" /\ c.last = "OOMKilled"
    \/ c.state = "running" /\ c.last = "OOMKilled" /\ c.restarts > was.restarts

OOMShown ==
    /\ oomKilled # {} => detector = "pod" /\ cached # {} /\ real # {} /\ ~replaced
    /\ cached # {} /\ real = {} => replaced
    /\ oomKilled \subseteq 1..2
    /\ detector = "pod" /\ ~replaced =>
          \A k \in cached, o \in real : \A i \in 1..2 :
              /\ k.containers[i].restarts <= o.containers[i].restarts
              /\ i \in oomKilled => ShowsOOM(k.containers[i], o.containers[i])

\* A critical alert is on its way, or was good for a TTL after the change.
Told ==
    \/ \E e \in enriching : e.reason \in Critical
    \/ \E f \in Critical \cap DOMAIN active : changedAt + ResolveTTL <= active[f].endsAt
    \/ changedAt + ResolveTTL < now

OOMInv == OOMShown /\ (oomDue /\ allowed => Told)

\* A reason of the claim is good for a TTL from a on, or one that was emitted
\* between a and b is being enriched.
Asserted(c, a, b) ==
    \/ \E r \in c : r \in DOMAIN active /\ a + ResolveTTL <= active[r].endsAt
    \/ \E e \in enriching : e.reason \in c /\ a <= e.at /\ e.at < b

\* What stands was asserted by the last resync, and by the one in every period
\* that ended no longer ago than an enrichment takes.
WatchKnown ==
    /\ replaced => \A c \in DOMAIN standing : standing[c] = now
    /\ \A c \in DOMAIN standing :
          /\ standing[c] < now => c \in WatchClaims(cached, now)
          /\ standing[c] < resyncedAt => Asserted(c, resyncedAt, now + 1)
          /\ \A t \in Nat :
                standing[c] < t /\ t + Resync <= now /\ now <= t + Resync + EnrichTime =>
                    Asserted(c, t, t + Resync)

(***************************************************************************)
(* What the evaluators return.                                             *)
(***************************************************************************)
\* The findings about a pod are numbered reasons.
LEMMA FoundReasons ==
    ASSUME NEW old, NEW pod
    PROVE  \A f \in found(old, pod) : f[2] \in WatcherReasons
<1>1. \A c : waitingReason(c) \subseteq WatcherReasons
  BY DEF waitingReason, If, WatcherReasons, ImageReasons
<1>2. \A term : killReason(pod, term) \subseteq WatcherReasons
  BY DEF killReason, If, WatcherReasons
<1>3. \A c : standingKill(pod, c) \subseteq WatcherReasons
  BY <1>2 DEF standingKill
<1>4. \A c : plainRestart(c) \subseteq WatcherReasons
  BY DEF plainRestart, If, WatcherReasons
<1>5. \A was, c : restartOf(pod, was, c) \subseteq WatcherReasons
  BY <1>2, <1>4 DEF restartOf
<1> SUFFICES ASSUME NEW f \in found(old, pod) PROVE f[2] \in WatcherReasons
  OBVIOUS
<1> DEFINE c == pod.containers
           States(i) == ({2 * i} \X waitingReason(c[i])) \cup ({2 * i + 1} \X standingKill(pod, c[i]))
           Restarts(i) == {2 * Len(c) + 1 + i}
                          \X UNION {restartOf(pod, o.containers[i].restarts, c[i]) : o \in old}
<1>6. found(old, pod) = (UNION {States(i) : i \in DOMAIN c}) \cup UNION {Restarts(i) : i \in DOMAIN c}
  BY DEF found
<1>7. ASSUME NEW i \in DOMAIN c, f \in States(i) PROVE f[2] \in WatcherReasons
  BY <1>1, <1>3, <1>7
<1>8. ASSUME NEW i \in DOMAIN c, f \in Restarts(i) PROVE f[2] \in WatcherReasons
  BY <1>5, <1>8
<1> HIDE DEF States, Restarts, c
<1>9. \/ \E i \in DOMAIN c : f \in States(i)
      \/ \E i \in DOMAIN c : f \in Restarts(i)
  BY <1>6
<1> QED BY <1>7, <1>8, <1>9

LEMMA EvaluateFP ==
    ASSUME NEW kind \in Kinds, NEW old, NEW obj, NEW resync, NEW t
    PROVE  evaluate(kind, old, obj, resync, t) \subseteq FP
<1>1. WatcherReasons \subseteq FP
  BY Fingerprints
<1>2. CASE kind = "pod"
  <2>1. evaluate(kind, old, obj, resync, t) = worstOf(found(old, obj))
    BY <1>2 DEF evaluate, evaluatePod
  <2> QED BY <1>1, <2>1, FoundReasons DEF worstOf
<1>3. CASE kind = "deployment"
  BY <1>1, <1>3 DEF evaluate, evaluateDeployment, If, WatcherReasons
<1>4. CASE kind = "statefulset"
  BY <1>1, <1>4 DEF evaluate, evaluateStatefulSet, If, WatcherReasons
<1>5. CASE kind = "daemonset"
  BY <1>1, <1>5 DEF evaluate, evaluateDaemonSet, If, WatcherReasons
<1>6. CASE kind = "hpa"
  BY <1>1, <1>6 DEF evaluate, evaluateHPA, If, WatcherReasons
<1>7. CASE kind = "job"
  BY <1>1, <1>7 DEF evaluate, evaluateJob, If, WatcherReasons
<1>8. CASE kind = "pvc"
  BY <1>1, <1>8 DEF evaluate, evaluatePVC, If, WatcherReasons
<1>9. CASE kind = "node"
  BY <1>1, <1>9 DEF evaluate, evaluateNode, If, WatcherReasons
<1>10. CASE kind = "cronjob"
  BY <1>1, <1>10 DEF evaluate, evaluateCronJob, missingSuccess, If, WatcherReasons
<1> QED BY <1>2, <1>3, <1>4, <1>5, <1>6, <1>7, <1>8, <1>9, <1>10 DEF Kinds

\* consider ends up with a finding of the highest severity.
LEMMA WorstIsFound ==
    ASSUME NEW F, \A f \in F : f[1] \in Nat, NEW f \in F
    PROVE  \E g \in F : /\ g[2] \in worstOf(F)
                       /\ \A h \in F : severityRank(h[2]) <= severityRank(g[2])
<1>1. \A r : severityRank(r) \in {2, 3}
  BY DEF severityRank
<1> DEFINE M == {g \in F : \A h \in F : severityRank(h[2]) <= severityRank(g[2])}
           N == {g[1] : g \in M}
<1>2. M # {}
  <2>1. CASE \E g \in F : severityRank(g[2]) = 3
    BY <1>1, <2>1
  <2>2. CASE \A g \in F : severityRank(g[2]) = 2
    BY <1>1, <2>2
  <2> QED BY <1>1, <2>1, <2>2
<1>3. N # {} /\ N \subseteq Nat
  BY <1>2
<1> HIDE DEF N
<1>4. PICK x \in N : \A y \in N : ~(<<y, x>> \in OpToRel(<, Nat))
  BY <1>3, NatLessThanWellFounded, WFMin
<1>5. \A y \in N : x <= y
  <2>1. \A y \in Nat : <<y, x>> \notin OpToRel(<, Nat) => ~(y < x)
    <3>1. \A y \in Nat : y < x => <<y, x>> \in OpToRel(<, Nat)
      BY <1>3, Zenon DEF OpToRel
    <3> QED BY <3>1
  <2>2. \A y \in N : ~(y < x)
    BY <1>3, <1>4, <2>1, Zenon
  <2> QED BY <1>3, <2>2
<1>6. PICK g \in M : g[1] = x
  BY DEF N
<1>7. \A h \in F :
         \/ severityRank(h[2]) < severityRank(g[2])
         \/ severityRank(h[2]) = severityRank(g[2]) /\ h[1] >= g[1]
  <2> TAKE h \in F
  <2>1. severityRank(h[2]) <= severityRank(g[2])
    OBVIOUS
  <2>2. CASE severityRank(h[2]) = severityRank(g[2])
    <3>1. h \in M
      BY <2>2
    <3>2. h[1] \in N /\ h[1] \in Nat /\ x \in Nat
      BY <1>3, <3>1 DEF N
    <3> QED BY <1>5, <1>6, <2>2, <3>2
  <2>3. CASE severityRank(h[2]) # severityRank(g[2])
    BY <1>1, <2>1, <2>3
  <2> QED BY <2>2, <2>3
<1>8. g[2] \in worstOf(F)
  BY <1>7 DEF worstOf
<1> QED BY <1>8

\* The findings about a pod, container by container.
LEMMA FoundCases ==
    ASSUME NEW old, NEW pod, IsPod(pod)
    PROVE  /\ \A f \in found(old, pod) : f[1] \in Nat
           /\ \A r : (\E f \in found(old, pod) : f[2] = r) <=>
                     \E i \in 1..2 :
                         \/ r \in waitingReason(pod.containers[i])
                         \/ r \in standingKill(pod, pod.containers[i])
                         \/ \E o \in old :
                               r \in restartOf(pod, o.containers[i].restarts, pod.containers[i])
<1> DEFINE c == pod.containers
           States(i) == ({2 * i} \X waitingReason(c[i])) \cup ({2 * i + 1} \X standingKill(pod, c[i]))
           Grown(i) == UNION {restartOf(pod, o.containers[i].restarts, c[i]) : o \in old}
           Restarts(i) == {2 * Len(c) + 1 + i} \X Grown(i)
<1>1. DOMAIN c = 1..2 /\ Len(c) = 2
  BY DEF IsPod
<1>2. found(old, pod) = (UNION {States(i) : i \in 1..2}) \cup UNION {Restarts(i) : i \in 1..2}
  BY <1>1 DEF found
<1>3. \A i, r : r \in Grown(i) <=> \E o \in old : r \in restartOf(pod, o.containers[i].restarts, c[i])
  OBVIOUS
<1> HIDE DEF Grown
<1>4. \A i \in 1..2 : \A f \in States(i) :
         f[1] \in Nat /\ (f[2] \in waitingReason(c[i]) \/ f[2] \in standingKill(pod, c[i]))
  OBVIOUS
<1>5. \A i \in 1..2 : \A f \in Restarts(i) : f[1] \in Nat /\ f[2] \in Grown(i)
  BY <1>1
<1>6. \A r : \A i \in 1..2 :
                          /\ r \in waitingReason(c[i]) => <<2 * i, r>> \in States(i)
                          /\ r \in standingKill(pod, c[i]) => <<2 * i + 1, r>> \in States(i)
                          /\ r \in Grown(i) => <<2 * Len(c) + 1 + i, r>> \in Restarts(i)
  OBVIOUS
<1> HIDE DEF States, Restarts, c
<1>7. \A f \in found(old, pod) : \E i \in 1..2 : f \in States(i) \/ f \in Restarts(i)
  BY <1>2
<1>8. \A f, i : i \in 1..2 /\ (f \in States(i) \/ f \in Restarts(i)) => f \in found(old, pod)
  BY <1>2
<1>9. \A f \in found(old, pod) : f[1] \in Nat
  BY <1>4, <1>5, <1>7
<1>10. ASSUME NEW f \in found(old, pod)
       PROVE  \E i \in 1..2 : \/ f[2] \in waitingReason(c[i])
                              \/ f[2] \in standingKill(pod, c[i])
                              \/ f[2] \in Grown(i)
  BY <1>4, <1>5, <1>7
<1>11. ASSUME NEW r, NEW i \in 1..2,
              r \in waitingReason(c[i]) \/ r \in standingKill(pod, c[i]) \/ r \in Grown(i)
       PROVE  \E f \in found(old, pod) : f[2] = r
  <2>1. CASE r \in waitingReason(c[i])
    <3>1. <<2 * i, r>> \in States(i) /\ <<2 * i, r>>[2] = r
      BY <1>6, <2>1
    <3>2. PICK f \in States(i) : f[2] = r
      BY <3>1
    <3> QED BY <1>8, <3>2
  <2>2. CASE r \in standingKill(pod, c[i])
    <3>1. <<2 * i + 1, r>> \in States(i) /\ <<2 * i + 1, r>>[2] = r
      BY <1>6, <2>2
    <3>2. PICK f \in States(i) : f[2] = r
      BY <3>1
    <3> QED BY <1>8, <3>2
  <2>3. CASE r \in Grown(i)
    <3>1. <<2 * Len(c) + 1 + i, r>> \in Restarts(i) /\ <<2 * Len(c) + 1 + i, r>>[2] = r
      BY <1>6, <2>3
    <3>2. PICK f \in Restarts(i) : f[2] = r
      BY <3>1
    <3> QED BY <1>8, <3>2
  <2> QED BY <1>11, <2>1, <2>2, <2>3
<1>12. \A r : (\E f \in found(old, pod) : f[2] = r) <=>
            \E i \in 1..2 : r \in waitingReason(c[i]) \/ r \in standingKill(pod, c[i]) \/ r \in Grown(i)
  BY <1>10, <1>11
<1> QED BY <1>3, <1>9, <1>12 DEF c

\* A pod that has not changed has no restarts, so only what stands is found.
LEMMA SamePod ==
    ASSUME NEW pod, IsPod(pod)
    PROVE  /\ evaluatePod({pod}, pod) \subseteq podWorst(pod)
           /\ podWorst(pod) # {} => \E r \in podWorst(pod) : r \in evaluatePod({pod}, pod)
<1> DEFINE all == UNION {standingOf(pod, pod.containers[i]) : i \in DOMAIN pod.containers}
           F == found({pod}, pod)
<1>1. DOMAIN pod.containers = 1..2 /\ \A i \in 1..2 : pod.containers[i].restarts \in Nat
  BY DEF IsPod, IsContainer
<1>2. \A i \in 1..2 : restartOf(pod, pod.containers[i].restarts, pod.containers[i]) = {}
  BY <1>1 DEF restartOf
<1>3. \A r : r \in all <=> \E i \in 1..2 : \/ r \in waitingReason(pod.containers[i])
                                           \/ r \in standingKill(pod, pod.containers[i])
  BY <1>1 DEF standingOf
<1>4. \A r : r \in all <=> \E f \in F : f[2] = r
  <2>1. \A r : (\E f \in F : f[2] = r) <=>
              \E i \in 1..2 :
                  \/ r \in waitingReason(pod.containers[i])
                  \/ r \in standingKill(pod, pod.containers[i])
                  \/ \E o \in {pod} :
                        r \in restartOf(pod, o.containers[i].restarts, pod.containers[i])
    <3> DEFINE old == {pod}
    <3> HIDE DEF old
    <3>1. \A r : (\E f \in found(old, pod) : f[2] = r) <=>
              \E i \in 1..2 :
                  \/ r \in waitingReason(pod.containers[i])
                  \/ r \in standingKill(pod, pod.containers[i])
                  \/ \E o \in old :
                        r \in restartOf(pod, o.containers[i].restarts, pod.containers[i])
      BY FoundCases
    <3> QED BY <3>1 DEF old
  <2>2. \A r, o : \A i \in 1..2 : o \in {pod} =>
                  r \notin restartOf(pod, o.containers[i].restarts, pod.containers[i])
    BY <1>2
  <2> HIDE DEF F, all
  <2> QED BY <1>3, <2>1, <2>2
<1>5. \A f \in F : f[1] \in Nat
  BY FoundCases
<1>6. podWorst(pod) = {r \in all : \A s \in all : severityRank(s) <= severityRank(r)}
  BY DEF podWorst
<1>7. \A r : severityRank(r) \in {2, 3}
  BY DEF severityRank
<1> HIDE DEF all, F
<1>8. evaluatePod({pod}, pod) = worstOf(F)
  BY DEF evaluatePod, F
<1>9. worstOf(F) \subseteq podWorst(pod)
  <2> SUFFICES ASSUME NEW r \in worstOf(F), NEW s \in all
               PROVE  r \in all /\ severityRank(s) <= severityRank(r)
    BY <1>4, <1>6 DEF worstOf
  <2>1. PICK f \in F : /\ f[2] = r
                       /\ \A g \in F : \/ severityRank(g[2]) < severityRank(f[2])
                                       \/ severityRank(g[2]) = severityRank(f[2])
    BY DEF worstOf
  <2>2. PICK g \in F : g[2] = s
    BY <1>4
  <2> QED BY <1>4, <1>7, <2>1, <2>2
<1>10. ASSUME podWorst(pod) # {} PROVE \E r \in podWorst(pod) : r \in worstOf(F)
  <2>1. PICK f : f \in F
    BY <1>4, <1>6, <1>10
  <2>2. PICK g \in F : g[2] \in worstOf(F)
    BY <1>5, <2>1, WorstIsFound
  <2> QED BY <1>9, <2>2
<1> QED BY <1>8, <1>9, <1>10

\* Without a change an evaluator finds no more than on a resync.
LEMMA SameObject ==
    ASSUME NEW kind \in Kinds \ {"pod"}, NEW o, NEW b \in BOOLEAN, NEW t
    PROVE  evaluate(kind, {o}, o, b, t) \subseteq evaluate(kind, {o}, o, TRUE, t)
<1>1. CASE kind = "node"
  <2>1. \A f, v : nodeChanged({o}, TRUE, f, v)
    BY DEF nodeChanged
  <2>2. evaluateNode({o}, o, b) \subseteq evaluateNode({o}, o, TRUE)
    BY <2>1 DEF evaluateNode, If
  <2> QED BY <1>1, <2>2 DEF evaluate
<1>2. CASE kind = "cronjob"
  <2>1. b = FALSE => evaluateCronJob({o}, o, b) = {}
    BY DEF evaluateCronJob, If
  <2>2. b = TRUE \/ b = FALSE
    OBVIOUS
  <2>3. evaluateCronJob({o}, o, b) \subseteq evaluateCronJob({o}, o, TRUE)
    BY <2>1, <2>2
  <2> QED BY <1>2, <2>3 DEF evaluate
<1>3. CASE kind \in {"deployment", "statefulset", "daemonset", "hpa", "job", "pvc"}
  BY <1>3 DEF evaluate
<1> QED BY <1>1, <1>2, <1>3 DEF Kinds

LEMMA EvaluateSame ==
    ASSUME watching, NEW o, detector = "pod" => IsPod(o), NEW b \in BOOLEAN, NEW t
    PROVE  evaluate(detector, {o}, o, b, t) \subseteq UNION ClaimsOf(o, t)
<1>1. CASE detector = "pod"
  <2>1. evaluate(detector, {o}, o, b, t) = evaluatePod({o}, o)
    BY <1>1 DEF evaluate
  <2>2. ClaimsOf(o, t) = {podWorst(o)} \ {{}}
    BY <1>1 DEF ClaimsOf
  <2>3. UNION ClaimsOf(o, t) = podWorst(o)
    BY <2>2
  <2> QED BY <1>1, <2>1, <2>3, SamePod
<1>2. CASE detector # "pod"
  <2>1. ClaimsOf(o, t) = {{r} : r \in evaluate(detector, {o}, o, TRUE, t)}
    BY <1>2 DEF ClaimsOf
  <2>2. evaluate(detector, {o}, o, b, t) \subseteq evaluate(detector, {o}, o, TRUE, t)
    BY <1>2, SameObject DEF watching
  <2> QED BY <2>1, <2>2
<1> QED BY <1>1, <1>2

\* A resync emits a reason of every claim.
LEMMA ClaimIsEmitted ==
    ASSUME NEW o, detector = "pod" => IsPod(o), NEW t, NEW c \in ClaimsOf(o, t)
    PROVE  \E r \in c : r \in evaluate(detector, {o}, o, TRUE, t)
<1>1. CASE detector = "pod"
  <2>1. evaluate(detector, {o}, o, TRUE, t) = evaluatePod({o}, o)
    BY <1>1 DEF evaluate
  <2>2. c = podWorst(o) /\ c # {}
    BY <1>1 DEF ClaimsOf
  <2> QED BY <1>1, <2>1, <2>2, SamePod
<1>2. CASE detector # "pod"
  BY <1>2 DEF ClaimsOf
<1> QED BY <1>1, <1>2

\* Time takes no claim back.
LEMMA ClaimsGrow ==
    ASSUME watching, NEW o, detector = "pvc" => IsPVC(o), NEW t \in Nat
    PROVE  ClaimsOf(o, t) \subseteq ClaimsOf(o, t + 1)
<1>1. CASE detector = "pod"
  BY <1>1 DEF ClaimsOf
<1>2. CASE detector = "pvc"
  <2>1. o.created \in Nat
    BY <1>2 DEF IsPVC
  <2> DEFINE Late(u) == u - o.created >= PendingThreshold
  <2>2. Late(t) => Late(t + 1)
    BY <2>1, WatcherConstants DEF WatcherConstants
  <2>3. \A u : evaluatePVC(o, u) = If(o.phase = "Lost", "PVCLost")
               \cup If(o.phase = "Pending" /\ o.created # 0 /\ Late(u), "PVCPending")
    BY DEF evaluatePVC
  <2> HIDE DEF Late
  <2>4. evaluatePVC(o, t) \subseteq evaluatePVC(o, t + 1)
    BY <2>2, <2>3 DEF If
  <2>5. \A u : ClaimsOf(o, u) = {{r} : r \in evaluatePVC(o, u)}
    BY <1>2 DEF ClaimsOf, evaluate
  <2> QED BY <2>4, <2>5
<1>3. CASE detector \notin {"pod", "pvc"}
  <2>1. evaluate(detector, {o}, o, TRUE, t) = evaluate(detector, {o}, o, TRUE, t + 1)
    BY <1>3 DEF evaluate, watching, Kinds
  <2> QED BY <1>3, <2>1 DEF ClaimsOf
<1> QED BY <1>1, <1>2, <1>3

LEMMA WatchClaimsAre ==
    ASSUME NEW objs, NEW t
    PROVE  \A c : c \in WatchClaims(objs, t) <=> allowed /\ \E o \in objs : c \in ClaimsOf(o, t)
BY DEF WatchClaims

\* The claims of the next state, which has the same detector and filters.
LEMMA WatchClaimsAfter ==
    ASSUME detector' = detector, allowed' = allowed
    PROVE  /\ WatchClaims(real, now)' = WatchClaims(real', now')
           /\ WatchClaims(cached, now)' = WatchClaims(cached', now')
BY DEF WatchClaims, ClaimsOf, evaluate

(***************************************************************************)
(* What becomes of the objects.                                            *)
(***************************************************************************)
LEMMA ContainerMoved ==
    ASSUME NEW c, IsContainer(c), NEW d \in ContainerMoves(c)
    PROVE  /\ IsContainer(d) /\ c.restarts <= d.restarts
           /\ d.state = "terminated" => c.state = "running"
           /\ \A was : /\ was.restarts \in Nat /\ was.restarts <= c.restarts
                        /\ ShowsOOM(was, c) /\ d.state # "terminated"
                       => ShowsOOM(was, d)
<1>1. CASE c.state = "running"
  <2>1. PICK t \in Terminations : d = Dead(t, c.last, c.restarts)
    BY <1>1 DEF ContainerMoves
  <2> QED BY <1>1, <2>1 DEF Dead, IsContainer
<1>2. CASE c.state = "terminated"
  <2>1. d = Running(c.why, c.restarts + 1) \/ d = Waiting("CrashLoopBackOff", c.why, c.restarts)
    BY <1>2 DEF ContainerMoves
  <2>2. CASE d = Running(c.why, c.restarts + 1)
    BY <1>2, <2>2 DEF Running, IsContainer, ShowsOOM
  <2>3. CASE d = Waiting("CrashLoopBackOff", c.why, c.restarts)
    BY <1>2, <2>3 DEF Waiting, IsContainer, ShowsOOM
  <2> QED BY <2>1, <2>2, <2>3
<1>3. CASE c.state = "waiting"
  <2>1. \/ d = Running(c.last, IF c.last = "none" THEN 0 ELSE c.restarts + 1)
        \/ c.why \in ImageReasons /\ \E r \in ImageReasons : d = Waiting(r, c.last, c.restarts)
    BY <1>3 DEF ContainerMoves
  <2>2. "none" \notin Terminations
    BY DEF Terminations
  <2>3. CASE d = Running(c.last, IF c.last = "none" THEN 0 ELSE c.restarts + 1)
    BY <1>3, <2>2, <2>3 DEF Running, IsContainer, ShowsOOM
  <2>4. CASE c.why \in ImageReasons /\ \E r \in ImageReasons : d = Waiting(r, c.last, c.restarts)
    <3>1. c.last = "none" /\ c.restarts = 0
      BY <1>3, <2>4 DEF ImageReasons, IsContainer
    <3> QED BY <1>3, <2>2, <2>4, <3>1 DEF Waiting, IsContainer, ShowsOOM
  <2> QED BY <2>1, <2>3, <2>4
<1> QED BY <1>1, <1>2, <1>3 DEF IsContainer

LEMMA PodMoved ==
    ASSUME NEW o, IsPod(o), NEW m \in PodMoves(o)
    PROVE  /\ IsPod(m)
           /\ \A i \in 1..2 : \/ m.containers[i] = o.containers[i]
                              \/ m.containers[i] \in ContainerMoves(o.containers[i])
<1>1. /\ o = [containers |-> o.containers, deleting |-> o.deleting, evicted |-> o.evicted]
      /\ o.containers = <<o.containers[1], o.containers[2]>> /\ DOMAIN o.containers = 1..2
      /\ \A i \in 1..2 : IsContainer(o.containers[i])
  BY DEF IsPod
<1>2. ASSUME NEW i \in 1..2, NEW c \in ContainerMoves(o.containers[i]),
             m = [o EXCEPT !.containers[i] = c]
      PROVE  /\ IsPod(m)
             /\ \A j \in 1..2 : \/ m.containers[j] = o.containers[j]
                                \/ m.containers[j] \in ContainerMoves(o.containers[j])
  <2>1. IsContainer(c)
    BY <1>1, ContainerMoved
  <2> DEFINE cs == [o.containers EXCEPT ![i] = c]
  <2>2. m = [containers |-> cs, deleting |-> o.deleting, evicted |-> o.evicted]
    BY <1>1, <1>2
  <2>3. cs = <<cs[1], cs[2]>> /\ \A j \in 1..2 : cs[j] = IF j = i THEN c ELSE o.containers[j]
    BY <1>1
  <2> HIDE DEF cs
  <2>4. \A j \in 1..2 : IsContainer(cs[j])
    BY <1>1, <2>1, <2>3
  <2> QED BY <2>2, <2>3, <2>4 DEF IsPod
<1>3. CASE m = [o EXCEPT !.deleting = TRUE]
  BY <1>1, <1>3 DEF IsPod
<1>4. ASSUME m = [o EXCEPT !.evicted = TRUE,
                           !.containers = [i \in DOMAIN @ |->
                             IF @[i].state = "running" THEN Dead("SIGKILL", @[i].last, @[i].restarts)
                             ELSE @[i]]]
      PROVE  /\ IsPod(m)
             /\ \A j \in 1..2 : \/ m.containers[j] = o.containers[j]
                                \/ m.containers[j] \in ContainerMoves(o.containers[j])
  <2> DEFINE cs == [i \in 1..2 |->
                      IF o.containers[i].state = "running"
                      THEN Dead("SIGKILL", o.containers[i].last, o.containers[i].restarts)
                      ELSE o.containers[i]]
  <2>1. m = [containers |-> cs, deleting |-> o.deleting, evicted |-> TRUE]
    BY <1>1, <1>4
  <2>2. cs = <<cs[1], cs[2]>>
    OBVIOUS
  <2>3. \A j \in 1..2 : \/ cs[j] = o.containers[j]
                       \/ cs[j] \in ContainerMoves(o.containers[j])
    BY DEF ContainerMoves, Terminations
  <2> HIDE DEF cs
  <2>4. \A j \in 1..2 : IsContainer(cs[j])
    BY <1>1, <2>3, ContainerMoved
  <2> QED BY <2>1, <2>2, <2>3, <2>4 DEF IsPod
<1>5. \/ \E i \in 1..2 : \E c \in ContainerMoves(o.containers[i]) : m = [o EXCEPT !.containers[i] = c]
      \/ m = [o EXCEPT !.deleting = TRUE]
      \/ m = [o EXCEPT !.evicted = TRUE,
                       !.containers = [i \in DOMAIN @ |->
                         IF @[i].state = "running" THEN Dead("SIGKILL", @[i].last, @[i].restarts)
                         ELSE @[i]]]
  BY <1>1 DEF PodMoves
<1> QED BY <1>2, <1>3, <1>4, <1>5

LEMMA NewObjects ==
    ASSUME watching, now \in Nat, NEW o \in New(detector)
    PROVE  AreObjects({o})
<1>1. CASE detector = "pod"
  <2>1. \A d \in {Running("none", 0), Waiting("ErrImagePull", "none", 0)} : IsContainer(d)
    BY DEF Running, Waiting, IsContainer
  <2>2. PICK side \in {Running("none", 0), Waiting("ErrImagePull", "none", 0)} :
           o = [containers |-> <<side, Running("none", 0)>>, deleting |-> FALSE, evicted |-> FALSE]
    BY <1>1 DEF New, NewPods
  <2>3. IsContainer(side) /\ IsContainer(Running("none", 0))
    BY <2>1
  <2> QED BY <1>1, <2>2, <2>3 DEF AreObjects, IsPod
<1>2. CASE detector = "pvc"
  <2>1. o \in [phase : {"Bound", "Pending", "Lost"}, created : {0, now}]
    BY <1>2 DEF New
  <2> QED BY <1>2, <2>1 DEF AreObjects, IsPVC
<1> QED BY <1>1, <1>2 DEF AreObjects

LEMMA MovedObjects ==
    ASSUME watching, now \in Nat, NEW o, AreObjects({o}), NEW m \in Moves(detector, o)
    PROVE  AreObjects({m})
<1>1. CASE detector = "pod"
  BY <1>1, PodMoved DEF AreObjects, Moves
<1>2. CASE detector = "pvc"
  <2>1. PICK p \in {"Bound", "Pending", "Lost"} : m = [o EXCEPT !.phase = p]
    BY <1>2 DEF Moves
  <2>2. o = [phase |-> o.phase, created |-> o.created] /\ o.created \in Nat
    BY <1>2 DEF AreObjects, IsPVC
  <2> QED BY <1>2, <2>1, <2>2 DEF AreObjects, IsPVC
<1> QED BY <1>1, <1>2 DEF AreObjects

(***************************************************************************)
(* The invariant of the watchers.                                          *)
(***************************************************************************)
LEMMA WatchStarts == DetectorsInit /\ watching => WatchInv
<1> SUFFICES ASSUME DetectorsInit, watching PROVE WatchInv
  OBVIOUS
<1>1. WatchInit(detector) /\ standing = [c \in WatchClaims(real, now) |-> now]
  BY Apart DEF DetectorsInit, watching, Build
<1>2. /\ cached = {} /\ resyncedAt = now /\ enriching = {} /\ ~replaced
      /\ real = {} \/ \E o \in New(detector) : real = {o}
  BY <1>1 DEF WatchInit
<1>3. now = 1 /\ changedAt = 1 /\ StoreInv /\ DOMAIN active = {}
  BY DEF DetectorsInit, Init, EmptyMap, IsMap, StoreInv
<1>4. AreObjects(real) /\ AreObjects(cached) /\ \A o, p \in real : o = p
  BY <1>2, <1>3, NewObjects DEF AreObjects
<1>5. WatchType
  BY <1>2, <1>3, <1>4, WatchingConstants DEF WatchType
<1>6. WatchStanding
  BY <1>1, <1>3 DEF WatchStanding
<1>7. WatchEnriching /\ WatchCleared /\ WatchEnded
  BY <1>2, <1>3 DEF WatchEnriching, WatchCleared, WatchEnded
<1> QED BY <1>3, <1>5, <1>6, <1>7 DEF WatchInv

\* The steps of a watcher.
LEMMA WatchCases ==
    ASSUME watching, DetectorsNext
    PROVE  WatchNext \/ (Sweep /\ UNCHANGED watchVars) \/ TimePasses
<1>1. ~tailing /\ ~polling
  BY Apart DEF tailing, polling, watching
<1>2. ~TrailNext
  BY <1>1 DEF TrailNext, EventHappens, StartTrailPoll, lookupEvent, TrailPollReturns, StopTrail
<1>3. ~CloudNext
  BY <1>1 DEF CloudNext, StatusChanges, StartPoll, ListReturns, EvaluatesListed, ReturnFromPoll,
      StopPolling
<1> QED BY <1>2, <1>3 DEF DetectorsNext

LEMMA WatchBounds ==
    ASSUME WatchInv
    PROVE  /\ StoreInv /\ WatchType /\ WatchStanding /\ WatchEnriching /\ WatchCleared /\ WatchEnded
           /\ Resync \in Nat /\ Resync >= 1 /\ EnrichTime \in Nat /\ ResolveTTL \in Nat
           /\ ResolveTTL >= 1 /\ now \in Nat /\ now >= 1 /\ changedAt \in Nat
BY WatchingConstants, StoreBounds DEF WatchInv, WatchType

\* The reasons R were emitted, or handed to the enrichment.
Emits(R) ==
    \/ Asserts(R) /\ enriching' = enriching
    \/ /\ detector = "pod" /\ active' = active
       /\ enriching' = enriching \cup {[reason |-> r, at |-> now] : r \in R}

LEMMA Handles ==
    ASSUME watching, StoreInv, NEW old, NEW obj, NEW b, Handle(old, obj, b), NEW R,
           R = IF allowed THEN evaluate(detector, old, obj, b, now) ELSE {}
    PROVE  R \subseteq FP /\ StoreInv' /\ now' = now /\ Emits(R)
<1>1. R \subseteq FP
  BY EvaluateFP DEF watching
<1>2. \/ EmitAll(R) /\ enriching' = enriching
      \/ /\ detector = "pod" /\ UNCHANGED storeVars
         /\ enriching' = enriching \cup {[reason |-> r, at |-> now] : r \in R}
  BY DEF Handle, emitContainerAlert
<1>3. CASE EmitAll(R) /\ enriching' = enriching
  BY <1>1, <1>3, EmitsAll DEF Emits
<1>4. CASE /\ detector = "pod" /\ UNCHANGED storeVars
           /\ enriching' = enriching \cup {[reason |-> r, at |-> now] : r \in R}
  BY <1>1, <1>4 DEF Emits, storeVars, StoreInv
<1> QED BY <1>1, <1>2, <1>3, <1>4

LEMMA WatchAfter ==
    ASSUME detector' = detector
    PROVE  /\ AreObjects(real)' <=> AreObjects(real')
           /\ AreObjects(cached)' <=> AreObjects(cached')
BY DEF AreObjects

\* What the emission of reasons that stand, or did until now, leaves true.
LEMMA EmitsKeep ==
    ASSUME watching, WatchInv, NEW R, R \subseteq FP, Emits(R), ~allowed => R = {},
           R \subseteq UNION DOMAIN standing \/ changedAt = now,
           UNCHANGED <<now, detector, allowed, changedAt, standing>>
    PROVE  WatchEnriching' /\ WatchEnded'
<1>1. CASE Asserts(R) /\ enriching' = enriching
  <2>1. WatchEnriching'
    BY <1>1, WatchBounds DEF WatchEnriching, Asserts
  <2>2. ASSUME NEW f \in DOMAIN active', f \notin UNION DOMAIN standing
        PROVE  active'[f].endsAt <= changedAt + EnrichTime + ResolveTTL
    <3>1. CASE f \in R
      <4>1. changedAt = now /\ active'[f].endsAt = now + ResolveTTL
        BY <1>1, <2>2, <3>1 DEF Asserts
      <4> QED BY <4>1, WatchBounds
    <3>2. CASE f \notin R
      BY <1>1, <2>2, <3>2, WatchBounds DEF Asserts, WatchEnded
    <3> QED BY <3>1, <3>2
  <2> QED BY <2>1, <2>2 DEF WatchEnded
<1>2. CASE /\ detector = "pod" /\ active' = active
           /\ enriching' = enriching \cup {[reason |-> r, at |-> now] : r \in R}
  <2>1. WatchEnded'
    BY <1>2, WatchBounds DEF WatchEnded
  <2>2. ASSUME NEW e \in enriching'
        PROVE  /\ e.reason \in FP /\ e.at \in Nat /\ e.at <= now /\ now <= e.at + EnrichTime
               /\ e.reason \in UNION DOMAIN standing \/ e.at <= changedAt
    <3>1. CASE e \in enriching
      BY <3>1, WatchBounds DEF WatchEnriching
    <3>2. CASE e \notin enriching
      <4>1. e.reason \in R /\ e.at = now
        BY <1>2, <3>2
      <4> QED BY <4>1, WatchBounds
    <3> QED BY <3>1, <3>2
  <2>3. ~allowed => DOMAIN active = {} /\ enriching' = {}
    BY <1>2, WatchBounds DEF WatchEnriching
  <2> QED BY <1>2, <2>1, <2>2, <2>3 DEF WatchEnriching
<1> QED BY <1>1, <1>2 DEF Emits

\* Handed an object that has not changed, a watcher emits what stands about it.
LEMMA StandingEmitted ==
    ASSUME watching, WatchInv, NEW o \in real, NEW old, NEW b \in BOOLEAN, allowed,
           old = {o} \/ changedAt = now
    PROVE  \/ evaluate(detector, old, o, b, now) \subseteq UNION DOMAIN standing
           \/ changedAt = now
<1>1. CASE changedAt = now
  BY <1>1
<1>2. CASE old = {o}
  <2>1. detector = "pod" => IsPod(o)
    BY WatchBounds DEF WatchType, AreObjects
  <2>2. evaluate(detector, {o}, o, b, now) \subseteq UNION ClaimsOf(o, now)
    BY <2>1, EvaluateSame
  <2>3. ClaimsOf(o, now) \subseteq DOMAIN standing
    BY WatchBounds, WatchClaimsAre DEF WatchStanding
  <2> QED BY <1>2, <2>2, <2>3
<1> QED BY <1>1, <1>2

\* A delivery: the object was handled, or was not of interest.
LEMMA DeliveryInv ==
    ASSUME watching, WatchInv, NEW o \in real, NEW old,
           Handle(old, o, FALSE) \/ UNCHANGED <<storeVars, enriching>>,
           old = {o} \/ changedAt = now, Delivered
    PROVE  WatchInv'
<1>1. /\ UNCHANGED <<detector, real, standing, changedAt, allowed, resyncedAt>>
      /\ cached' = real /\ ~replaced'
  BY DEF Delivered, subject
<1>2. PICK R : R = IF allowed THEN evaluate(detector, old, o, FALSE, now) ELSE {}
  OBVIOUS
<1>3. /\ StoreInv' /\ now' = now
      /\ \E S \in SUBSET FP : Emits(S) /\ (S = R \/ S = {})
  <2>1. CASE Handle(old, o, FALSE)
    BY <1>2, <2>1, Handles, WatchBounds
  <2>2. CASE UNCHANGED <<storeVars, enriching>>
    <3>1. StoreInv' /\ now' = now
      BY <2>2, WatchBounds DEF storeVars, StoreInv
    <3>2. Emits({})
      BY <2>2 DEF storeVars, Emits, Asserts
    <3> QED BY <3>1, <3>2
  <2> QED BY <2>1, <2>2
<1>4. PICK S \in SUBSET FP : Emits(S) /\ (S = R \/ S = {})
  BY <1>3
<1>5. S \subseteq UNION DOMAIN standing \/ changedAt = now
  <2>1. CASE allowed /\ S = R
    BY <1>2, <2>1, StandingEmitted
  <2>2. CASE S = {}
    BY <2>2
  <2> QED BY <1>2, <1>4, <2>1, <2>2
<1>6. ~allowed => S = {}
  BY <1>2, <1>4
<1>7. WatchEnriching' /\ WatchEnded'
  BY <1>1, <1>3, <1>4, <1>5, <1>6, EmitsKeep
<1>8. WatchType'
  <2>1. AreObjects(real)' /\ AreObjects(cached)'
    BY <1>1, WatchAfter, WatchBounds DEF WatchType, AreObjects
  <2> QED BY <1>1, <1>3, <2>1, WatchBounds DEF WatchType
<1>9. WatchStanding' /\ WatchCleared'
  BY <1>1, <1>3, WatchBounds, WatchClaimsAfter DEF WatchStanding, WatchCleared
<1> QED BY <1>3, <1>7, <1>8, <1>9 DEF WatchInv

LEMMA AddInv == ASSUME watching, WatchInv, Add PROVE WatchInv'
<1>1. PICK o \in real : Handle({}, o, FALSE) \/ UNCHANGED <<storeVars, enriching>>
  BY DEF Add
<1>2. changedAt = now
  BY <1>1, WatchBounds DEF WatchType, Add
<1>3. PICK old : old = {}
  OBVIOUS
<1>4. Handle(old, o, FALSE) \/ UNCHANGED <<storeVars, enriching>>
  BY <1>1, <1>3
<1> QED BY <1>2, <1>4, DeliveryInv DEF Add

LEMMA UpdateInv == ASSUME watching, WatchInv, Update PROVE WatchInv'
<1>1. PICK o \in real : Handle(cached, o, FALSE)
  BY DEF Update
<1>2. cached = {o} \/ changedAt = now
  BY WatchBounds DEF WatchType
<1> QED BY <1>1, <1>2, DeliveryInv DEF Update

\* The informer's copy is the object, or was until now.
LEMMA ResyncObjectInv == ASSUME watching, WatchInv, ResyncObject PROVE WatchInv'
<1>1. /\ UNCHANGED <<subject, allowed, cached, replaced>> /\ resyncedAt' = now
  BY DEF ResyncObject
<1>2. UNCHANGED <<detector, real, standing, changedAt>>
  BY <1>1 DEF subject
<1>3. ASSUME now' = now PROVE WatchType' /\ WatchStanding'
  <2>1. AreObjects(real)' /\ AreObjects(cached)'
    BY <1>1, <1>2, WatchAfter, WatchBounds DEF WatchType
  <2> QED BY <1>1, <1>2, <1>3, <2>1, WatchBounds, WatchClaimsAfter DEF WatchType, WatchStanding
<1>4. CASE UNCHANGED <<storeVars, enriching>>
  <2>1. UNCHANGED <<active, lastSent, now, enriching>>
    BY <1>4 DEF storeVars
  <2> QED BY <1>1, <1>2, <1>3, <2>1, WatchBounds
          DEF WatchInv, StoreInv, WatchEnriching, WatchCleared, WatchEnded
<1>5. ASSUME NEW o \in cached, Handle({o}, o, TRUE) PROVE WatchInv'
  <2>1. PICK old : old = {o}
    OBVIOUS
  <2>2. PICK R : R = IF allowed THEN evaluate(detector, old, o, TRUE, now) ELSE {}
    OBVIOUS
  <2>3. R \subseteq FP /\ StoreInv' /\ now' = now /\ Emits(R)
    BY <1>5, <2>1, <2>2, Handles, WatchBounds
  <2>4. o \in real \/ changedAt = now
    BY WatchBounds DEF WatchType
  <2>5. R \subseteq UNION DOMAIN standing \/ changedAt = now
    BY <2>1, <2>2, <2>4, StandingEmitted
  <2>6. WatchEnriching' /\ WatchEnded'
    BY <1>1, <1>2, <2>2, <2>3, <2>5, EmitsKeep
  <2>7. WatchCleared'
    BY <1>1 DEF WatchCleared
  <2> QED BY <1>3, <2>3, <2>6, <2>7 DEF WatchInv
<1> QED BY <1>4, <1>5 DEF ResyncObject

LEMMA DeleteInv == ASSUME watching, WatchInv, Delete PROVE WatchInv' /\ DOMAIN active' = {}
<1>1. /\ UNCHANGED <<subject, allowed, resyncedAt, enriching>> /\ cached' = {} /\ ~replaced'
      /\ real = {} \/ replaced
  BY DEF Delete
<1>2. UNCHANGED <<detector, real, standing, changedAt>>
  BY <1>1 DEF subject
<1>3. StoreInv' /\ now' = now /\ DOMAIN active' = {}
  <2>1. CASE allowed
    BY <2>1, Clears, WatchBounds DEF Delete, handleDelete
  <2>2. CASE ~allowed
    <3>1. UNCHANGED storeVars
      BY <2>2 DEF Delete, handleDelete
    <3> QED BY <2>2, <3>1, WatchBounds DEF storeVars, StoreInv, WatchEnriching
  <2> QED BY <2>1, <2>2
<1>4. WatchType'
  <2>1. AreObjects(real)' /\ AreObjects(cached)'
    BY <1>1, <1>2, WatchAfter, WatchBounds DEF WatchType, AreObjects
  <2> QED BY <1>1, <1>2, <1>3, <2>1, WatchBounds DEF WatchType
<1>5. WatchStanding' /\ WatchEnriching' /\ WatchCleared' /\ WatchEnded'
  BY <1>1, <1>2, <1>3, WatchBounds, WatchClaimsAfter
     DEF WatchStanding, WatchEnriching, WatchCleared, WatchEnded
<1> QED BY <1>3, <1>4, <1>5 DEF WatchInv

LEMMA EnrichedInv == ASSUME watching, WatchInv, Enriched PROVE WatchInv'
<1>1. UNCHANGED <<subject, allowed, cached, resyncedAt, replaced>>
  BY DEF Enriched
<1>2. UNCHANGED <<detector, real, standing, changedAt>>
  BY <1>1 DEF subject
<1>3. PICK e \in enriching : EmitAll({e.reason}) /\ enriching' = enriching \ {e}
  BY DEF Enriched
<1>4. /\ e.reason \in FP /\ e.at \in Nat /\ now <= e.at + EnrichTime
      /\ e.reason \in UNION DOMAIN standing \/ e.at <= changedAt
      /\ allowed /\ detector = "pod"
  BY <1>3, WatchBounds DEF WatchEnriching
<1>5. StoreInv' /\ Asserts({e.reason}) /\ now' = now
  <2> DEFINE R == {e.reason}
  <2>1. R \in SUBSET FP
    BY <1>4
  <2> HIDE DEF R
  <2>2. StoreInv' /\ Asserts(R) /\ now' = now
    BY <1>3, <2>1, EmitsAll, WatchBounds DEF R
  <2> QED BY <2>2 DEF R
<1>6. WatchType'
  <2>1. AreObjects(real)' /\ AreObjects(cached)'
    BY <1>1, <1>2, WatchAfter, WatchBounds DEF WatchType
  <2> QED BY <1>1, <1>2, <1>5, <2>1, WatchBounds DEF WatchType
<1>7. WatchStanding' /\ WatchEnriching' /\ WatchCleared'
  BY <1>1, <1>2, <1>3, <1>4, <1>5, WatchBounds, WatchClaimsAfter
     DEF WatchStanding, WatchEnriching, WatchCleared
<1>8. WatchEnded'
  <2> SUFFICES ASSUME NEW f \in DOMAIN active', f \notin UNION DOMAIN standing
               PROVE  active'[f].endsAt <= changedAt + EnrichTime + ResolveTTL
    BY <1>2 DEF WatchEnded
  <2>1. CASE f = e.reason
    <3>1. active'[f].endsAt = now + ResolveTTL /\ e.at <= changedAt
      BY <1>4, <1>5, <2>1 DEF Asserts
    <3> QED BY <1>4, <3>1, WatchBounds
  <2>2. CASE f # e.reason
    BY <1>5, <2>2, WatchBounds DEF Asserts, WatchEnded
  <2> QED BY <2>1, <2>2
<1> QED BY <1>5, <1>6, <1>7, <1>8 DEF WatchInv

LEMMA ObjectChangesInv == ASSUME watching, WatchInv, ObjectChanges PROVE WatchInv'
<1>1. /\ UNCHANGED <<detector, allowed, cached, resyncedAt, enriching>> /\ UNCHANGED storeVars
      /\ changedAt' = now /\ standing' = Hold(WatchClaims(real', now), now)
  BY DEF ObjectChanges
<1>2. UNCHANGED <<active, lastSent, now>>
  BY <1>1 DEF storeVars
<1>3. AreObjects(real') /\ \A o, p \in real' : o = p
  <2>1. CASE \E o \in New(detector) : real' = {o}
    BY <2>1, WatchBounds, NewObjects DEF AreObjects
  <2>2. ASSUME NEW o \in real, NEW m \in Moves(detector, o), real' = {m} 
        PROVE  AreObjects(real') /\ \A x, y \in real' : x = y
    <3>1. AreObjects({o})
      BY WatchBounds DEF WatchType, AreObjects
    <3>2. AreObjects({m})
      BY <3>1, WatchBounds, MovedObjects
    <3> QED BY <2>2, <3>2
  <2>3. CASE real' = {}
    BY <2>3 DEF AreObjects
  <2> QED BY <2>1, <2>2, <2>3 DEF ObjectChanges
<1>4. WatchType'
  <2>1. AreObjects(real)' /\ AreObjects(cached)'
    BY <1>1, <1>3, WatchAfter, WatchBounds DEF WatchType
  <2> QED BY <1>1, <1>2, <1>3, <2>1, WatchBounds DEF WatchType
<1>5. WatchStanding'
  <2>1. DOMAIN standing' = WatchClaims(real, now)'
    BY <1>1, <1>2, WatchClaimsAfter DEF Hold
  <2>2. \A c \in DOMAIN standing' : standing'[c] \in Nat /\ 1 <= standing'[c] /\ standing'[c] <= now
    BY <1>1, WatchBounds DEF Hold, WatchStanding
  <2> QED BY <1>2, <2>1, <2>2 DEF WatchStanding
<1>6. WatchEnriching' /\ WatchCleared'
  BY <1>1, <1>2, WatchBounds DEF WatchEnriching, WatchCleared
<1>7. WatchEnded' /\ StoreInv'
  BY <1>1, <1>2, WatchBounds, StoreBounds DEF WatchEnded, StoreInv
<1> QED BY <1>4, <1>5, <1>6, <1>7 DEF WatchInv

LEMMA WatchSweepInv ==
    ASSUME watching, WatchInv, StoreInv', Sweeps,
           UNCHANGED <<now, detector, real, standing, changedAt>>,
           UNCHANGED <<allowed, cached, resyncedAt, enriching, replaced>>
    PROVE  WatchInv'
<1>1. WatchType'
  <2>1. AreObjects(real)' /\ AreObjects(cached)'
    BY WatchAfter, WatchBounds DEF WatchType
  <2> QED BY <2>1, WatchBounds DEF WatchType
<1>2. WatchStanding'
  BY WatchBounds, WatchClaimsAfter DEF WatchStanding
<1>3. WatchEnriching' /\ WatchCleared' /\ WatchEnded'
  BY WatchBounds DEF WatchEnriching, WatchCleared, WatchEnded, Sweeps
<1> QED BY <1>1, <1>2, <1>3 DEF WatchInv

\* Time passes when everything that changed was delivered; it adds claims.
LEMMA WatchTime ==
    ASSUME watching, WatchInv, TimePasses
    PROVE  /\ UNCHANGED <<active, lastSent, detector, real, changedAt, allowed, cached, resyncedAt>>
           /\ UNCHANGED <<enriching, replaced, oomKilled, oomDue>>
           /\ now' = now + 1 /\ cached = real /\ ~replaced /\ now < resyncedAt + Resync
           /\ \A e \in enriching : now < e.at + EnrichTime
           /\ WatchClaims(real, now) \subseteq WatchClaims(real, now + 1)
           /\ standing' = Hold(WatchClaims(real, now + 1), now + 1)
           /\ DOMAIN standing' = WatchClaims(real, now + 1)
           /\ \A c \in DOMAIN standing : c \in DOMAIN standing' /\ standing'[c] = standing[c]
           /\ \A c \in DOMAIN standing' \ DOMAIN standing : standing'[c] = now + 1
<1>1. /\ UNCHANGED <<active, lastSent, detector, real, changedAt, allowed, cached, resyncedAt>>
      /\ UNCHANGED <<enriching, replaced, oomKilled, oomDue>> /\ now' = now + 1
      /\ standing' = Hold(WatchClaims(real, now + 1), now + 1)
  BY DEF TimePasses, Tick, watchVars
<1>2. cached = real /\ ~replaced /\ ~ResyncDue /\ \A e \in enriching : now < e.at + EnrichTime
  BY DEF TimePasses, WatchMayWait
<1>3. now < resyncedAt + Resync
  BY <1>2, WatchBounds DEF ResyncDue, WatchType
<1>4. WatchClaims(real, now) \subseteq WatchClaims(real, now + 1)
  BY WatchBounds, WatchClaimsAre, ClaimsGrow DEF WatchType, AreObjects
<1>5. DOMAIN standing \subseteq DOMAIN standing' /\ DOMAIN standing' = WatchClaims(real, now + 1)
  BY <1>1, <1>4, WatchBounds DEF WatchStanding, Hold
<1>6. /\ \A c \in DOMAIN standing : c \in DOMAIN standing' /\ standing'[c] = standing[c]
      /\ \A c \in DOMAIN standing' \ DOMAIN standing : standing'[c] = now + 1
  BY <1>1, <1>5 DEF Hold
<1> QED BY <1>1, <1>2, <1>3, <1>4, <1>5, <1>6

LEMMA WatchTimeInv == ASSUME watching, WatchInv, TimePasses PROVE WatchInv'
<1>1. WatchType'
  <2>1. AreObjects(real)' /\ AreObjects(cached)'
    BY WatchTime, WatchAfter, WatchBounds DEF WatchType
  <2> QED BY <2>1, WatchTime, WatchBounds DEF WatchType
<1>2. WatchStanding'
  <2>1. DOMAIN standing' = WatchClaims(real, now)'
    BY WatchTime, WatchClaimsAfter
  <2>2. \A c \in DOMAIN standing' : standing'[c] \in Nat /\ 1 <= standing'[c] /\ standing'[c] <= now'
    BY WatchTime, WatchBounds DEF WatchStanding
  <2> QED BY <2>1, <2>2 DEF WatchStanding
<1>3. UNION DOMAIN standing \subseteq UNION DOMAIN standing'
  BY WatchTime
<1>4. WatchEnriching' /\ WatchCleared' /\ WatchEnded'
  BY <1>3, WatchTime, WatchBounds DEF WatchEnriching, WatchCleared, WatchEnded
<1>5. StoreInv'
  BY WatchTime, WatchBounds, StoreBounds DEF StoreInv
<1> QED BY <1>1, <1>2, <1>4, <1>5 DEF WatchInv

LEMMA WatchSteps ==
    ASSUME watching, WatchInv, [DetectorsNext]_detectorVars
    PROVE  WatchInv'
<1>1. CASE DetectorsNext
  <2>1. CASE Sweep /\ UNCHANGED watchVars
    BY <2>1, WatchSweepInv, SweepSweeps, WatchBounds DEF watchVars
  <2>2. CASE WatchNext
    BY <2>2, ObjectChangesInv, AddInv, UpdateInv, ResyncObjectInv, DeleteInv, EnrichedInv
       DEF WatchNext
  <2> QED BY <1>1, <2>1, <2>2, WatchCases, WatchTimeInv
<1>2. CASE UNCHANGED detectorVars
  <2>1. /\ UNCHANGED <<active, lastSent, now, detector, real, changedAt, standing>>
        /\ UNCHANGED <<allowed, cached, resyncedAt, enriching, replaced>>
    BY <1>2 DEF detectorVars, storeVars, subject, watchVars
  <2>2. StoreInv' /\ Sweeps
    BY <2>1, WatchBounds DEF StoreInv, Sweeps
  <2> QED BY <2>1, <2>2, WatchSweepInv
<1> QED BY <1>1, <1>2

(***************************************************************************)
(* OOM kills.                                                              *)
(***************************************************************************)
\* What shows an OOM kill makes a watcher emit a critical reason.
LEMMA OOMIsEmitted ==
    ASSUME NEW old, NEW pod, IsPod(pod), NEW k \in old, NEW i \in 1..2,
           k.containers[i].restarts \in Nat, ShowsOOM(k.containers[i], pod.containers[i])
    PROVE  \E r \in Critical : r \in evaluatePod(old, pod)
<1> DEFINE c == pod.containers[i]
           F == found(old, pod)
<1>1. "OOMKilled" \in Critical /\ "CrashLoopBackOff" \in Critical
  BY DEF Critical
<1>2. "OOMKilled" \in killReason(pod, "OOMKilled")
  BY DEF killReason, If
<1>3. \E r \in Critical :
         \/ r \in waitingReason(c)
         \/ r \in standingKill(pod, c)
         \/ r \in restartOf(pod, k.containers[i].restarts, c)
  <2>1. CASE c.state = "terminated" /\ c.why = "OOMKilled"
    <3>1. termOf(c) = "OOMKilled"
      BY <2>1 DEF termOf
    <3>2. "OOMKilled" \in standingKill(pod, c)
      BY <1>2, <3>1 DEF standingKill, If
    <3> QED BY <1>1, <3>2
  <2>2. CASE c.state = "waiting" /\ c.why = "CrashLoopBackOff"
    <3>1. "CrashLoopBackOff" \in waitingReason(c)
      BY <2>2 DEF waitingReason, If, ImageReasons
    <3> QED BY <1>1, <3>1
  <2>3. CASE c.last = "OOMKilled" /\ c.restarts > k.containers[i].restarts
    <3>1. c.restarts \in Nat
      BY DEF IsPod, IsContainer
    <3>2. ~(c.restarts <= k.containers[i].restarts)
      BY <2>3, <3>1
    <3>3. restartOf(pod, k.containers[i].restarts, c) = killReason(pod, "OOMKilled")
      BY <1>2, <2>3, <3>2 DEF restartOf
    <3> QED BY <1>1, <1>2, <3>3
  <2> QED BY <2>1, <2>2, <2>3 DEF ShowsOOM
<1>4. \A f \in F : f[1] \in Nat
  BY FoundCases
<1>5. \E f \in F : f[2] \in Critical
  <2>1. PICK r \in Critical : \/ r \in waitingReason(c)
                              \/ r \in standingKill(pod, c)
                              \/ r \in restartOf(pod, k.containers[i].restarts, c)
    BY <1>3
  <2>2. (\E f \in F : f[2] = r) <=>
           \E j \in 1..2 :
               \/ r \in waitingReason(pod.containers[j])
               \/ r \in standingKill(pod, pod.containers[j])
               \/ \E o \in old : r \in restartOf(pod, o.containers[j].restarts, pod.containers[j])
    BY FoundCases
  <2> HIDE DEF F
  <2> QED BY <2>1, <2>2
<1> HIDE DEF F
<1>6. PICK f \in F : f[2] \in Critical
  BY <1>5
<1>7. PICK g \in F : g[2] \in worstOf(F) /\ severityRank(f[2]) <= severityRank(g[2])
  BY <1>4, <1>6, WorstIsFound
<1>8. g[2] \in Critical
  BY <1>6, <1>7 DEF severityRank
<1> QED BY <1>7, <1>8 DEF evaluatePod, F

LEMMA OOMStarts == DetectorsInit /\ watching => OOMInv
<1> SUFFICES ASSUME DetectorsInit, watching PROVE OOMInv
  OBVIOUS
<1>1. WatchInit(detector)
  BY Apart DEF DetectorsInit, watching, Build
<1> QED BY <1>1 DEF WatchInit, OOMInv, OOMShown

\* A report is not taken back before its deadline.
LEMMA ToldKept ==
    ASSUME watching, WatchInv, NEW R, Emits(R), UNCHANGED <<now, changedAt>>, Told
    PROVE  Told'
<1>1. /\ now \in Nat /\ changedAt \in Nat /\ changedAt <= now /\ ResolveTTL \in Nat
      /\ \A f \in DOMAIN active : active[f].endsAt \in Nat
  BY WatchBounds, StoreBounds DEF WatchType
<1>2. \A e \in enriching : e \in enriching'
  BY DEF Emits
<1>3. \A f \in DOMAIN active :
         /\ f \in DOMAIN active'
         /\ changedAt + ResolveTTL <= active[f].endsAt => changedAt + ResolveTTL <= active'[f].endsAt
  BY <1>1 DEF Emits, Asserts
<1> QED BY <1>2, <1>3 DEF Told

LEMMA EmitsTell ==
    ASSUME watching, WatchInv, NEW R, Emits(R), UNCHANGED <<now, changedAt>>, NEW r \in R, r \in Critical
    PROVE  Told'
<1>1. CASE Asserts(R)
  <2>1. r \in DOMAIN active' /\ active'[r].endsAt = now + ResolveTTL
    BY <1>1 DEF Asserts
  <2>2. changedAt + ResolveTTL <= now + ResolveTTL
    BY WatchBounds DEF WatchType
  <2> QED BY <2>1, <2>2 DEF Told
<1>2. CASE enriching' = enriching \cup {[reason |-> x, at |-> now] : x \in R}
  <2>1. [reason |-> r, at |-> now] \in enriching' /\ [reason |-> r, at |-> now].reason \in Critical
    BY <1>2
  <2> QED BY <2>1 DEF Told
<1> QED BY <1>1, <1>2 DEF Emits

LEMMA ObjectChangesOOM == ASSUME watching, WatchInv, OOMInv, ObjectChanges PROVE OOMInv'
<1>1. /\ UNCHANGED <<detector, allowed, cached>> /\ ~oomDue'
  BY DEF ObjectChanges
<1>2. OOMShown
  BY DEF OOMInv
<1>3. CASE real = {} /\ (\E o \in New(detector) : real' = {o}) /\ UNCHANGED <<oomKilled, replaced>>
  BY <1>1, <1>2, <1>3 DEF OOMInv, OOMShown
<1>4. CASE real' = {} /\ oomKilled' = {} /\ replaced' = (cached # {})
  BY <1>1, <1>4 DEF OOMInv, OOMShown
<1>5. ASSUME NEW o \in real, NEW m \in Moves(detector, o), real' = {m}, UNCHANGED replaced,
             oomKilled' = IF detector = "pod" THEN oomAfter(o, m) ELSE {}
      PROVE  OOMInv'
  <2>1. CASE detector # "pod"
    BY <1>1, <1>2, <1>5, <2>1 DEF OOMInv, OOMShown
  <2>2. CASE detector = "pod"
    <3>1. IsPod(o) /\ m \in PodMoves(o)
      BY <2>2, WatchBounds DEF WatchType, AreObjects, Moves
    <3>2. /\ IsPod(m)
          /\ \A i \in 1..2 : \/ m.containers[i] = o.containers[i]
                             \/ m.containers[i] \in ContainerMoves(o.containers[i])
      BY <3>1, PodMoved
    <3>3. DOMAIN m.containers = 1..2
      BY <3>2 DEF IsPod
    <3>4. /\ oomKilled' \subseteq 1..2
          /\ oomKilled' # {} => cached # {} /\ ~replaced
      BY <1>2, <1>5, <2>2, <3>3 DEF OOMShown, oomAfter, Died
    <3>5. ASSUME NEW k \in cached, NEW i \in 1..2, ~replaced
          PROVE  /\ k.containers[i].restarts <= m.containers[i].restarts
                 /\ i \in oomKilled' => ShowsOOM(k.containers[i], m.containers[i])
      <4> DEFINE a == k.containers[i]
                 c == o.containers[i]
                 d == m.containers[i]
      <4>1. /\ a.restarts <= c.restarts /\ (i \in oomKilled => ShowsOOM(a, c))
        BY <1>2, <2>2, <3>5 DEF OOMShown
      <4>2. IsContainer(c) /\ IsContainer(a) /\ (d = c \/ d \in ContainerMoves(c))
        <5>1. IsPod(k)
          BY <2>2, WatchBounds DEF WatchType, AreObjects
        <5> QED BY <3>1, <3>2, <5>1 DEF IsPod
      <4>3. \/ i \in oomKilled /\ ~(d.state = "terminated" /\ c.state # "terminated")
            \/ d.state = "terminated" /\ d.why = "OOMKilled"
            \/ i \notin oomKilled'
        BY <1>5, <2>2, <3>3 DEF oomAfter, Died
      <4> HIDE DEF a, c, d
      <4>4. CASE d = c
        BY <4>1, <4>3, <4>4 DEF ShowsOOM, a, c, d
      <4>5. CASE d \in ContainerMoves(c)
        <5>1. /\ c.restarts <= d.restarts /\ IsContainer(d)
              /\ d.state = "terminated" => c.state = "running"
              /\ /\ a.restarts \in Nat /\ a.restarts <= c.restarts
                 /\ ShowsOOM(a, c) /\ d.state # "terminated"
                => ShowsOOM(a, d)
          BY <4>2, <4>5, ContainerMoved
        <5>2. a.restarts \in Nat /\ c.restarts \in Nat /\ d.restarts \in Nat
          BY <4>2, <5>1 DEF IsContainer
        <5>3. a.restarts <= d.restarts
          BY <4>1, <5>1, <5>2
        <5>4. i \in oomKilled' => ShowsOOM(a, d)
          <6>1. CASE d.state = "terminated" /\ d.why = "OOMKilled"
            BY <6>1 DEF ShowsOOM
          <6>2. CASE i \in oomKilled /\ ~(d.state = "terminated" /\ c.state # "terminated")
            <7>1. d.state # "terminated"
              BY <5>1, <6>2
            <7> QED BY <4>1, <5>1, <5>2, <6>2, <7>1
          <6> QED BY <4>3, <6>1, <6>2
        <5> QED BY <5>3, <5>4 DEF a, d
      <4> QED BY <4>2, <4>4, <4>5
    <3> QED BY <1>1, <1>5, <2>2, <3>4, <3>5 DEF OOMInv, OOMShown
  <2> QED BY <2>1, <2>2
<1> QED BY <1>3, <1>4, <1>5 DEF ObjectChanges

LEMMA RestartsAre ==
    ASSUME NEW pod, IsPod(pod), NEW i \in 1..2
    PROVE  pod.containers[i].restarts \in Nat
<1>1. IsContainer(pod.containers[i])
  BY DEF IsPod
<1> QED BY <1>1 DEF IsContainer

\* A delivery hands over what is shown.
LEMMA DeliveredShown ==
    ASSUME watching, WatchInv, OOMInv, Delivered, NEW o \in real
    PROVE  OOMShown' /\ UNCHANGED <<detector, changedAt, allowed>>
<1>1. /\ UNCHANGED <<detector, real, changedAt, allowed>> /\ cached' = real /\ ~replaced' /\ oomKilled' = {}
  BY DEF Delivered, subject
<1>2. detector = "pod" => \A x \in real : \A i \in 1..2 : x.containers[i].restarts \in Nat
  BY RestartsAre, WatchBounds DEF WatchType, AreObjects
<1>3. \A x, y \in real : x = y
  BY WatchBounds DEF WatchType
<1>4. detector = "pod" => \A k, x \in real : \A i \in 1..2 :
                             k.containers[i].restarts <= x.containers[i].restarts
  BY <1>2, <1>3
<1> QED BY <1>1, <1>4 DEF OOMShown

LEMMA AddOOM == ASSUME watching, WatchInv, OOMInv, Add PROVE OOMInv'
<1>1. PICK o \in real : Handle({}, o, FALSE) \/ UNCHANGED <<storeVars, enriching>>
  BY DEF Add
<1>2. OOMShown' /\ UNCHANGED <<detector, changedAt, allowed>>
  BY <1>1, DeliveredShown DEF Add
<1>3. oomDue' => oomDue
  BY DEF Add, Delivered, OOMInv, OOMShown
<1>4. ASSUME oomDue, allowed PROVE Told'
  <2>1. Told
    BY <1>4 DEF OOMInv
  <2>2. CASE Handle({}, o, FALSE)
    <3>1. PICK old : old = {}
      OBVIOUS
    <3>2. PICK R : R = IF allowed THEN evaluate(detector, old, o, FALSE, now) ELSE {}
      OBVIOUS
    <3>3. now' = now /\ Emits(R)
      BY <2>2, <3>1, <3>2, Handles, WatchBounds
    <3> QED BY <1>2, <2>1, <3>3, ToldKept
  <2>3. CASE UNCHANGED <<storeVars, enriching>>
    BY <1>2, <2>1, <2>3 DEF Told, storeVars
  <2> QED BY <1>1, <2>2, <2>3
<1> QED BY <1>2, <1>3, <1>4 DEF OOMInv

LEMMA UpdateOOM == ASSUME watching, WatchInv, OOMInv, Update PROVE OOMInv'
<1>1. PICK o \in real : Handle(cached, o, FALSE)
  BY DEF Update
<1>2. OOMShown' /\ UNCHANGED <<detector, changedAt, allowed>>
  BY DeliveredShown DEF Update
<1>3. PICK R : R = IF allowed THEN evaluate(detector, cached, o, FALSE, now) ELSE {}
  OBVIOUS
<1>4. now' = now /\ Emits(R)
  BY <1>1, <1>3, Handles, WatchBounds
<1>5. ASSUME oomDue, allowed PROVE Told'
  BY <1>2, <1>4, <1>5, ToldKept DEF OOMInv
<1>6. ASSUME oomKilled # {}, allowed PROVE Told'
  <2>1. PICK i \in 1..2 : i \in oomKilled
    BY <1>6 DEF OOMInv, OOMShown
  <2>2. PICK k \in cached : TRUE
    BY DEF Update
  <2>3. detector = "pod" /\ ShowsOOM(k.containers[i], o.containers[i])
    BY <1>6, <2>1, <2>2 DEF OOMInv, OOMShown
  <2>4. IsPod(o) /\ k.containers[i].restarts \in Nat
    BY <2>3, RestartsAre, WatchBounds DEF WatchType, AreObjects
  <2>5. PICK r \in Critical : r \in evaluatePod(cached, o)
    BY <2>3, <2>4, OOMIsEmitted
  <2>6. r \in R
    BY <1>3, <1>6, <2>3, <2>5 DEF evaluate
  <2> QED BY <1>2, <1>4, <2>6, EmitsTell
<1>7. oomDue' => oomDue \/ oomKilled # {}
  BY DEF Update, Delivered
<1> QED BY <1>2, <1>5, <1>6, <1>7 DEF OOMInv

LEMMA ResyncObjectOOM == ASSUME watching, WatchInv, OOMInv, ResyncObject PROVE OOMInv'
<1>1. UNCHANGED <<detector, real, changedAt, allowed, cached, replaced, oomKilled, oomDue>>
  BY DEF ResyncObject, subject
<1>2. OOMShown'
  BY <1>1 DEF OOMInv, OOMShown
<1>3. ASSUME Told PROVE Told'
  <2>1. CASE UNCHANGED <<storeVars, enriching>>
    BY <1>1, <1>3, <2>1 DEF Told, storeVars
  <2>2. ASSUME NEW o \in cached, Handle({o}, o, TRUE) PROVE Told'
    <3>1. PICK old : old = {o}
      OBVIOUS
    <3>2. PICK R : R = IF allowed THEN evaluate(detector, old, o, TRUE, now) ELSE {}
      OBVIOUS
    <3>3. now' = now /\ Emits(R)
      BY <2>2, <3>1, <3>2, Handles, WatchBounds
    <3> QED BY <1>1, <1>3, <3>3, ToldKept
  <2> QED BY <2>1, <2>2 DEF ResyncObject
<1> QED BY <1>1, <1>2, <1>3 DEF OOMInv

LEMMA DeleteOOM == ASSUME OOMInv, Delete PROVE OOMInv'
BY DEF Delete, OOMInv, OOMShown, subject

LEMMA EnrichedOOM == ASSUME watching, WatchInv, OOMInv, Enriched PROVE OOMInv'
<1>1. UNCHANGED <<detector, real, changedAt, allowed, cached, replaced, oomKilled, oomDue>>
  BY DEF Enriched, subject
<1>2. OOMShown'
  BY <1>1 DEF OOMInv, OOMShown
<1>3. PICK e \in enriching : EmitAll({e.reason}) /\ enriching' = enriching \ {e}
  BY DEF Enriched
<1>4. Asserts({e.reason}) /\ now' = now
  <2> DEFINE R == {e.reason}
  <2>1. R \in SUBSET FP
    BY <1>3, WatchBounds DEF WatchEnriching
  <2> HIDE DEF R
  <2>2. Asserts(R) /\ now' = now
    BY <1>3, <2>1, EmitsAll, WatchBounds DEF R
  <2> QED BY <2>2 DEF R
<1>5. /\ changedAt \in Nat /\ changedAt <= now
      /\ \A f \in DOMAIN active : active[f].endsAt \in Nat
  BY WatchBounds, StoreBounds DEF WatchType
<1>6. ASSUME Told PROVE Told'
  <2>1. CASE e.reason \in Critical
    <3>1. e.reason \in DOMAIN active' /\ changedAt + ResolveTTL <= active'[e.reason].endsAt
      BY <1>4, <1>5, WatchBounds DEF Asserts
    <3> QED BY <1>1, <2>1, <3>1 DEF Told
  <2>2. CASE e.reason \notin Critical
    BY <1>1, <1>3, <1>4, <1>6, <2>2 DEF Told, Asserts
  <2> QED BY <2>1, <2>2
<1> QED BY <1>1, <1>2, <1>6 DEF OOMInv

LEMMA SweepOOM ==
    ASSUME watching, WatchInv, OOMInv, Sweeps,
           UNCHANGED <<now, detector, real, changedAt, allowed, cached, replaced>>,
           UNCHANGED <<oomKilled, oomDue, enriching>>
    PROVE  OOMInv'
<1>1. OOMShown'
  BY DEF OOMInv, OOMShown
<1>2. ASSUME Told PROVE Told'
  <2>1. \A f \in DOMAIN active : changedAt + ResolveTTL <= active[f].endsAt =>
          \/ f \in DOMAIN active' /\ active'[f].endsAt = active[f].endsAt
          \/ changedAt + ResolveTTL < now
    BY WatchBounds, StoreBounds DEF WatchType, Sweeps
  <2> QED BY <1>2, <2>1 DEF Told
<1> QED BY <1>1, <1>2 DEF OOMInv

LEMMA TimeOOM == ASSUME watching, WatchInv, OOMInv, TimePasses PROVE OOMInv'
<1>1. OOMShown'
  <2>1. UNCHANGED <<detector, real, cached, replaced, oomKilled>>
    BY WatchTime
  <2> QED BY <2>1 DEF OOMInv, OOMShown
<1>2. ASSUME Told PROVE Told'
  BY <1>2, WatchTime, WatchBounds DEF Told
<1> QED BY <1>1, <1>2, WatchTime DEF OOMInv

LEMMA OOMSteps ==
    ASSUME watching, WatchInv, OOMInv, [DetectorsNext]_detectorVars
    PROVE  OOMInv'
<1>1. CASE DetectorsNext
  <2>1. CASE Sweep /\ UNCHANGED watchVars
    BY <2>1, SweepOOM, SweepSweeps, WatchBounds DEF watchVars
  <2>2. CASE WatchNext
    BY <2>2, ObjectChangesOOM, AddOOM, UpdateOOM, ResyncObjectOOM, DeleteOOM, EnrichedOOM
       DEF WatchNext
  <2> QED BY <1>1, <2>1, <2>2, WatchCases, TimeOOM
<1>2. CASE UNCHANGED detectorVars
  <2>1. /\ UNCHANGED <<active, lastSent, now, detector, real, changedAt, standing>>
        /\ UNCHANGED watchVars
    BY <1>2 DEF detectorVars, storeVars, subject
  <2>2. Sweeps
    BY <2>1 DEF Sweeps
  <2> QED BY <2>1, <2>2, SweepOOM DEF watchVars
<1> QED BY <1>1, <1>2

(***************************************************************************)
(* What stands about an object is known, if the TTL outlasts a resync      *)
(* period and an enrichment.                                               *)
(***************************************************************************)
LEMMA WatchKnownStarts == DetectorsInit /\ watching => WatchKnown
<1> SUFFICES ASSUME DetectorsInit, watching PROVE WatchKnown
  OBVIOUS
<1>1. WatchInit(detector) /\ standing = [c \in WatchClaims(real, now) |-> now]
  BY Apart DEF DetectorsInit, watching, Build
<1>2. resyncedAt = now /\ ~replaced /\ now = 1
  BY <1>1 DEF WatchInit, DetectorsInit, Init
<1>3. \A c \in DOMAIN standing : standing[c] = 1
  BY <1>1, <1>2
<1> QED BY <1>2, <1>3, WatchingConstants DEF WatchKnown

\* A step that leaves the object alone: what was asserted stays so, and a resync
\* asserts what has stood for some time.
LEMMA KnownKept ==
    ASSUME watching, WatchInv, WatchKnown, Resync + EnrichTime <= ResolveTTL,
           UNCHANGED <<now, detector, allowed, standing>>, replaced' => replaced,
           \A c \in DOMAIN standing : standing[c] < now => c \in WatchClaims(cached', now),
           \A c \in DOMAIN standing : \A a, b \in Nat :
              /\ standing[c] < a /\ a <= now /\ now <= a + ResolveTTL /\ Asserted(c, a, b)
              => Asserted(c, a, b)',
           \/ resyncedAt' = resyncedAt
           \/ /\ resyncedAt' = now
              /\ \A c \in DOMAIN standing : standing[c] < now => Asserted(c, now, now + 1)'
    PROVE  WatchKnown'
<1>1. replaced' => \A c \in DOMAIN standing' : standing'[c] = now'
  BY DEF WatchKnown
<1>2. ASSUME NEW c \in DOMAIN standing
      PROVE  /\ standing[c] < now => c \in WatchClaims(cached, now)'
             /\ standing[c] < resyncedAt' => Asserted(c, resyncedAt, now + 1)'
             /\ \A t \in Nat :
                   standing[c] < t /\ t + Resync <= now /\ now <= t + Resync + EnrichTime =>
                       Asserted(c, t, t + Resync)'
  <2>1. standing[c] < now => c \in WatchClaims(cached, now)'
    BY WatchClaimsAfter
  <2>2. standing[c] < resyncedAt' => Asserted(c, resyncedAt, now + 1)'
    <3>1. CASE resyncedAt' = resyncedAt
      <4>1. resyncedAt \in Nat /\ resyncedAt <= now /\ now <= resyncedAt + ResolveTTL /\ now + 1 \in Nat
        BY WatchBounds DEF WatchType
      <4>2. standing[c] < resyncedAt => Asserted(c, resyncedAt, now + 1)
        BY DEF WatchKnown
      <4>3. PICK a, b : a = resyncedAt /\ b = now + 1
        OBVIOUS
      <4>4. standing[c] < a => Asserted(c, a, b)'
        BY <4>1, <4>2, <4>3
      <4> QED BY <3>1, <4>3, <4>4 DEF Asserted
    <3>2. CASE resyncedAt' = now /\ (standing[c] < now => Asserted(c, now, now + 1)')
      BY <3>2 DEF Asserted
    <3> QED BY <3>1, <3>2
  <2>3. ASSUME NEW t \in Nat, standing[c] < t, t + Resync <= now, now <= t + Resync + EnrichTime
        PROVE  Asserted(c, t, t + Resync)'
    <3>1. t <= now /\ now <= t + ResolveTTL /\ t + Resync \in Nat
      BY <2>3, WatchBounds
    <3>2. Asserted(c, t, t + Resync)
      BY <2>3 DEF WatchKnown
    <3> QED BY <2>3, <3>1, <3>2
  <2> QED BY <2>1, <2>2, <2>3
<1> QED BY <1>1, <1>2 DEF WatchKnown

\* Emissions keep what is asserted.
LEMMA EmitsAsserted ==
    ASSUME WatchInv, NEW R, Emits(R), NEW c, NEW a \in Nat, NEW b \in Nat, a <= now, Asserted(c, a, b)
    PROVE  Asserted(c, a, b)'
<1>1. \A e \in enriching : e \in enriching'
  BY DEF Emits
<1>2. \A f \in DOMAIN active :
         /\ f \in DOMAIN active'
         /\ a + ResolveTTL <= active[f].endsAt => a + ResolveTTL <= active'[f].endsAt
  BY WatchBounds, StoreBounds DEF Emits, Asserts
<1> QED BY <1>1, <1>2 DEF Asserted

\* A delivery leaves a copy that is the object.
LEMMA DeliveryKnown ==
    ASSUME watching, WatchInv, WatchKnown, Resync + EnrichTime <= ResolveTTL, Delivered,
           now' = now, NEW R, Emits(R)
    PROVE  WatchKnown'
<1>1. UNCHANGED <<detector, allowed, standing, resyncedAt>> /\ cached' = real /\ ~replaced'
  BY DEF Delivered, subject
<1>2. \A c \in DOMAIN standing : standing[c] < now => c \in WatchClaims(cached', now)
  BY <1>1, WatchBounds DEF WatchStanding
<1> QED BY <1>1, <1>2, EmitsAsserted, KnownKept

LEMMA AddKnown ==
    ASSUME watching, WatchInv, WatchKnown, Resync + EnrichTime <= ResolveTTL, Add
    PROVE  WatchKnown'
<1>1. PICK o \in real : Handle({}, o, FALSE) \/ UNCHANGED <<storeVars, enriching>>
  BY DEF Add
<1>2. CASE Handle({}, o, FALSE)
  <2>1. PICK old : old = {}
    OBVIOUS
  <2>2. PICK R : R = IF allowed THEN evaluate(detector, old, o, FALSE, now) ELSE {}
    OBVIOUS
  <2>3. now' = now /\ Emits(R)
    BY <1>2, <2>1, <2>2, Handles, WatchBounds
  <2> QED BY <2>3, DeliveryKnown DEF Add
<1>3. CASE UNCHANGED <<storeVars, enriching>>
  <2>1. PICK R : R = {}
    OBVIOUS
  <2>2. now' = now /\ Emits(R)
    BY <1>3, <2>1 DEF storeVars, Emits, Asserts
  <2> QED BY <2>2, DeliveryKnown DEF Add
<1> QED BY <1>1, <1>2, <1>3

LEMMA UpdateKnown ==
    ASSUME watching, WatchInv, WatchKnown, Resync + EnrichTime <= ResolveTTL, Update
    PROVE  WatchKnown'
<1>1. PICK o \in real : Handle(cached, o, FALSE)
  BY DEF Update
<1>2. PICK R : R = IF allowed THEN evaluate(detector, cached, o, FALSE, now) ELSE {}
  OBVIOUS
<1>3. now' = now /\ Emits(R)
  BY <1>1, <1>2, Handles, WatchBounds
<1> QED BY <1>3, DeliveryKnown DEF Update

\* A resync emits a reason of everything that the informer's copy claims.
LEMMA ResyncObjectKnown ==
    ASSUME watching, WatchInv, WatchKnown, Resync + EnrichTime <= ResolveTTL, ResyncObject
    PROVE  WatchKnown'
<1>1. /\ UNCHANGED <<detector, allowed, standing, cached, replaced>> /\ resyncedAt' = now
  BY DEF ResyncObject, subject
<1>2. \A c \in DOMAIN standing : standing[c] < now => c \in WatchClaims(cached', now)
  BY <1>1 DEF WatchKnown
<1>3. CASE cached = {} /\ UNCHANGED <<storeVars, enriching>>
  <2>1. now' = now /\ active' = active /\ enriching' = enriching
    BY <1>3 DEF storeVars
  <2>2. \A c \in DOMAIN standing : ~(standing[c] < now)
    BY <1>1, <1>2, <1>3, WatchClaimsAre
  <2>3. \A c, a, b : Asserted(c, a, b) => Asserted(c, a, b)'
    BY <2>1 DEF Asserted
  <2> QED BY <1>1, <1>2, <2>1, <2>2, <2>3, KnownKept
<1>4. ASSUME NEW o \in cached, Handle({o}, o, TRUE) PROVE WatchKnown'
  <2>1. PICK old : old = {o}
    OBVIOUS
  <2>2. PICK R : R = IF allowed THEN evaluate(detector, old, o, TRUE, now) ELSE {}
    OBVIOUS
  <2>3. now' = now /\ Emits(R)
    BY <1>4, <2>1, <2>2, Handles, WatchBounds
  <2>4. ASSUME NEW c \in DOMAIN standing, standing[c] < now PROVE Asserted(c, now, now + 1)'
    <3>1. allowed /\ c \in ClaimsOf(o, now)
      BY <1>1, <1>2, <1>4, <2>4, WatchClaimsAre, WatchBounds DEF WatchType
    <3>2. detector = "pod" => IsPod(o)
      BY <1>4, WatchBounds DEF WatchType, AreObjects
    <3>3. PICK r \in c : r \in R
      BY <2>1, <2>2, <3>1, <3>2, ClaimIsEmitted
    <3>4. CASE Asserts(R)
      <4>1. r \in DOMAIN active' /\ now + ResolveTTL <= active'[r].endsAt
        BY <3>3, <3>4, WatchBounds DEF Asserts
      <4> QED BY <2>3, <4>1 DEF Asserted
    <3>5. CASE enriching' = enriching \cup {[reason |-> x, at |-> now] : x \in R}
      <4> DEFINE e == [reason |-> r, at |-> now]
      <4>1. e \in enriching' /\ e.reason = r /\ e.at = now
        BY <3>3, <3>5
      <4> HIDE DEF e
      <4>2. e.reason \in c /\ now <= e.at /\ e.at < now + 1
        BY <4>1, WatchBounds
      <4> QED BY <2>3, <4>1, <4>2 DEF Asserted
    <3> QED BY <2>3, <3>4, <3>5 DEF Emits
  <2> QED BY <1>1, <1>2, <2>3, <2>4, EmitsAsserted, KnownKept
<1> QED BY <1>3, <1>4 DEF ResyncObject

LEMMA DeleteKnown ==
    ASSUME watching, WatchInv, WatchKnown, Resync + EnrichTime <= ResolveTTL, Delete
    PROVE  WatchKnown'
<1>1. /\ UNCHANGED <<detector, allowed, standing, resyncedAt>> /\ ~replaced'
      /\ real = {} \/ replaced
  BY DEF Delete, subject
<1>2. \A c \in DOMAIN standing : standing[c] = now
  BY <1>1, WatchBounds, WatchClaimsAre DEF WatchStanding, WatchKnown
<1>3. now' = now
  BY Clears, WatchBounds DEF Delete, handleDelete, storeVars
<1>4. resyncedAt \in Nat /\ resyncedAt <= now /\ now \in Nat
  BY WatchBounds DEF WatchType
<1>5. \A c \in DOMAIN standing : standing[c] < now => c \in WatchClaims(cached', now)
  BY <1>2, <1>4
<1>6. \A c \in DOMAIN standing : \A a, b \in Nat : ~(standing[c] < a /\ a <= now)
  BY <1>2, <1>4
<1> QED BY <1>1, <1>3, <1>5, <1>6, KnownKept

LEMMA EnrichedKnown ==
    ASSUME watching, WatchInv, WatchKnown, Resync + EnrichTime <= ResolveTTL, Enriched
    PROVE  WatchKnown'
<1>1. UNCHANGED <<detector, allowed, standing, cached, replaced, resyncedAt>>
  BY DEF Enriched, subject
<1>2. PICK e \in enriching : EmitAll({e.reason}) /\ enriching' = enriching \ {e}
  BY DEF Enriched
<1>3. Asserts({e.reason}) /\ now' = now
  <2> DEFINE R == {e.reason}
  <2>1. R \in SUBSET FP
    BY <1>2, WatchBounds DEF WatchEnriching
  <2> HIDE DEF R
  <2>2. Asserts(R) /\ now' = now
    BY <1>2, <2>1, EmitsAll, WatchBounds DEF R
  <2> QED BY <2>2 DEF R
<1>4. ASSUME NEW c \in DOMAIN standing, NEW a \in Nat, NEW b \in Nat, a <= now, Asserted(c, a, b)
      PROVE  Asserted(c, a, b)'
  <2>1. CASE e.reason \in c
    <3>1. e.reason \in DOMAIN active' /\ a + ResolveTTL <= active'[e.reason].endsAt
      BY <1>3, <1>4, WatchBounds DEF Asserts
    <3> QED BY <2>1, <3>1 DEF Asserted
  <2>2. CASE e.reason \notin c
    BY <1>2, <1>3, <1>4, <2>2 DEF Asserted, Asserts
  <2> QED BY <2>1, <2>2
<1>5. \A c \in DOMAIN standing : standing[c] < now => c \in WatchClaims(cached', now)
  BY <1>1 DEF WatchKnown
<1> QED BY <1>1, <1>3, <1>4, <1>5, KnownKept

LEMMA WatchSweepKnown ==
    ASSUME watching, WatchInv, WatchKnown, Resync + EnrichTime <= ResolveTTL, Sweeps,
           UNCHANGED <<now, detector, allowed, standing, cached, replaced, resyncedAt, enriching>>
    PROVE  WatchKnown'
<1>1. ASSUME NEW c \in DOMAIN standing, NEW a \in Nat, NEW b \in Nat, now <= a + ResolveTTL,
             Asserted(c, a, b)
      PROVE  Asserted(c, a, b)'
  <2>1. \A f \in DOMAIN active : a + ResolveTTL <= active[f].endsAt =>
           f \in DOMAIN active' /\ active'[f].endsAt = active[f].endsAt
    BY <1>1, WatchBounds, StoreBounds DEF Sweeps
  <2> QED BY <1>1, <2>1 DEF Asserted
<1>2. \A c \in DOMAIN standing : standing[c] < now => c \in WatchClaims(cached', now)
  BY DEF WatchKnown
<1> QED BY <1>1, <1>2, KnownKept

\* A change starts the clock of the claims that it adds.
LEMMA ObjectChangesKnown ==
    ASSUME watching, WatchInv, WatchKnown, ObjectChanges
    PROVE  WatchKnown'
<1>1. /\ UNCHANGED <<detector, allowed, cached, resyncedAt, enriching>> /\ UNCHANGED storeVars
      /\ standing' = Hold(WatchClaims(real', now), now)
  BY DEF ObjectChanges
<1>2. UNCHANGED <<active, now>>
  BY <1>1 DEF storeVars
<1>3. \A c \in DOMAIN standing' :
         \/ c \in DOMAIN standing /\ standing'[c] = standing[c]
         \/ standing'[c] = now
  BY <1>1 DEF Hold
<1>4. \A c, a, b : Asserted(c, a, b) => Asserted(c, a, b)'
  BY <1>1, <1>2 DEF Asserted
<1>5. ASSUME NEW c \in DOMAIN standing'
      PROVE  /\ standing'[c] < now => c \in WatchClaims(cached, now)'
             /\ standing'[c] < resyncedAt => Asserted(c, resyncedAt, now + 1)'
             /\ \A t \in Nat :
                   standing'[c] < t /\ t + Resync <= now /\ now <= t + Resync + EnrichTime =>
                       Asserted(c, t, t + Resync)'
  <2>1. CASE standing'[c] = now
    <3>1. resyncedAt \in Nat /\ resyncedAt <= now
      BY WatchBounds DEF WatchType
    <3> QED BY <2>1, <3>1, WatchBounds
  <2>2. CASE c \in DOMAIN standing /\ standing'[c] = standing[c]
    <3>1. standing[c] < now => c \in WatchClaims(cached, now)'
      BY <1>1, <1>2, <2>2, WatchClaimsAfter DEF WatchKnown
    <3>2. standing[c] < resyncedAt => Asserted(c, resyncedAt, now + 1)'
      <4>1. standing[c] < resyncedAt => Asserted(c, resyncedAt, now + 1)
        BY <2>2 DEF WatchKnown
      <4> QED BY <1>1, <1>2, <4>1 DEF Asserted
    <3>3. \A t \in Nat :
             standing[c] < t /\ t + Resync <= now /\ now <= t + Resync + EnrichTime =>
                 Asserted(c, t, t + Resync)'
      BY <1>4, <2>2 DEF WatchKnown
    <3> QED BY <2>2, <3>1, <3>2, <3>3
  <2> QED BY <1>3, <2>1, <2>2
<1>6. replaced' => \A c \in DOMAIN standing' : standing'[c] = now
  <2>1. CASE real = {}
    <3>1. DOMAIN standing = WatchClaims(real, now)
      BY WatchBounds DEF WatchStanding
    <3>2. DOMAIN standing = {}
      BY <2>1, <3>1, WatchClaimsAre
    <3> QED BY <1>3, <3>2
  <2>2. CASE real' = {}
    <3>1. DOMAIN standing' = {}
      BY <1>1, <2>2, WatchClaimsAre DEF Hold
    <3> QED BY <3>1
  <2>3. CASE replaced' = replaced
    BY <1>3, <2>3 DEF WatchKnown
  <2> QED BY <2>1, <2>2, <2>3 DEF ObjectChanges
<1> QED BY <1>1, <1>2, <1>5, <1>6 DEF WatchKnown

\* A period that ends was begun before the last resync.
LEMMA WatchTimeKnown ==
    ASSUME watching, WatchInv, WatchKnown, TimePasses
    PROVE  WatchKnown'
<1>1. /\ resyncedAt \in Nat /\ resyncedAt <= now /\ now < resyncedAt + Resync /\ now' = now + 1
      /\ UNCHANGED <<detector, allowed, active, enriching, resyncedAt>> /\ ~replaced'
  BY WatchTime, WatchBounds DEF WatchType
<1>2. \A c, a, b : Asserted(c, a, b) => Asserted(c, a, b)'
  BY <1>1 DEF Asserted
<1>3. ASSUME NEW c \in DOMAIN standing'
      PROVE  /\ c \in WatchClaims(cached, now)'
             /\ standing'[c] < resyncedAt => Asserted(c, resyncedAt, now + 1)'
             /\ \A t \in Nat :
                   standing'[c] < t /\ t + Resync <= now + 1 /\ now + 1 <= t + Resync + EnrichTime =>
                       Asserted(c, t, t + Resync)'
  <2>1. c \in WatchClaims(cached, now)'
    BY WatchTime, WatchClaimsAfter
  <2>2. CASE c \notin DOMAIN standing
    <3>1. standing'[c] = now + 1
      BY <2>2, WatchTime
    <3> QED BY <1>1, <2>1, <3>1, WatchBounds
  <2>3. CASE c \in DOMAIN standing
    <3>1. standing'[c] = standing[c] /\ standing[c] \in Nat
      BY <2>3, WatchTime, WatchBounds DEF WatchStanding
    <3>2. standing[c] < resyncedAt => Asserted(c, resyncedAt, now + 1)
      BY <2>3 DEF WatchKnown
    <3>3. \A e \in enriching : e.at \in Nat /\ e.at <= now
      BY WatchBounds DEF WatchEnriching
    <3>4. standing[c] < resyncedAt => Asserted(c, resyncedAt, now + 1)'
      BY <1>1, <3>2, <3>3, WatchBounds DEF Asserted
    <3>5. ASSUME NEW t \in Nat, standing[c] < t, t + Resync <= now + 1,
                 now + 1 <= t + Resync + EnrichTime
          PROVE  Asserted(c, t, t + Resync)'
      <4>1. CASE t + Resync <= now
        <5>1. now <= t + Resync + EnrichTime
          BY <3>5, WatchBounds
        <5> QED BY <1>2, <2>3, <3>5, <4>1, <5>1 DEF WatchKnown
      <4>2. CASE t + Resync = now + 1
        <5>1. t <= resyncedAt /\ standing[c] < resyncedAt
          BY <1>1, <3>1, <3>5, <4>2, WatchBounds
        <5>2. Asserted(c, resyncedAt, now + 1)
          BY <3>2, <5>1
        <5>3. \A f \in DOMAIN active : active[f].endsAt \in Nat
          BY WatchBounds, StoreBounds
        <5>4. Asserted(c, t, t + Resync)
          BY <1>1, <3>3, <4>2, <5>1, <5>2, <5>3, WatchBounds DEF Asserted
        <5> QED BY <1>2, <5>4
      <4> QED BY <3>5, <4>1, <4>2, WatchBounds
    <3> QED BY <2>1, <3>1, <3>4, <3>5
  <2> QED BY <2>2, <2>3
<1> QED BY <1>1, <1>3 DEF WatchKnown

LEMMA WatchKnownSteps ==
    ASSUME watching, WatchInv, WatchKnown, Resync + EnrichTime <= ResolveTTL,
           [DetectorsNext]_detectorVars
    PROVE  WatchKnown'
<1>1. CASE DetectorsNext
  <2>1. CASE Sweep /\ UNCHANGED watchVars
    BY <2>1, WatchSweepKnown, SweepSweeps, WatchBounds DEF watchVars
  <2>2. CASE WatchNext
    BY <2>2, ObjectChangesKnown, AddKnown, UpdateKnown, ResyncObjectKnown, DeleteKnown,
       EnrichedKnown DEF WatchNext
  <2> QED BY <1>1, <2>1, <2>2, WatchCases, WatchTimeKnown
<1>2. CASE UNCHANGED detectorVars
  <2>1. UNCHANGED <<active, now, detector, standing>> /\ UNCHANGED watchVars
    BY <1>2 DEF detectorVars, storeVars, subject
  <2>2. Sweeps
    BY <2>1 DEF Sweeps
  <2> QED BY <2>1, <2>2, WatchSweepKnown DEF watchVars
<1> QED BY <1>1, <1>2

LEMMA WatchKnows ==
    ASSUME WatchInv, WatchKnown, Resync + EnrichTime <= ResolveTTL,
           NEW c \in DOMAIN standing, now > standing[c] + Resync + EnrichTime
    PROVE  Holds(c)
<1> DEFINE t == now - EnrichTime - Resync
<1>1. standing[c] \in Nat
  BY WatchBounds DEF WatchStanding
<1>2. /\ t \in Nat /\ standing[c] < t /\ t + Resync <= now /\ t + Resync + EnrichTime = now
      /\ now <= t + Resync + EnrichTime /\ now <= t + ResolveTTL
  BY <1>1, WatchBounds
<1> HIDE DEF t
<1>3. Asserted(c, t, t + Resync)
  BY <1>2 DEF WatchKnown
<1>4. \A e \in enriching : ~(e.at < t + Resync)
  BY <1>2, WatchBounds DEF WatchEnriching
<1>5. PICK r \in c : r \in DOMAIN active /\ t + ResolveTTL <= active[r].endsAt
  BY <1>3, <1>4 DEF Asserted
<1>6. now <= active[r].endsAt
  BY <1>2, <1>5, WatchBounds, StoreBounds
<1> QED BY <1>5, <1>6 DEF Holds, Alive

-----------------------------------------------------------------------------
(***************************************************************************)
(* What holds of every detector.                                           *)
(***************************************************************************)
\* A detector is of one of the three sorts, and has the invariant of its sort.
DetectInv ==
    /\ polling \/ tailing \/ watching
    /\ polling => CloudInv
    /\ tailing => TrailInv
    /\ watching => WatchInv /\ OOMInv
    /\ ~watching => ~oomDue

LEMMA DetectAlways == DetectorsSpec => []DetectInv
<1>1. DetectorsInit => DetectInv
  <2> SUFFICES ASSUME DetectorsInit PROVE DetectInv
    OBVIOUS
  <2>1. polling \/ tailing \/ watching
    BY DEF DetectorsInit, polling, tailing, watching, Build
  <2>2. ~watching => ~oomDue
    BY DEF DetectorsInit, watching, Build, NoWatch
  <2> QED BY <2>1, <2>2, CloudStarts, TrailStarts, WatchStarts, OOMStarts DEF DetectInv
<1>2. DetectInv /\ [DetectorsNext]_detectorVars => DetectInv'
  <2> SUFFICES ASSUME DetectInv, [DetectorsNext]_detectorVars PROVE DetectInv'
    OBVIOUS
  <2>1. (polling' <=> polling) /\ (tailing' <=> tailing) /\ (watching' <=> watching)
    BY SameDetector DEF polling, tailing, watching
  <2>2. ~watching => oomDue' = oomDue
    <3>1. CASE UNCHANGED detectorVars
      BY <3>1 DEF detectorVars, watchVars
    <3>2. CASE ~watching /\ DetectorsNext
      <4>1. ~WatchNext
        BY <3>2 DEF WatchNext, ObjectChanges, Add, Update, ResyncObject, ResyncDue, Delete, Enriched
      <4> QED BY <3>2, <4>1 DEF DetectorsNext, TimePasses, watchVars
    <3> QED BY <3>1, <3>2
  <2>3. ~watching' => ~oomDue'
    BY <2>1, <2>2 DEF DetectInv
  <2>4. (polling => CloudInv') /\ (tailing => TrailInv') /\ (watching => WatchInv' /\ OOMInv')
    BY CloudSteps, TrailSteps, WatchSteps, OOMSteps DEF DetectInv
  <2> QED BY <2>1, <2>3, <2>4 DEF DetectInv
<1> QED BY <1>1, <1>2, PTL DEF DetectorsSpec

\* Once the deletion of an object was delivered, its alerts are gone at once
\* (pods excepted), whatever was pending when it came.
THEOREM DeletedObjectsAreCleared == DetectorsSpec => []DeletedIsCleared
<1>1. DetectInv => DeletedIsCleared
  BY WatchBounds DEF DetectInv, DeletedIsCleared, WatchCleared
<1> QED BY <1>1, DetectAlways, PTL

\* No detector extends an alert of what does not stand any more beyond the time
\* in which it still acts on what it saw before.
THEOREM EndedEnds == DetectorsSpec => []EndedIsNotReasserted
<1>1. ASSUME DetectInv PROVE EndedIsNotReasserted
  <2>1. CASE watching
    BY <1>1, <2>1, WatchBounds DEF DetectInv, EndedIsNotReasserted, WatchEnded, Slack
  <2>2. CASE polling
    <3>1. ~watching
      BY <2>2, Apart DEF watching, polling
    <3>2. Slack = 2 * Interval + Teardown
      BY <3>1 DEF Slack, pollDeadline, PollDeadlineFactor
    <3>3. changedAt \in Nat /\ Interval \in Nat /\ Teardown \in Nat /\ ResolveTTL \in Nat
      BY <1>1, <2>2, CloudBounds DEF DetectInv, CloudType
    <3>4. changedAt + Slack + ResolveTTL = changedAt + 2 * Interval + Teardown + ResolveTTL
      BY <3>2, <3>3
    <3> QED BY <1>1, <2>2, <3>4, CloudBounds DEF DetectInv, EndedIsNotReasserted, CloudEnded
  <2>3. CASE tailing
    BY <1>1, <2>3, TrailBounds DEF DetectInv, EndedIsNotReasserted, TrailType
  <2> QED BY <1>1, <2>1, <2>2, <2>3 DEF DetectInv
<1> QED BY <1>1, DetectAlways, PTL

\* However fast an OOM-killed container is started again, and whatever else is
\* wrong with its pod, a critical alert of the pod is alive or on its way until a
\* TTL after the change.
THEOREM OOMKillsAreReported == DetectorsSpec => []OOMIsReported
<1>1. ASSUME DetectInv PROVE OOMIsReported
  <2> SUFFICES ASSUME oomDue, allowed, now <= changedAt + ResolveTTL
               PROVE  \E fp \in Critical : Alive(fp) \/ \E e \in enriching : e.reason = fp
    BY DEF OOMIsReported
  <2>1. watching /\ WatchInv /\ Told
    BY <1>1 DEF DetectInv, OOMInv
  <2>2. CASE \E e \in enriching : e.reason \in Critical
    BY <2>2
  <2>3. ASSUME NEW f \in Critical \cap DOMAIN active, changedAt + ResolveTTL <= active[f].endsAt
        PROVE  Alive(f)
    BY <2>1, <2>3, WatchBounds, StoreBounds DEF Alive
  <2>4. ~(changedAt + ResolveTTL < now)
    BY <2>1, WatchBounds
  <2> QED BY <2>1, <2>2, <2>3, <2>4 DEF Told
<1> QED BY <1>1, DetectAlways, PTL

\* What stands about an object or a resource is known, if the TTL outlasts two
\* polls, and a resync period and an enrichment: the alert of a standing condition
\* is alive and a recovered cloud resource has none, whatever came late, was lost
\* in between or was still being enriched.
THEOREM StandingConditionsAreKnown ==
    ASSUME PollLag <= ResolveTTL, Resync + EnrichTime <= ResolveTTL
    PROVE  DetectorsSpec => []StandingIsKnown
<1>1. DetectorsInit => (polling => CloudKnown) /\ (watching => WatchKnown)
  BY CloudKnownStarts, WatchKnownStarts
<1>2. /\ DetectInv /\ (polling => CloudKnown) /\ (watching => WatchKnown)
      /\ [DetectorsNext]_detectorVars
      => ((polling => CloudKnown) /\ (watching => WatchKnown))'
  <2> SUFFICES ASSUME DetectInv, polling => CloudKnown, watching => WatchKnown,
                      [DetectorsNext]_detectorVars
               PROVE  (polling' => CloudKnown') /\ (watching' => WatchKnown')
    OBVIOUS
  <2>1. (polling' <=> polling) /\ (watching' <=> watching)
    BY SameDetector DEF polling, watching
  <2> QED BY <2>1, CloudKnownSteps, WatchKnownSteps DEF DetectInv
<1>3. ASSUME DetectInv, polling => CloudKnown, watching => WatchKnown PROVE StandingIsKnown
  <2> SUFFICES ASSUME poll # "stopped", NEW c \in DOMAIN standing, now > standing[c] + Lag
               PROVE  Holds(c)
    BY DEF StandingIsKnown
  <2>1. CASE watching
    <3>1. standing[c] \in Nat /\ standing[c] + (Resync + EnrichTime) = standing[c] + Resync + EnrichTime
      BY <1>3, <2>1, WatchBounds DEF DetectInv, WatchStanding
    <3>2. now > standing[c] + Resync + EnrichTime
      BY <2>1, <3>1 DEF Lag
    <3> QED BY <1>3, <2>1, <3>2, WatchKnows DEF DetectInv
  <2>2. CASE polling
    <3>1. now > standing[c] + PollLag
      BY <2>2, Apart DEF Lag, watching, polling
    <3> QED BY <1>3, <2>2, <3>1, CloudKnows DEF DetectInv
  <2>3. CASE tailing
    BY <1>3, <2>3, TrailBounds DEF DetectInv, TrailType
  <2> QED BY <1>3, <2>1, <2>2, <2>3 DEF DetectInv
<1> QED BY <1>1, <1>2, <1>3, DetectAlways, PTL DEF DetectorsSpec

=============================================================================
