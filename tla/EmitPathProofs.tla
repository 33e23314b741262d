--------------------------- MODULE EmitPathProofs ---------------------------
(***************************************************************************)
(* Proofs about the emit path, for any configuration of conditions,        *)
(* inhibitions, silences, maintenance windows and rules, for any number of *)
(* emissions under way and for any choice of the time constants.           *)
(***************************************************************************)
EXTENDS EmitPath, FiniteSetTheorems, SequenceTheorems, TLAPS

-----------------------------------------------------------------------------
(***************************************************************************)
(* Maintenance windows.                                                    *)
(***************************************************************************)
\* The day and the minute of a local time.
LEMMA DayAndMinute ==
    ASSUME NEW x \in Nat
    PROVE  /\ x \div DayLength \in Nat /\ minute(x) \in Nat /\ minute(x) < DayLength
           /\ x = DayLength * (x \div DayLength) + minute(x)
BY DayConstants DEF minute

LEMMA DaysApart ==
    ASSUME NEW p \in Nat, NEW q \in Nat, NEW D \in Nat, p < q
    PROVE  D * p + D <= D * q
<1>1. PICK k \in Nat : q = p + 1 + k
  <2>1. q - p - 1 \in Nat /\ q = p + 1 + (q - p - 1)
    OBVIOUS
  <2> QED BY <2>1
<1>2. D * q = D * p + D + D * k
  BY <1>1
<1>3. D * k >= 0
  OBVIOUS
<1>4. D * p \in Nat /\ D * k \in Nat
  OBVIOUS
<1> QED BY <1>2, <1>3, <1>4

LEMMA OneDayAndMinute ==
    ASSUME NEW p \in Nat, NEW m \in Nat, m < DayLength
    PROVE  /\ DayLength * p + m \in Nat
           /\ (DayLength * p + m) \div DayLength = p /\ minute(DayLength * p + m) = m
<1> DEFINE x == DayLength * p + m
           q == x \div DayLength
<1>1. x \in Nat /\ DayLength * p \in Nat /\ DayLength * q \in Nat
  BY DayConstants
<1>2. q \in Nat /\ minute(x) \in Nat /\ minute(x) < DayLength /\ x = DayLength * q + minute(x)
  BY <1>1, DayAndMinute
<1> HIDE DEF q
<1>3. ~(p < q)
  <2> SUFFICES ASSUME p < q PROVE FALSE
    OBVIOUS
  <2>1. DayLength * p + DayLength <= DayLength * q
    BY <1>2, DaysApart, DayConstants
  <2> QED BY <1>1, <1>2, <2>1, DayConstants
<1>4. ~(q < p)
  <2> SUFFICES ASSUME q < p PROVE FALSE
    OBVIOUS
  <2>1. DayLength * q + DayLength <= DayLength * p
    BY <1>2, DaysApart, DayConstants
  <2> QED BY <1>1, <1>2, <2>1, DayConstants
<1>5. q = p
  BY <1>2, <1>3, <1>4
<1> QED BY <1>1, <1>2, <1>5, DayConstants DEF q

\* The length of a window, by its three shapes.
LEMMA SpanIs ==
    ASSUME NEW w, IsWindow(w)
    PROVE  /\ w.start < w.end => Span(w) = w.end - w.start
           /\ w.start = w.end => Span(w) = 0
           /\ w.start > w.end => Span(w) = w.end + DayLength - w.start
<1>1. /\ w.start \in Nat /\ w.end \in Nat /\ w.start < DayLength /\ w.end < DayLength
      /\ DayLength \in Nat
  BY DayConstants DEF IsWindow
<1>2. CASE w.start < w.end
  <2>1. w.end - w.start \in Nat /\ w.end - w.start < DayLength
    BY <1>1, <1>2
  <2>2. minute(DayLength * 1 + (w.end - w.start)) = w.end - w.start
    BY <2>1, OneDayAndMinute
  <2>3. DayLength * 1 + (w.end - w.start) = w.end + DayLength - w.start
    BY <1>1
  <2> QED BY <1>1, <1>2, <2>2, <2>3 DEF minute, Span
<1>3. CASE w.start = w.end
  <2>1. minute(DayLength * 1 + 0) = 0
    <3>1. 0 \in Nat /\ 1 \in Nat /\ 0 < DayLength
      BY DayConstants
    <3> QED BY <3>1, OneDayAndMinute
  <2>2. DayLength * 1 + 0 = w.end + DayLength - w.start
    BY <1>1, <1>3
  <2> QED BY <1>1, <1>3, <2>1, <2>2 DEF minute, Span
<1>4. CASE w.start > w.end
  <2>1. w.end + DayLength - w.start \in Nat /\ w.end + DayLength - w.start < DayLength
    BY <1>1, <1>4
  <2>2. minute(DayLength * 0 + (w.end + DayLength - w.start)) = w.end + DayLength - w.start
    BY <2>1, OneDayAndMinute
  <2>3. DayLength * 0 + (w.end + DayLength - w.start) = w.end + DayLength - w.start
    BY <1>1, <2>1
  <2> QED BY <1>1, <1>4, <2>2, <2>3 DEF minute, Span
<1> QED BY <1>1, <1>2, <1>3, <1>4

\* A window opens on day p.
Opens(w, p) == DayLength * p + w.start

LEMMA OpensThen ==
    ASSUME NEW w, IsWindow(w), NEW p \in Nat
    PROVE  /\ Opens(w, p) \in Nat /\ minute(Opens(w, p)) = w.start
           /\ weekday(Opens(w, p)) = p % 7
BY OneDayAndMinute, DayConstants DEF IsWindow, Opens, weekday

LEMMA YesterdayIs ==
    ASSUME NEW q \in Nat, q >= 1
    PROVE  prevWeekday(q % 7) = (q - 1) % 7
BY DEF prevWeekday

\* The code's arithmetic on minutes and weekdays says what a maintenance window
\* means: it opens at its start on every allowed day and stays open for its length,
\* past midnight if need be (MaintenanceWindow.Active).
THEOREM WindowsMeanWhatTheySay ==
    ASSUME NEW w, IsWindow(w), NEW t \in Nat
    PROVE  WindowActive(w, t) <=> InWindow(w, t)
<1> DEFINE lt == t + w.zone
           q == lt \div DayLength
           m == minute(lt)
<1>1. /\ w.start \in Nat /\ w.end \in Nat /\ w.start < DayLength /\ w.end < DayLength
      /\ DayLength \in Nat /\ DayLength # 0 /\ lt \in Nat /\ lt >= DayLength
  BY DayConstants DEF IsWindow
<1>2. q \in Nat /\ m \in Nat /\ m < DayLength /\ lt = DayLength * q + m
  BY <1>1, DayAndMinute
<1>3. weekday(lt) = q % 7
  BY DEF weekday
<1>4. /\ WindowActive(w, t) <=>
            /\ w.start # w.end
            /\ IF w.start < w.end THEN w.start <= m /\ m < w.end /\ dayAllowed(w, q % 7)
               ELSE IF m >= w.start THEN dayAllowed(w, q % 7)
               ELSE m < w.end /\ dayAllowed(w, prevWeekday(q % 7))
      /\ InWindow(w, t) <=> \E s \in {x \in 0..lt : lt - x < Span(w)} :
                               minute(s) = w.start /\ dayAllowed(w, weekday(s))
  BY <1>3 DEF WindowActive, InWindow
<1> HIDE DEF lt, q, m
<1>5. q >= 1
  <2> SUFFICES ASSUME q = 0 PROVE FALSE
    BY <1>2
  <2>1. DayLength * q = 0
    BY <1>1
  <2> QED BY <1>1, <1>2, <2>1
<1>6. DayLength * (q - 1) + DayLength = DayLength * q /\ DayLength * q \in Nat /\ q - 1 \in Nat
      /\ DayLength * (q - 1) \in Nat
  BY <1>1, <1>2, <1>5
<1>7. /\ w.start < w.end => Span(w) = w.end - w.start
      /\ w.start = w.end => Span(w) = 0
      /\ w.start > w.end => Span(w) = w.end + DayLength - w.start
  BY SpanIs
<1>8. ASSUME WindowActive(w, t) PROVE InWindow(w, t)
  <2>1. CASE w.start <= m /\ dayAllowed(w, q % 7)
    <3>1. Opens(w, q) \in 0..lt /\ lt - Opens(w, q) < Span(w)
      BY <1>1, <1>2, <1>4, <1>6, <1>7, <1>8, <2>1, OpensThen DEF Opens
    <3> QED BY <1>2, <1>4, <2>1, <3>1, OpensThen
  <2>2. CASE w.start > w.end /\ m < w.end /\ dayAllowed(w, prevWeekday(q % 7))
    <3>1. Opens(w, q - 1) \in 0..lt /\ lt - Opens(w, q - 1) < Span(w)
      BY <1>1, <1>2, <1>6, <1>7, <2>2, OpensThen DEF Opens
    <3> QED BY <1>2, <1>4, <1>5, <1>6, <2>2, <3>1, OpensThen, YesterdayIs
  <2> QED BY <1>1, <1>2, <1>4, <1>8, <2>1, <2>2
<1>9. ASSUME InWindow(w, t) PROVE WindowActive(w, t)
  <2>1. PICK s \in 0..lt : lt - s < Span(w) /\ minute(s) = w.start /\ dayAllowed(w, weekday(s))
    BY <1>4, <1>9
  <2> DEFINE p == s \div DayLength
  <2>2. p \in Nat /\ s = DayLength * p + w.start /\ weekday(s) = p % 7 /\ DayLength * p \in Nat
    <3>1. s \in Nat
      BY <1>1, <2>1
    <3>2. p \in Nat /\ s = DayLength * p + minute(s)
      BY <3>1, DayAndMinute
    <3>3. weekday(s) = p % 7
      BY DEF weekday
    <3> HIDE DEF p
    <3> QED BY <1>1, <2>1, <3>2, <3>3
  <2> HIDE DEF p
  <2>3. Span(w) < DayLength /\ Span(w) \in Nat
    BY <1>1, <1>7
  <2>4. ~(q < p)
    <3> SUFFICES ASSUME q < p PROVE FALSE
      OBVIOUS
    <3>1. DayLength * q + DayLength <= DayLength * p
      BY <1>1, <1>2, <2>2, DaysApart
    <3> QED BY <1>1, <1>2, <1>6, <2>1, <2>2, <3>1
  <2>5. ~(p < q - 1)
    <3> SUFFICES ASSUME p < q - 1 PROVE FALSE
      OBVIOUS
    <3>1. DayLength * p + DayLength <= DayLength * (q - 1)
      BY <1>1, <1>6, <2>2, DaysApart
    <3> QED BY <1>1, <1>2, <1>6, <2>1, <2>2, <2>3, <3>1
  <2>6. CASE p = q
    <3>1. w.start <= m /\ m - w.start < Span(w)
      BY <1>1, <1>2, <1>6, <2>1, <2>2, <2>3, <2>6
    <3>2. w.start # w.end /\ (w.start < w.end => m < w.end)
      BY <1>1, <1>2, <1>7, <3>1
    <3>3. dayAllowed(w, q % 7)
      BY <2>1, <2>2, <2>6
    <3> QED BY <1>1, <1>2, <1>4, <3>1, <3>2, <3>3
  <2>7. CASE p = q - 1
    <3>1. m < w.start /\ DayLength + m - w.start < Span(w)
      BY <1>1, <1>2, <1>6, <2>1, <2>2, <2>3, <2>7
    <3>2. w.start > w.end /\ m < w.end
      BY <1>1, <1>2, <1>7, <3>1
    <3>3. prevWeekday(q % 7) = p % 7
      BY <1>2, <1>5, <2>7, YesterdayIs
    <3> QED BY <1>1, <1>2, <1>4, <2>1, <2>2, <3>1, <3>2, <3>3
  <2> QED BY <1>2, <2>2, <2>4, <2>5, <2>6, <2>7
<1> QED BY <1>8, <1>9

-----------------------------------------------------------------------------
(***************************************************************************)
(* The inductive invariant.  Types and clocks first.                       *)
(***************************************************************************)
Flows == [fp : FP, at : Nat, stage : {"begin", "observe", "route", "send"}]

PathType ==
    /\ config \in Configs
    /\ now \in Nat
    /\ IsMap(active, FP, Alerts) /\ IsMap(lastSent, FP, Times)
    /\ IsMap(delivered, config.watched, Nat)
    /\ flows \subseteq Flows
    /\ history.down \in [FP -> Nat] /\ history.stood \in [FP -> Nat] /\ history.held \in [FP -> Nat]
    /\ engineStart \in Nat /\ tickedAt \in Nat /\ rebuiltAt \in Nat
    /\ last \in [rulesOf({"absent"}) -> Nat]
    /\ DOMAIN seen = rulesOf({"count", "all"})

Clocks ==
    /\ 1 <= engineStart /\ engineStart <= tickedAt /\ tickedAt <= now
    /\ DOMAIN last # {} => now <= tickedAt + AbsentTick
    /\ booting => /\ now = engineStart /\ active = EmptyMap /\ lastSent = EmptyMap
                  /\ cond = {} /\ flows = {}
    /\ \A fp \in cond : /\ delivered[fp] <= now
                        /\ delivered[fp] = 0 \/ now <= delivered[fp] + Resync
                        /\ delivered[fp] = 0 => history.down[fp] = now
    /\ \A fp \in FP : /\ history.down[fp] <= now /\ history.stood[fp] <= now
                      /\ history.held[fp] <= now

\* An emission waits for the engine's lock only.  One that is not derived comes
\* from a condition that stood when its clock was read.
FlowInv ==
    \A f \in flows :
        /\ engineStart <= f.at /\ f.at <= now /\ now <= f.at + slack
        /\ IF f.stage = "observe" THEN DOMAIN rules # {} ELSE f.at = now
        /\ f.fp \in config.watched \cup DOMAIN rules
        /\ f.fp \in DOMAIN rules => f.stage # "observe"
        /\ f.fp \notin DOMAIN rules =>
              /\ f.stage # "begin"
              /\ 1 <= history.stood[f.fp] /\ now <= history.stood[f.fp] + slack
              /\ f.stage = "observe" => f.at <= history.stood[f.fp]

\* What mutes without an alert is a seed of the grace, or was restored.
Seeds ==
    \A fp \in DOMAIN lastSent :
        /\ lastSent[fp] <= now
        /\ fp \in DOMAIN active \/ lastSent[fp] <= graceEnd

\* The syncer's list is that of its objects, except between an event and the
\* rebuild that follows it at once; what it silences by then was silenced before.
SyncInv ==
    /\ \A cr \in crs : cr.created \in Nat \ {0} /\ cr.until \in Nat
    /\ rebuiltAt # 0 => crdItems = snapshot
    /\ rebuiltAt = 0 =>
          \A s \in crdItems, fp \in FP :
              fp \in s.matches /\ isActive(s) => IsSilenced(fp) \/ history.held[fp] = now

\* An inhibition was armed by a source that stood, or that is derived.
ArmedBy(k, i, x) ==
    /\ k = inhibitionKey(i, x) /\ x \in inhibitions[i].source
    /\ \/ x \in DOMAIN rules
       \/ /\ 1 <= history.stood[x]
          /\ activeInhibits[k] <= history.stood[x] + slack + inhibitions[i].duration

InhibitInv ==
    /\ activeInhibits \in [DOMAIN activeInhibits -> Nat]
    /\ \A k \in DOMAIN activeInhibits : \E i \in DOMAIN inhibitions, x \in FP : ArmedBy(k, i, x)

(***************************************************************************)
(* Every delivery of a standing condition has its effect, at once or when  *)
(* its emission gets the engine's lock: inhibitions are armed, the alert   *)
(* is alive, heartbeats are seen.                                          *)
(***************************************************************************)
Armed(fp, a) ==
    \A i \in DOMAIN inhibitions :
        fp \in inhibitions[i].source =>
            \/ a + inhibitions[i].duration <= now
            \/ /\ inhibitionKey(i, fp) \in DOMAIN activeInhibits
               /\ a + inhibitions[i].duration <= activeInhibits[inhibitionKey(i, fp)]

Alive(fp, a) ==
    \/ a + ResolveTTL < now
    \/ fp \in DOMAIN active /\ a + ResolveTTL <= active[fp].endsAt

Seen(fp, a) ==
    \A d \in DOMAIN last : fp \in rules[d].match => a <= last[d] + MuteWindow + slack

\* An emission that was delivered between a and b waits, or is in one of stages.
Waits(fp, stages, a, b) ==
    \E f \in flows :
        /\ f.fp = fp
        /\ \/ f.stage = "observe" /\ a <= f.at /\ f.at < b
           \/ f.stage \in stages /\ now < b + slack

Followed(fp, a, b) ==
    /\ a > history.held[fp] /\ a > graceEnd => Waits(fp, {"route"}, a, b) \/ Armed(fp, a)
    /\ a > history.held[fp] /\ a > graceEnd + MuteWindow =>
          Waits(fp, {"route", "send"}, a, b) \/ Alive(fp, a)
    /\ a > history.down[fp] /\ a > graceEnd + MuteWindow => Waits(fp, {}, a, b) \/ Seen(fp, a)

FollowInv ==
    \A fp \in cond :
        /\ delivered[fp] # 0 => Followed(fp, delivered[fp], now + 1)
        /\ \A t \in 0..now : t + Resync <= now => Followed(fp, t, t + Resync)

\* What was notified after the grace was observed shortly before.
SentInv ==
    \A d \in DOMAIN last : \A fp \in rules[d].match \ DOMAIN rules :
        /\ fp \in DOMAIN lastSent => \/ lastSent[fp] <= graceEnd
                                     \/ lastSent[fp] <= last[d] + slack
        /\ \A f \in flows : f.fp = fp /\ f.stage \in {"route", "send"} => now <= last[d] + slack

(***************************************************************************)
(* The same for the ticks of an absent rule.                               *)
(***************************************************************************)
Away(d, t) ==
    /\ t > history.held[d] /\ t > graceEnd + MuteWindow
    /\ t > engineStart + rules[d].for
    /\ \A h \in Heartbeats(d) : t > history.stood[h] + rules[d].for

Told(d, a, b) == Alive(d, a) \/ (now < b /\ \E f \in flows : f.fp = d)

AwayInv ==
    \A d \in DOMAIN last :
        /\ last[d] # 0 => /\ engineStart <= last[d]
                          /\ \E h \in Heartbeats(d) : last[d] <= history.stood[h]
        /\ Away(d, tickedAt) => Told(d, tickedAt, now + 1)
        /\ \A t \in 0..now : t + AbsentTick <= now /\ Away(d, t) => Told(d, t, t + AbsentTick)

\* An absent rule that has fired has had no heartbeat that it should have seen.
Missed(d) ==
    /\ now > engineStart + rules[d].for
    /\ rules[d].for >= Unobserved =>
          \A h \in Heartbeats(d) \cap cond : now <= Later(history.down[h], graceEnd) + Unobserved

AbsentInv == \A f \in flows : f.stage = "begin" /\ f.fp \in DOMAIN last => Missed(f.fp)

(***************************************************************************)
(* The stamps of a rule are those of the last observations that it counts. *)
(***************************************************************************)
window(d) == rules[d].window

LogInv ==
    /\ IsFiniteSet(history.log)
    /\ \A o \in history.log : /\ o.at \in Nat /\ o.at <= now
                              /\ o.no \in Nat /\ o.no < Cardinality(history.log)

Entries(d, g) == {o \in history.log : o.fp \in groupsOf(rules[d])[g]}

Lists(h, ts) ==
    /\ \A i, j \in DOMAIN ts : h[i] = h[j] => i = j
    /\ \A i \in DOMAIN ts : h[i].at = ts[i]

\* Stamps are out of order by the wait for the lock at most.
Ordered(ts, t) ==
    /\ \A i \in DOMAIN ts : ts[i] <= t
    /\ \A i, j \in DOMAIN ts : i < j => ts[i] <= ts[j] + slack

\* A list of stamps stands for the observations E, the old ones aside.
StandsFor(ts, E, W) ==
    /\ ts \in Seq(Nat) /\ Ordered(ts, now)
    /\ \E h \in [DOMAIN ts -> E] :
          /\ Lists(h, ts)
          /\ \A o \in E : o.at + W < now \/ \E i \in DOMAIN ts : h[i] = o

SeenInv ==
    \A d \in DOMAIN seen :
        /\ DOMAIN seen[d] = DOMAIN groupsOf(rules[d])
        /\ \A g \in DOMAIN seen[d] : StandsFor(seen[d][g], Entries(d, g), window(d))

InLog(d, g, t) == {o \in Entries(d, g) : o.at >= t}
Meets(d, t) ==
    IF rules[d].type = "count" THEN Cardinality(InLog(d, 1, t)) >= rules[d].threshold
    ELSE \A g \in DOMAIN groupsOf(rules[d]) : InLog(d, g, t) # {}

from(d, extra) == IF now < window(d) + extra THEN 0 ELSE now - window(d) - extra

BegunInv ==
    \A f \in flows :
        f.stage = "begin" /\ f.fp \in DOMAIN seen => Meets(f.fp, from(f.fp, 2 * slack))

-----------------------------------------------------------------------------
(***************************************************************************)
(* Constants, frames and history.                                          *)
(***************************************************************************)
\* What the assumptions say of the configuration in force.
LEMMA Bounds ==
    ASSUME PathType
    PROVE  /\ Resync \in Nat /\ Resync >= 1 /\ MuteWindow \in Nat /\ ResolveTTL \in Nat
           /\ Grace \in Nat /\ Stall \in Nat /\ AbsentTick \in Nat /\ AbsentTick >= 1
           /\ slack \in Nat /\ graceEnd \in Nat /\ graceEnd >= engineStart
           /\ config.watched \subseteq FP /\ DOMAIN rules \subseteq FP
           /\ \A fp \in config.watched : fp \notin DOMAIN rules
           /\ \A fp \in config.watched, d \in DOMAIN rules : ObjectOf[fp] # ObjectOf[d]
           /\ cond \subseteq config.watched
BY EmitConstants, StoreConstants, EngineConstants
   DEF PathType, slack, graceEnd, rules, cond, IsMap

\* The steps that leave emissions, inhibitions, the engine and the clock alone.
IdleStep ==
    \/ Boot
    \/ \E fp \in FP : Begins(fp) \/ Ends(fp)
    \/ Sweep
    \/ \E r \in Rules : runEscalations(r)
    \/ ChangeSilences
    \/ Sync

LEMMA IdleFacts ==
    ASSUME IdleStep
    PROVE  /\ UNCHANGED <<flows, activeInhibits, now, config>>
           /\ UNCHANGED engineVars
<1>1. CASE Boot
  BY <1>1, Zenon DEF Boot, ColdStart, Restore
<1>2. CASE \E fp \in FP : Begins(fp)
  BY <1>2, Zenon DEF Begins, storeVars
<1>3. CASE \E fp \in FP : Ends(fp)
  BY <1>3, Zenon DEF Ends, storeVars, ResolveObject
<1>4. CASE Sweep
  BY <1>4, Zenon DEF Sweep, storeVars, SweepResolved, CleanOldHistory
<1>5. CASE \E r \in Rules : runEscalations(r)
  BY <1>5, Zenon DEF runEscalations, MarkOverdue
<1>6. CASE ChangeSilences
  BY <1>6, Zenon DEF ChangeSilences, storeVars
<1>7. CASE Sync
  BY <1>7, Zenon DEF Sync, storeVars, emitVars
<1> QED BY <1>1, <1>2, <1>3, <1>4, <1>5, <1>6, <1>7 DEF IdleStep

LEMMA EnterFrame ==
    ASSUME NEW fp, NEW others, Enter(fp, others)
    PROVE  now' = now /\ booting' = booting
BY Zenon DEF Enter, Refresh, Seed, Touch, storeVars

LEMMA Steps ==
    ASSUME EmitNext
    PROVE  /\ Note
           /\ \/ IdleStep
              \/ \E fp \in FP : Deliver(fp)
              \/ \E f \in flows : Begin(f) \/ Observe(f) \/ Route(f) \/ Send(f)
              \/ Tock
              \/ TimePasses
BY Zenon DEF EmitNext, IdleStep

LEMMA Frame ==
    ASSUME EmitNext
    PROVE  /\ config' = config /\ engineStart' = engineStart
           /\ now' = now \/ TimePasses
<1>1. CASE IdleStep
  BY <1>1, IdleFacts DEF engineVars
<1>2. CASE \E fp \in FP : Deliver(fp)
  BY <1>2, EnterFrame DEF Deliver, engineVars
<1>3. CASE \E f \in flows : Begin(f)
  BY <1>3, EnterFrame DEF Begin, engineVars
<1>4. CASE \E f \in flows : Observe(f)
  BY <1>4, Zenon DEF Observe, Record, storeVars
<1>5. CASE \E f \in flows : Route(f)
  BY <1>5, Zenon DEF Route, engineVars, storeVars
<1>6. CASE \E f \in flows : Send(f)
  BY <1>6, Zenon DEF Send, engineVars, ShouldSend, Refresh, Touch, storeVars
<1>7. CASE Tock
  BY <1>7, Zenon DEF Tock, storeVars
<1>8. CASE TimePasses
  BY <1>8, Zenon DEF TimePasses, engineVars
<1> QED BY <1>1, <1>2, <1>3, <1>4, <1>5, <1>6, <1>7, <1>8, Steps

\* Every step notes the state before it.
LEMMA Notes ==
    ASSUME PathType, Note
    PROVE  /\ \A fp \in FP :
                 /\ history'.down[fp] = IF fp \in cond THEN history.down[fp] ELSE now
                 /\ history'.stood[fp] = IF fp \in cond THEN now ELSE history.stood[fp]
                 /\ history'.held[fp] = IF Free(fp) THEN history.held[fp] ELSE now
           /\ history'.down \in [FP -> Nat] /\ history'.stood \in [FP -> Nat]
           /\ history'.held \in [FP -> Nat]
BY DEF PathType, Note, Noted

\* What depends on the configuration and the start only stays.
LEMMA Same ==
    ASSUME config' = config, engineStart' = engineStart
    PROVE  /\ rules' = rules /\ inhibitions' = inhibitions
           /\ slack' = slack /\ graceEnd' = graceEnd
           /\ \A types : rulesOf(types)' = rulesOf(types)
           /\ \A i, fp : inhibitionKey(i, fp)' = inhibitionKey(i, fp)
BY DEF rules, inhibitions, slack, graceEnd, rulesOf, inhibitionKey

-----------------------------------------------------------------------------
(***************************************************************************)
(* The store.                                                              *)
(***************************************************************************)
LEMMA PutFacts ==
    ASSUME NEW f, NEW S, NEW T, IsMap(f, S, T), NEW k \in S, NEW v \in T,
           NEW g, g = Put(f, k, v)
    PROVE  /\ IsMap(g, S, T)
           /\ DOMAIN g = DOMAIN f \cup {k} /\ g[k] = v
           /\ \A x \in DOMAIN f : x # k => g[x] = f[x]
BY DEF IsMap, Put

LEMMA WithoutFacts ==
    ASSUME NEW f, NEW S, NEW T, IsMap(f, S, T), NEW K, NEW g, g = Without(f, K)
    PROVE  /\ IsMap(g, S, T)
           /\ DOMAIN g = DOMAIN f \ K
           /\ \A x \in DOMAIN f \ K : g[x] = f[x]
BY DEF IsMap, Without, Restrict

\* The ways in which a step treats the store.
Restored ==
    /\ booting /\ ~booting'
    /\ IsMap(active', FP, Alerts) /\ IsMap(lastSent', FP, Times)
    /\ \A fp \in DOMAIN lastSent' : lastSent'[fp] <= now
Seeded(fp) ==
    /\ inGrace
    /\ lastSent' = Put(lastSent, fp, now) /\ UNCHANGED <<active, booting>>
Touched(fp) ==
    /\ mutedLocked(fp) /\ fp \in DOMAIN active
    /\ active' = [active EXCEPT ![fp].endsAt = now + ResolveTTL]
    /\ UNCHANGED <<lastSent, booting>>
Sent(fp) ==
    /\ ~mutedLocked(fp)
    /\ lastSent' = Put(lastSent, fp, now)
    /\ active' = Put(active, fp, [startsAt |-> startOf(fp, now), endsAt |-> now + ResolveTTL])
    /\ UNCHANGED booting
Dropped(F) ==
    /\ active' = Without(active, F) /\ lastSent' = Without(lastSent, F)
    /\ UNCHANGED booting
Gone(fp) ==
    /\ Dropped(OfObject(ObjectOf[fp]))
    /\ fp \in cond /\ \A x \in cond' : ObjectOf[x] # ObjectOf[fp]
Cleaned(F) == lastSent' = Without(lastSent, F) /\ UNCHANGED <<active, booting>>
Spared == UNCHANGED <<active, lastSent>> /\ (booting' = booting \/ (booting /\ ~booting'))

LEMMA RestoreFacts ==
    ASSUME PathType, Clocks, Boot
    PROVE  Restored \/ Spared
<1>1. CASE ColdStart
  BY <1>1 DEF ColdStart, Spared
<1>2. CASE \E s \in Snapshots : Restore(s)
  <2>1. PICK s \in Snapshots : Restore(s)
    BY <1>2
  <2>2. /\ IsMap(s.active, FP, Alerts) /\ IsMap(s.lastSent, FP, Times)
        /\ now \in Nat /\ ResolveTTL \in Nat /\ booting /\ ~booting'
        /\ active = EmptyMap /\ lastSent = EmptyMap
    BY <2>1, StoreConstants DEF IsSnapshot, PathType, Clocks, Restore
  <2>3. DOMAIN active = {} /\ DOMAIN lastSent = {}
    BY <2>2 DEF EmptyMap
  <2>4. /\ DOMAIN lastSent' \subseteq DOMAIN s.lastSent
        /\ \A fp \in DOMAIN lastSent' : lastSent'[fp] = s.lastSent[fp] /\ s.lastSent[fp] <= now
        /\ lastSent' = [fp \in DOMAIN lastSent' |-> lastSent'[fp]]
    BY <2>1, <2>3 DEF Restore
  <2>5. IsMap(lastSent', FP, Times)
    BY <2>2, <2>4 DEF IsMap
  <2>6. /\ DOMAIN active' \subseteq DOMAIN s.active
        /\ \A fp \in DOMAIN active' : active'[fp] = restored(s.active[fp])
        /\ active' = [fp \in DOMAIN active' |-> active'[fp]]
    BY <2>1, <2>3 DEF Restore, Admitted
  <2>7. ASSUME NEW a \in Alerts PROVE restored(a) \in Alerts
    BY <2>2, <2>7 DEF restored, Alerts, Times
  <2>8. \A fp \in DOMAIN active' : active'[fp] \in Alerts
    BY <2>2, <2>6, <2>7 DEF IsMap
  <2>9. IsMap(active', FP, Alerts)
    BY <2>2, <2>6, <2>8 DEF IsMap
  <2> QED BY <2>2, <2>4, <2>5, <2>9 DEF Restored
<1> QED BY <1>1, <1>2 DEF Boot

LEMMA EnterStore ==
    ASSUME NEW fp, NEW others, Enter(fp, others)
    PROVE  Seeded(fp) \/ Touched(fp) \/ Spared
<1>1. CASE inGrace /\ Seed(fp)
  BY <1>1, Zenon DEF Seed, Seeded
<1>2. CASE Refresh(fp)
  BY <1>2, Zenon DEF Refresh, Touch, Touched, Spared, storeVars
<1>3. CASE UNCHANGED storeVars
  BY <1>3, Zenon DEF Spared, storeVars
<1> QED BY <1>1, <1>2, <1>3, Zenon DEF Enter

LEMMA StoreMoves ==
    ASSUME PathType, Clocks, FlowInv, EmitNext
    PROVE  \/ Restored \/ Spared
           \/ \E fp \in FP : Seeded(fp) \/ Touched(fp) \/ Gone(fp)
           \/ \E f \in flows : Send(f) /\ Sent(f.fp)
           \/ Dropped(Expired)
           \/ \E F : Cleaned(F)
<1>1. CASE IdleStep
  <2>1. CASE Boot
    BY <2>1, RestoreFacts
  <2>2. CASE \E fp \in FP : Begins(fp)
    BY <2>2, Zenon DEF Begins, storeVars, Spared
  <2>3. CASE \E fp \in FP : Ends(fp)
    <3>1. PICK fp \in FP : Ends(fp)
      BY <2>3
    <3>2. CASE UNCHANGED storeVars
      BY <3>2, Zenon DEF storeVars, Spared
    <3>3. CASE /\ delivered' = Without(delivered, {x \in cond : ObjectOf[x] = ObjectOf[fp]})
               /\ ResolveObject(ObjectOf[fp])
      <4>1. Dropped(OfObject(ObjectOf[fp]))
        BY <3>3, Zenon DEF ResolveObject, dropLocked, Dropped
      <4>2. cond' = cond \ {x \in cond : ObjectOf[x] = ObjectOf[fp]}
        BY <3>3 DEF Without, Restrict, cond
      <4> QED BY <3>1, <4>1, <4>2 DEF Gone, Ends
    <3> QED BY <3>1, <3>2, <3>3, Zenon DEF Ends, storeVars
  <2>4. CASE Sweep
    BY <2>4, Zenon DEF Sweep, SweepResolved, dropLocked, CleanOldHistory, storeVars, Spared, Dropped,
       Cleaned
  <2>5. CASE \E r \in Rules : runEscalations(r)
    BY <2>5, Zenon DEF runEscalations, MarkOverdue, Spared
  <2>6. CASE ChangeSilences \/ Sync
    BY <2>6, Zenon DEF ChangeSilences, Sync, storeVars, Spared
  <2> QED BY <1>1, <2>1, <2>2, <2>3, <2>4, <2>5, <2>6 DEF IdleStep
<1>2. CASE \E fp \in FP : Deliver(fp)
  BY <1>2, EnterStore, Zenon DEF Deliver
<1>3. CASE \E f \in flows : Begin(f)
  <2>1. PICK f \in flows : Begin(f)
    BY <1>3
  <2>2. f.fp \in FP
    BY DEF PathType, Flows
  <2> QED BY <2>1, <2>2, EnterStore, Zenon DEF Begin
<1>4. CASE \E f \in flows : Observe(f) \/ Route(f)
  BY <1>4, Zenon DEF Observe, Route, storeVars, Spared
<1>5. CASE \E f \in flows : Send(f)
  <2>1. PICK f \in flows : Send(f)
    BY <1>5
  <2>2. f.fp \in FP
    BY DEF PathType, Flows
  <2>3. CASE ShouldSend(f.fp, now)
    BY <2>1, <2>3, Zenon DEF ShouldSend, Sent
  <2>4. CASE Refresh(f.fp)
    BY <2>2, <2>4, Zenon DEF Refresh, Touch, Touched, Spared, storeVars
  <2> QED BY <2>1, <2>3, <2>4, Zenon DEF Send
<1>6. CASE Tock
  BY <1>6, Zenon DEF Tock, storeVars, Spared
<1>7. CASE TimePasses
  BY <1>7, Zenon DEF TimePasses, Tick, Spared
<1> QED BY <1>1, <1>2, <1>3, <1>4, <1>5, <1>6, <1>7, Steps

-----------------------------------------------------------------------------
(***************************************************************************)
(* Emissions and conditions.                                               *)
(***************************************************************************)
\* Where an emission that a step adds or moves on comes from.
NewFlow(f) ==
    /\ f \in Flows /\ f.at = now
    /\ \/ f.stage = "begin" /\ f.fp \in evalAbsent /\ Tock
       \/ f.stage = "begin" /\ \E g \in flows : f.fp \in firedBy(g.fp, g.at) /\ Observe(g)
       \/ f.stage = "observe" /\ f.fp \in cond /\ DOMAIN rules # {} /\ Deliver(f.fp)
       \/ f.stage = "route" /\ f.fp \in cond /\ DOMAIN rules = {}
       \/ f.stage = "route" /\ \E g \in flows : g.fp = f.fp /\ (Begin(g) \/ Observe(g))
       \/ f.stage = "send" /\ \E g \in flows : g.fp = f.fp /\ g.stage = "route" /\ Route(g)

LEMMA EnterFlows ==
    ASSUME PathType, NEW fp \in FP, NEW others, Enter(fp, others)
    PROVE  \/ flows' = others
           \/ \E f \in Flows :
                 /\ flows' = others \cup {f} /\ f.fp = fp /\ f.at = now
                 /\ f.stage = IF DOMAIN rules = {} \/ fp \in DOMAIN rules THEN "route" ELSE "observe"
<1> DEFINE f == [fp |-> fp, at |-> now,
                 stage |-> IF DOMAIN rules = {} \/ fp \in DOMAIN rules THEN "route" ELSE "observe"]
<1>1. f \in Flows
  BY DEF Flows, PathType
<1>2. flows' = others \/ flows' = others \cup {f}
  BY Zenon DEF Enter
<1> QED BY <1>1, <1>2

LEMMA BegunFlows ==
    ASSUME PathType, NEW D, D \subseteq DOMAIN seen \cup DOMAIN last
    PROVE  \A f \in begun(D) : /\ f \in Flows /\ f.at = now /\ f.stage = "begin"
                               /\ f.fp \in D
<1>1. DOMAIN seen \cup DOMAIN last \subseteq FP /\ now \in Nat
  BY Bounds DEF PathType, rulesOf
<1> QED BY <1>1 DEF begun, Flows

LEMMA NewFlows ==
    ASSUME PathType, FlowInv, EmitNext
    PROVE  \A f \in flows' : f \in flows \/ NewFlow(f)
<1>1. CASE IdleStep
  BY <1>1, IdleFacts
<1>2. CASE \E fp \in FP : Deliver(fp)
  <2>1. PICK fp \in FP : Deliver(fp)
    BY <1>2
  <2>2. fp \in cond /\ fp \notin DOMAIN rules
    BY <2>1, Bounds DEF Deliver
  <2>3. Enter(fp, flows)
    BY <2>1 DEF Deliver
  <2>4. CASE flows' = flows
    BY <2>4
  <2>5. CASE \E f \in Flows :
                /\ flows' = flows \cup {f} /\ f.fp = fp /\ f.at = now
                /\ f.stage = IF DOMAIN rules = {} \/ fp \in DOMAIN rules THEN "route" ELSE "observe"
    BY <2>1, <2>2, <2>5 DEF NewFlow
  <2> QED BY <2>3, <2>4, <2>5, EnterFlows
<1>3. CASE \E f \in flows : Begin(f)
  <2>1. PICK f \in flows : Begin(f)
    BY <1>3
  <2>2. f.fp \in FP /\ f.stage = "begin" /\ f.fp \in DOMAIN rules /\ Enter(f.fp, flows \ {f})
    BY <2>1 DEF PathType, Flows, FlowInv, Begin
  <2> QED BY <2>1, <2>2, EnterFlows DEF NewFlow
<1>4. CASE \E f \in flows : Observe(f)
  <2>1. PICK f \in flows : Observe(f)
    BY <1>4
  <2> DEFINE g == [f EXCEPT !.stage = "route", !.at = now]
  <2>2. f \in Flows /\ f.stage = "observe" /\ now \in Nat
    BY <2>1 DEF PathType, Observe
  <2>3. g \in Flows /\ g.at = now /\ g.stage = "route" /\ g.fp = f.fp
    BY <2>2 DEF Flows
  <2>4. NewFlow(g)
    BY <2>1, <2>2, <2>3 DEF NewFlow
  <2>5. firedBy(f.fp, f.at) \subseteq DOMAIN seen
    BY DEF firedBy
  <2>6. \A h \in begun(firedBy(f.fp, f.at)) : NewFlow(h)
    BY <2>1, <2>5, BegunFlows DEF NewFlow
  <2>7. flows' = (flows \ {f}) \cup {g} \cup begun(firedBy(f.fp, f.at))
    BY <2>1 DEF Observe
  <2> QED BY <2>4, <2>6, <2>7
<1>5. CASE \E f \in flows : Route(f)
  <2>1. PICK f \in flows : Route(f)
    BY <1>5
  <2> DEFINE g == [f EXCEPT !.stage = "send"]
  <2>2. f \in Flows /\ f.stage = "route" /\ f.at = now
    BY <2>1 DEF PathType, Route, FlowInv
  <2>3. g \in Flows /\ g.at = now /\ g.stage = "send" /\ g.fp = f.fp
    BY <2>2 DEF Flows
  <2>4. NewFlow(g)
    BY <2>1, <2>2, <2>3 DEF NewFlow
  <2>5. flows' = flows \ {f} \/ flows' = (flows \ {f}) \cup {g}
    BY <2>1 DEF Route
  <2> QED BY <2>4, <2>5
<1>6. CASE \E f \in flows : Send(f)
  BY <1>6 DEF Send
<1>7. CASE Tock
  <2>1. evalAbsent \subseteq DOMAIN last /\ flows' = flows \cup begun(evalAbsent)
    BY <1>7 DEF evalAbsent, Tock
  <2>2. \A h \in begun(evalAbsent) : NewFlow(h)
    BY <1>7, <2>1, BegunFlows DEF NewFlow
  <2> QED BY <2>1, <2>2
<1>8. CASE TimePasses
  BY <1>8 DEF TimePasses
<1> QED BY <1>1, <1>2, <1>3, <1>4, <1>5, <1>6, <1>7, <1>8, Steps

\* What a step does to the conditions that stand.
LEMMA CondMoves ==
    ASSUME PathType, EmitNext
    PROVE  /\ IsMap(delivered', config.watched, Nat)
           /\ \A fp \in cond' : \/ fp \in cond /\ delivered'[fp] = delivered[fp]
                                \/ fp \in cond /\ delivered'[fp] = now /\ Deliver(fp)
                                \/ fp \notin cond /\ delivered'[fp] = 0 /\ Begins(fp)
<1>0. IsMap(delivered, config.watched, Nat) /\ now \in Nat /\ cond = DOMAIN delivered
      /\ cond' = DOMAIN delivered'
  BY DEF PathType, cond
<1>1. CASE \E fp \in FP : Begins(fp)
  <2>1. PICK fp \in FP : Begins(fp)
    BY <1>1
  <2>2. fp \in config.watched \ cond /\ delivered' = Put(delivered, fp, 0) /\ 0 \in Nat
    BY <2>1 DEF Begins
  <2>3. /\ IsMap(delivered', config.watched, Nat) /\ cond' = cond \cup {fp} /\ delivered'[fp] = 0
        /\ \A x \in cond : x # fp => delivered'[x] = delivered[x]
    BY <1>0, <2>2, Zenon DEF Put, IsMap
  <2> QED BY <2>1, <2>2, <2>3
<1>2. CASE \E fp \in FP : Ends(fp)
  <2>1. PICK K : delivered' = Without(delivered, K)
    BY <1>2 DEF Ends
  <2>2. /\ IsMap(delivered', config.watched, Nat) /\ cond' = cond \ K
        /\ \A x \in cond \ K : delivered'[x] = delivered[x]
    BY <1>0, <2>1, WithoutFacts
  <2> QED BY <2>2
<1>3. CASE \E fp \in FP : Deliver(fp)
  <2>1. PICK fp \in FP : Deliver(fp)
    BY <1>3
  <2>2. fp \in cond /\ delivered' = [delivered EXCEPT ![fp] = now]
    BY <2>1 DEF Deliver
  <2> QED BY <1>0, <2>1, <2>2 DEF IsMap
<1>4. CASE delivered' = delivered
  BY <1>0, <1>4
<1>5. delivered' = delivered \/ \E fp \in FP : Begins(fp) \/ Ends(fp) \/ Deliver(fp)
  BY Zenon DEF EmitNext, Boot, Begin, Observe, Route, Send, Tock, Sweep, runEscalations,
     ChangeSilences, Sync, TimePasses, emitVars
<1> QED BY <1>1, <1>2, <1>3, <1>4, <1>5

-----------------------------------------------------------------------------
(***************************************************************************)
(* Types, clocks, emissions and seeds.                                     *)
(***************************************************************************)
LEMMA StoreKept ==
    ASSUME PathType, Clocks, FlowInv, Seeds, EmitNext
    PROVE  /\ IsMap(active', FP, Alerts) /\ IsMap(lastSent', FP, Times)
           /\ Seeds'
<1>0. /\ IsMap(active, FP, Alerts) /\ IsMap(lastSent, FP, Times)
      /\ now \in Nat /\ ResolveTTL \in Nat /\ graceEnd \in Nat /\ Times = Nat
  BY Bounds DEF PathType, Times
<1>1. graceEnd' = graceEnd /\ now' >= now /\ now' \in Nat
  BY <1>0, Frame, Same DEF TimePasses, Tick
<1>2. \A fp \in DOMAIN lastSent : lastSent[fp] \in Nat
  BY <1>0 DEF IsMap
<1>3. CASE Restored
  <2>1. now <= graceEnd
    BY <1>3, <1>0, EmitConstants DEF Restored, Clocks, graceEnd, PathType
  <2>2. \A fp \in DOMAIN lastSent' : lastSent'[fp] \in Nat
    BY <1>0, <1>3 DEF Restored, IsMap
  <2>3. Seeds'
    BY <1>0, <1>1, <1>3, <2>1, <2>2 DEF Restored, Seeds
  <2> QED BY <1>3, <2>3 DEF Restored
<1>4. CASE Spared
  <2>1. Seeds'
    BY <1>0, <1>1, <1>2, <1>4 DEF Spared, Seeds
  <2> QED BY <1>0, <1>4, <2>1 DEF Spared
<1>5. CASE \E fp \in FP : Seeded(fp)
  <2>1. PICK fp \in FP : Seeded(fp)
    BY <1>5
  <2>2. /\ IsMap(lastSent', FP, Times) /\ DOMAIN lastSent' = DOMAIN lastSent \cup {fp}
        /\ lastSent'[fp] = now /\ \A x \in DOMAIN lastSent : x # fp => lastSent'[x] = lastSent[x]
    BY <1>0, <2>1, SMT DEF Seeded, Put, IsMap
  <2>3. active' = active /\ booting' = booting /\ now < graceEnd
    BY <2>1 DEF Seeded, inGrace
  <2> QED BY <1>0, <1>1, <1>2, <2>2, <2>3 DEF Seeds
<1>6. CASE \E fp \in FP : Touched(fp)
  <2>1. PICK fp \in FP : Touched(fp)
    BY <1>6
  <2>2. /\ active' = [active EXCEPT ![fp].endsAt = now + ResolveTTL] /\ fp \in DOMAIN active
        /\ lastSent' = lastSent /\ booting' = booting
    BY <2>1 DEF Touched
  <2>3. active[fp] \in Alerts
    BY <1>0, <2>2 DEF IsMap
  <2>4. [active[fp] EXCEPT !.endsAt = now + ResolveTTL] \in Alerts
    BY <1>0, <2>3 DEF Alerts
  <2>5. IsMap(active', FP, Alerts) /\ DOMAIN active' = DOMAIN active
    BY <1>0, <2>2, <2>4 DEF IsMap
  <2> QED BY <1>0, <1>1, <1>2, <2>2, <2>5 DEF Seeds
<1>7. CASE \E fp \in FP : Sent(fp)
  <2>1. PICK fp \in FP : Sent(fp)
    BY <1>7
  <2> DEFINE v == [startsAt |-> startOf(fp, now), endsAt |-> now + ResolveTTL]
  <2>2. startOf(fp, now) \in Nat
    BY <1>0 DEF startOf, IsMap, Alerts
  <2>3. v \in Alerts
    BY <1>0, <2>2 DEF Alerts
  <2>4. active' = Put(active, fp, v) /\ lastSent' = Put(lastSent, fp, now) /\ booting' = booting
    BY <2>1 DEF Sent
  <2> HIDE DEF v
  <2>5. /\ IsMap(lastSent', FP, Times) /\ DOMAIN lastSent' = DOMAIN lastSent \cup {fp}
        /\ lastSent'[fp] = now /\ \A x \in DOMAIN lastSent : x # fp => lastSent'[x] = lastSent[x]
    BY <1>0, <2>4, PutFacts
  <2>6. IsMap(active', FP, Alerts) /\ DOMAIN active' = DOMAIN active \cup {fp}
    BY <1>0, <2>3, <2>4, SMT DEF Put, IsMap
  <2> QED BY <1>0, <1>1, <1>2, <2>4, <2>5, <2>6 DEF Seeds
<1>8. CASE \E F : Dropped(F) \/ Cleaned(F)
  <2>1. PICK F : Dropped(F) \/ Cleaned(F)
    BY <1>8
  <2>2. /\ IsMap(lastSent', FP, Times) /\ DOMAIN lastSent' = DOMAIN lastSent \ F
        /\ \A x \in DOMAIN lastSent \ F : lastSent'[x] = lastSent[x]
    BY <1>0, <2>1, SMT DEF Dropped, Cleaned, Without, Restrict, IsMap
  <2>3. IsMap(active', FP, Alerts) /\ (DOMAIN active' = DOMAIN active \ F \/ active' = active)
    BY <1>0, <2>1, WithoutFacts DEF Dropped, Cleaned
  <2>4. booting' = booting
    BY <2>1 DEF Dropped, Cleaned
  <2> QED BY <1>0, <1>1, <1>2, <2>2, <2>3, <2>4 DEF Seeds
<1>9. \A f \in flows : f.fp \in FP
  BY DEF PathType, Flows
<1> QED BY <1>3, <1>4, <1>5, <1>6, <1>7, <1>8, <1>9, StoreMoves DEF Gone

\* While it boots, the controller has nothing under way.
LEMMA BootingKept ==
    ASSUME PathType, Clocks, EmitNext, booting'
    PROVE  UNCHANGED <<active, lastSent, delivered, flows, now>> /\ booting
<1>0. ~Boot
  BY DEF Boot, ColdStart, Restore
<1>1. booting
  <2>1. CASE IdleStep
    BY <1>0, <2>1, Zenon DEF IdleStep, Begins, Ends, Sweep, runEscalations, ChangeSilences, Sync, storeVars,
       ResolveObject, MarkOverdue, SweepResolved, CleanOldHistory
  <2>2. CASE \E fp \in FP : Deliver(fp)
    BY <2>2, EnterFrame DEF Deliver
  <2>3. CASE \E f \in flows : Begin(f)
    BY <2>3, EnterFrame DEF Begin
  <2>4. CASE \E f \in flows : Observe(f) \/ Route(f) \/ Send(f)
    BY <2>4, Zenon DEF Observe, Route, Send, ShouldSend, Refresh, Touch, storeVars
  <2>5. CASE Tock \/ TimePasses
    BY <2>5, Zenon DEF Tock, TimePasses, Tick, storeVars
  <2> QED BY <2>1, <2>2, <2>3, <2>4, <2>5, Steps
<1>2. cond = {} /\ flows = {} /\ now = engineStart
  BY <1>1 DEF Clocks
<1>3. ~Tock
  BY <1>2, EngineConstants DEF Tock, TickDue, PathType, Clocks
<1>4. ~TimePasses /\ ~\E fp \in FP : Deliver(fp)
  BY <1>1, <1>2 DEF TimePasses, Deliver
<1>5. ~(ChangeSilences \/ Sweep \/ \E fp \in FP : Begins(fp) \/ Ends(fp))
  BY <1>1, <1>2 DEF ChangeSilences, Sweep, Begins, Ends
<1>6. (\E r \in Rules : runEscalations(r)) \/ Sync
  BY <1>0, <1>1, <1>2, <1>3, <1>4, <1>5, Steps DEF IdleStep
<1> QED BY <1>1, <1>6, Zenon DEF runEscalations, MarkOverdue, Sync, storeVars, emitVars

\* Only the ticker evaluates the absent rules, only an observation is recorded.
LEMMA EngineMoves ==
    ASSUME EmitNext
    PROVE  /\ tickedAt' = tickedAt \/ (Tock /\ tickedAt' = now)
           /\ (seen' = seen /\ last' = last) \/ \E f \in flows : Observe(f)
<1>1. CASE IdleStep
  BY <1>1, IdleFacts DEF engineVars
<1>2. CASE \E fp \in FP : Deliver(fp)
  BY <1>2, Zenon DEF Deliver, engineVars
<1>3. CASE \E f \in flows : Begin(f) \/ Route(f) \/ Send(f)
  BY <1>3, Zenon DEF Begin, Route, Send, engineVars
<1>4. CASE \E f \in flows : Observe(f)
  BY <1>4, Zenon DEF Observe, Record
<1>5. CASE Tock
  BY <1>5, Zenon DEF Tock
<1>6. CASE TimePasses
  BY <1>6, Zenon DEF TimePasses, engineVars
<1> QED BY <1>1, <1>2, <1>3, <1>4, <1>5, <1>6, Steps

LEMMA SyncerMoves ==
    ASSUME EmitNext
    PROVE  \/ UNCHANGED <<crs, crdItems, rebuiltAt>>
           \/ Sync
           \/ \E matchers \in MatcherKinds, n \in Lengths :
                 ApplyCR(matchers, config.silenceable, now + n)
           \/ ApplyCR("fine", config.silenceable, 0)
           \/ DeleteCR
<1>1. CASE Boot
  BY <1>1, Zenon DEF Boot, Replace, silenceVars
<1>2. CASE ChangeSilences
  BY <1>2, Zenon DEF ChangeSilences, AddSilence, DeleteSilence
<1>3. CASE Sweep
  BY <1>3, Zenon DEF Sweep, PruneExpired, silenceVars
<1>4. CASE \E fp \in FP : Deliver(fp) \/ Begins(fp) \/ Ends(fp)
  BY <1>4, Zenon DEF Deliver, Begins, Ends, silenceVars
<1>5. CASE \E f \in flows : Begin(f) \/ Observe(f) \/ Route(f) \/ Send(f)
  BY <1>5, Zenon DEF Begin, Observe, Route, Send, silenceVars
<1>6. CASE Tock \/ TimePasses \/ \E r \in Rules : runEscalations(r)
  BY <1>6, Zenon DEF Tock, TimePasses, runEscalations, silenceVars
<1> QED BY <1>1, <1>2, <1>3, <1>4, <1>5, <1>6, Zenon DEF EmitNext

BaseInv == PathType /\ Clocks /\ FlowInv /\ Seeds

LEMMA TypeKept ==
    ASSUME BaseInv, EmitNext
    PROVE  PathType'
<1>1. PathType /\ Clocks /\ FlowInv /\ Seeds
  BY DEF BaseInv
<1>2. config' = config /\ engineStart' = engineStart /\ (now' = now \/ TimePasses)
  BY Frame
<1>3. config' \in Configs /\ engineStart' \in Nat /\ now' \in Nat
  BY <1>1, <1>2 DEF PathType, TimePasses, Tick
<1>4. IsMap(active', FP, Alerts) /\ IsMap(lastSent', FP, Times)
  BY <1>1, StoreKept
<1>5. IsMap(delivered', config'.watched, Nat)
  BY <1>1, <1>2, CondMoves
<1>6. flows' \subseteq Flows
  BY <1>1, NewFlows DEF NewFlow, PathType
<1>7. /\ history'.down \in [FP -> Nat] /\ history'.stood \in [FP -> Nat]
      /\ history'.held \in [FP -> Nat]
  BY <1>1, Notes, Steps
<1>8. tickedAt' \in Nat
  BY <1>1, EngineMoves DEF PathType
<1>9. rebuiltAt' \in Nat
  BY <1>1, SyncerMoves DEF PathType, Sync, Rebuild, ApplyCR, DeleteCR
<1>10. rulesOf({"absent"})' = rulesOf({"absent"})
       /\ rulesOf({"count", "all"})' = rulesOf({"count", "all"})
  BY <1>2, Same
<1>11. last' \in [rulesOf({"absent"}) -> Nat] /\ DOMAIN seen' = rulesOf({"count", "all"})
  <2>1. CASE seen' = seen /\ last' = last
    BY <1>1, <2>1 DEF PathType
  <2>2. CASE \E f \in flows : Observe(f)
    <3>1. PICK f \in flows : Observe(f)
      BY <2>2
    <3>2. f.at \in Nat
      BY <1>1 DEF PathType, Flows
    <3>3. /\ seen' = [d \in DOMAIN seen |-> appended(d, f.fp, f.at)]
          /\ last' = [d \in DOMAIN last |-> IF f.fp \in rules[d].match THEN f.at ELSE last[d]]
      BY <3>1 DEF Observe, Record
    <3> QED BY <1>1, <3>2, <3>3 DEF PathType
  <2> QED BY <2>1, <2>2, EngineMoves
<1> QED BY <1>3, <1>4, <1>5, <1>6, <1>7, <1>8, <1>9, <1>10, <1>11 DEF PathType

LEMMA ClocksKept ==
    ASSUME BaseInv, EmitNext
    PROVE  Clocks'
<1>1. PathType /\ Clocks
  BY DEF BaseInv
<1>2. config' = config /\ engineStart' = engineStart /\ (now' = now \/ TimePasses)
  BY Frame
<1>3. /\ now \in Nat /\ Resync \in Nat /\ Resync >= 1 /\ AbsentTick \in Nat /\ AbsentTick >= 1
      /\ tickedAt \in Nat /\ engineStart \in Nat
      /\ \A fp \in FP : history.down[fp] \in Nat /\ history.stood[fp] \in Nat
                        /\ history.held[fp] \in Nat
      /\ \A fp \in cond : fp \in FP /\ delivered[fp] \in Nat
  BY <1>1, Bounds DEF PathType, IsMap, cond
<1>4. TimePasses => now' = now + 1
  BY DEF TimePasses, Tick
<1>5. 1 <= engineStart' /\ engineStart' <= tickedAt' /\ tickedAt' <= now'
  BY <1>1, <1>2, <1>3, <1>4, EngineMoves DEF Clocks
<1>6. DOMAIN last' # {} => now' <= tickedAt' + AbsentTick
  <2>1. DOMAIN last' = DOMAIN last
    BY EngineMoves DEF Observe, Record
  <2>2. TimePasses => ~TickDue
    BY DEF TimePasses
  <2> QED BY <1>1, <1>2, <1>3, <1>4, <2>1, <2>2, EngineMoves DEF Clocks, TickDue
<1>7. booting' => /\ now' = engineStart' /\ active' = EmptyMap /\ lastSent' = EmptyMap
                  /\ cond' = {} /\ flows' = {}
  <2> SUFFICES ASSUME booting' PROVE /\ now' = engineStart' /\ active' = EmptyMap
                                     /\ lastSent' = EmptyMap /\ cond' = {} /\ flows' = {}
    OBVIOUS
  <2>1. UNCHANGED <<active, lastSent, delivered, flows, now>> /\ booting
    BY <1>1, BootingKept
  <2> QED BY <1>1, <1>2, <2>1 DEF Clocks, cond
<1>8. ASSUME NEW fp \in cond'
      PROVE  /\ delivered'[fp] <= now'
             /\ delivered'[fp] = 0 \/ now' <= delivered'[fp] + Resync
             /\ delivered'[fp] = 0 => history'.down[fp] = now'
  <2>1. fp \in FP
    BY <1>1, TypeKept, Bounds, CondMoves DEF IsMap, cond
  <2>2. history'.down[fp] = IF fp \in cond THEN history.down[fp] ELSE now
    BY <1>1, <2>1, Notes, Steps
  <2>3. TimePasses => cond' = cond /\ delivered' = delivered
                      /\ (fp \in cond => delivered[fp] # 0 /\ now < delivered[fp] + Resync)
    BY DEF TimePasses, cond
  <2>4. CASE TimePasses
    BY <1>1, <1>3, <1>4, <2>3, <2>4 DEF Clocks
  <2>5. CASE now' = now
    <3>1. CASE fp \in cond /\ delivered'[fp] = delivered[fp]
      BY <1>1, <1>3, <2>2, <2>5, <3>1 DEF Clocks
    <3>2. CASE fp \in cond /\ delivered'[fp] = now
      BY <1>1, <1>3, <2>2, <2>5, <3>2 DEF Clocks
    <3>3. CASE fp \notin cond /\ delivered'[fp] = 0
      BY <1>3, <2>2, <2>5, <3>3
    <3> QED BY <1>1, <3>1, <3>2, <3>3, CondMoves
  <2> QED BY <1>2, <2>4, <2>5
<1>9. ASSUME NEW fp \in FP
      PROVE  /\ history'.down[fp] <= now' /\ history'.stood[fp] <= now'
             /\ history'.held[fp] <= now'
  BY <1>1, <1>2, <1>3, <1>4, Notes, Steps DEF Clocks
<1> QED BY <1>5, <1>6, <1>7, <1>8, <1>9 DEF Clocks

LEMMA FlowsKept ==
    ASSUME BaseInv, EmitNext
    PROVE  FlowInv'
<1>1. PathType /\ Clocks /\ FlowInv
  BY DEF BaseInv
<1>2. /\ config' = config /\ engineStart' = engineStart /\ (now' = now \/ TimePasses)
      /\ rules' = rules /\ slack' = slack
  BY Frame, Same
<1>3. /\ now \in Nat /\ slack \in Nat /\ engineStart \in Nat /\ Stall \in Nat
      /\ \A fp \in FP : history.stood[fp] \in Nat
      /\ \A f \in flows : f \in Flows
      /\ 1 <= engineStart /\ engineStart <= now
  BY <1>1, Bounds DEF PathType, Clocks
<1>4. \A fp \in FP : history'.stood[fp] = IF fp \in cond THEN now ELSE history.stood[fp]
  BY <1>1, Notes, Steps
<1>5. \A fp \in FP : history.stood[fp] <= history'.stood[fp]
  BY <1>1, <1>3, <1>4 DEF Clocks
<1>6. ASSUME NEW f \in flows', f \in flows
      PROVE  /\ engineStart' <= f.at /\ f.at <= now' /\ now' <= f.at + slack'
             /\ IF f.stage = "observe" THEN DOMAIN rules' # {} ELSE f.at = now'
             /\ f.fp \in config'.watched \cup DOMAIN rules'
             /\ f.fp \in DOMAIN rules' => f.stage # "observe"
             /\ f.fp \notin DOMAIN rules' =>
                   /\ f.stage # "begin"
                   /\ 1 <= history'.stood[f.fp] /\ now' <= history'.stood[f.fp] + slack'
                   /\ f.stage = "observe" => f.at <= history'.stood[f.fp]
  <2>1. f \in Flows /\ f.at \in Nat /\ f.fp \in FP
    BY <1>3, <1>6 DEF Flows
  <2>2. CASE now' = now
    BY <1>1, <1>2, <1>3, <1>4, <1>5, <1>6, <2>1, <2>2, SMTT(30) DEF FlowInv
  <2>3. CASE TimePasses
    <3>1. now' = now + 1 /\ f.stage = "observe" /\ now < f.at + Stall
      BY <1>6, <2>3 DEF TimePasses, Tick
    <3>2. slack = Stall
      BY <1>1, <1>6, <3>1 DEF FlowInv, slack
    <3> QED BY <1>1, <1>2, <1>3, <1>4, <1>5, <1>6, <2>1, <3>1, <3>2, SMTT(30) DEF FlowInv
  <2> QED BY <1>2, <2>2, <2>3
<1>7. ASSUME NEW f \in flows', NewFlow(f), f \notin flows
      PROVE  /\ engineStart' <= f.at /\ f.at <= now' /\ now' <= f.at + slack'
             /\ IF f.stage = "observe" THEN DOMAIN rules' # {} ELSE f.at = now'
             /\ f.fp \in config'.watched \cup DOMAIN rules'
             /\ f.fp \in DOMAIN rules' => f.stage # "observe"
             /\ f.fp \notin DOMAIN rules' =>
                   /\ f.stage # "begin"
                   /\ 1 <= history'.stood[f.fp] /\ now' <= history'.stood[f.fp] + slack'
                   /\ f.stage = "observe" => f.at <= history'.stood[f.fp]
  <2>1. now' = now
    BY <1>2, <1>7 DEF TimePasses
  <2>2. f.at = now /\ f.fp \in FP /\ f.stage \in {"begin", "observe", "route", "send"}
    BY <1>7 DEF NewFlow, Flows
  <2>3. engineStart' <= f.at /\ f.at <= now' /\ now' <= f.at + slack' /\ f.at = now'
    BY <1>2, <1>3, <2>1, <2>2
  <2>4. cond \subseteq config.watched /\ \A fp \in config.watched : fp \notin DOMAIN rules
    BY <1>1, Bounds
  <2>5. DOMAIN seen \cup DOMAIN last \subseteq DOMAIN rules
    BY <1>1 DEF PathType, rulesOf
  <2>6. CASE f.fp \in cond /\ f.stage \in {"observe", "route"} /\ (f.stage = "observe" => DOMAIN rules # {})
    BY <1>2, <1>3, <1>4, <2>1, <2>2, <2>3, <2>4, <2>6
  <2>7. CASE f.stage = "begin"
    BY <1>2, <1>7, <2>3, <2>5, <2>7 DEF NewFlow, evalAbsent, firedBy
  <2>8. CASE f.stage \in {"route", "send"} /\ \E g \in flows : g.fp = f.fp
    <3>1. PICK g \in flows : g.fp = f.fp
      BY <2>8
    <3>2. /\ f.fp \in config.watched \cup DOMAIN rules
          /\ f.fp \notin DOMAIN rules =>
                 1 <= history.stood[f.fp] /\ now <= history.stood[f.fp] + slack
      BY <1>1, <3>1 DEF FlowInv
    <3>3. history.stood[f.fp] \in Nat /\ history'.stood[f.fp] \in Nat
          /\ history.stood[f.fp] <= history'.stood[f.fp]
      BY <1>3, <1>4, <1>5, <2>2
    <3>4. f.fp \notin DOMAIN rules =>
             1 <= history'.stood[f.fp] /\ now <= history'.stood[f.fp] + slack
      BY <1>3, <3>2, <3>3
    <3> QED BY <1>2, <2>1, <2>3, <2>8, <3>2, <3>4
  <2> QED BY <1>7, <2>2, <2>6, <2>7, <2>8 DEF NewFlow
<1> QED BY <1>1, <1>6, <1>7, NewFlows DEF FlowInv

LEMMA BaseStep ==
    ASSUME BaseInv, EmitNext
    PROVE  BaseInv'
BY TypeKept, ClocksKept, FlowsKept, StoreKept DEF BaseInv

LEMMA BaseInit ==
    ASSUME PathInit
    PROVE  BaseInv
<1>1. /\ config \in Configs /\ now = 1 /\ booting /\ engineStart = 1 /\ tickedAt = 1 /\ rebuiltAt = 1
      /\ active = EmptyMap /\ lastSent = EmptyMap /\ delivered = EmptyMap /\ flows = {}
      /\ DOMAIN seen = rulesOf({"count", "all"}) /\ last = [d \in rulesOf({"absent"}) |-> 0]
      /\ history.down = [fp \in FP |-> 1] /\ history.stood = [fp \in FP |-> 0]
      /\ history.held = [fp \in FP |-> 1]
  BY DEF PathInit, Init, RouterInit, SilencesInit, EngineInit
<1>2. DOMAIN EmptyMap = {} /\ EmptyMap = [x \in {} |-> EmptyMap[x]]
  BY DEF EmptyMap
<1>3. \A S, T : IsMap(EmptyMap, S, T)
  BY <1>2 DEF IsMap
<1>4. PathType
  BY <1>1, <1>3 DEF PathType
<1>5. Clocks
  BY <1>1, <1>2, EngineConstants DEF Clocks, cond
<1> QED BY <1>1, <1>2, <1>4, <1>5 DEF BaseInv, FlowInv, Seeds

-----------------------------------------------------------------------------
(***************************************************************************)
(* Silences and inhibitions: what the router suppresses has a reason, and  *)
(* a reason suppresses.                                                    *)
(***************************************************************************)
LEMMA HeldStays ==
    ASSUME BaseInv, EmitNext, now' = now, NEW fp \in FP,
           ~Free(fp) \/ history.held[fp] = now
    PROVE  history'.held[fp] = now'
<1>1. PathType
  BY DEF BaseInv
<1> QED BY <1>1, Notes, Steps

LEMMA ParseFacts ==
    ASSUME NEW cr, cr.created \in Nat \ {0}, cr.until \in Nat, now \in Nat, NEW s \in parseSilence(cr)
    PROVE  /\ cr.matchers = "fine" /\ s.matches = cr.matches
           /\ now < s.until <=> now < cr.until /\ now < cr.created + MaxSilenceDuration
<1>1. cr.matchers = "fine" /\ cr.until # 0
      /\ s = [matches |-> cr.matches, until |-> IF cr.until > capAt(cr) THEN capAt(cr) ELSE cr.until]
  BY DEF parseSilence
<1>2. capAt(cr) = cr.created + MaxSilenceDuration /\ capAt(cr) \in Nat
  BY SilenceConstants DEF capAt
<1> QED BY <1>1, <1>2

LEMMA ListedSilences ==
    ASSUME BaseInv, SyncInv, NEW s \in crdItems, NEW fp \in FP, fp \in s.matches, isActive(s)
    PROVE  IsSilenced(fp) \/ history.held[fp] = now
<1>1. CASE rebuiltAt = 0
  BY <1>1 DEF SyncInv
<1>2. CASE rebuiltAt # 0
  <2>1. s \in snapshot
    BY <1>2 DEF SyncInv
  <2>2. PICK cr \in crs : s \in parseSilence(cr)
    BY <2>1 DEF snapshot
  <2>3. cr.created \in Nat \ {0} /\ cr.until \in Nat /\ now \in Nat
    BY DEF SyncInv, BaseInv, PathType
  <2> QED BY <2>2, <2>3, ParseFacts DEF isActive, IsSilenced
<1> QED BY <1>1, <1>2

LEMMA SyncStep ==
    ASSUME BaseInv, SyncInv, EmitNext
    PROVE  SyncInv'
<1>1. now \in Nat /\ now # 0 /\ rebuiltAt \in Nat
  BY DEF BaseInv, PathType, Clocks
<1>2. \A cr \in crs' : cr.created \in Nat \ {0} /\ cr.until \in Nat
  <2>1. CASE crs' = crs
    BY <2>1 DEF SyncInv
  <2>2. CASE DeleteCR
    BY <2>2 DEF DeleteCR, SyncInv
  <2>3. ASSUME NEW m, NEW until \in Nat, ApplyCR(m, config.silenceable, until)
        PROVE  \A cr \in crs' : cr.created \in Nat \ {0} /\ cr.until \in Nat
    <3>1. \E t \in Nat \ {0} :
             crs' \subseteq crs \cup {[matchers |-> m, matches |-> config.silenceable,
                                   until |-> until, created |-> t]}
      BY <1>1, <2>3 DEF ApplyCR, SyncInv
    <3> QED BY <2>3, <3>1 DEF SyncInv
  <2>4. \A n \in Lengths : now + n \in Nat
    BY <1>1, SilenceConstants
  <2> QED BY <2>1, <2>2, <2>3, <2>4, SyncerMoves DEF Sync, Rebuild
<1>3. crs' = crs => snapshot' = snapshot
  <2> SUFFICES ASSUME crs' = crs PROVE snapshot' = snapshot
    OBVIOUS
  <2>1. \A cr \in crs : parseSilence(cr)' = parseSilence(cr)
    BY DEF SyncInv, parseSilence, capAt
  <2> QED BY <2>1 DEF snapshot
<1>4. rebuiltAt' # 0 => crdItems' = snapshot'
  <2>1. CASE UNCHANGED <<crs, crdItems, rebuiltAt>>
    BY <1>3, <2>1 DEF SyncInv
  <2>2. CASE Sync
    BY <1>3, <2>2 DEF Sync, Rebuild
  <2>3. CASE rebuiltAt' = 0
    BY <2>3
  <2> QED BY <2>1, <2>2, <2>3, SyncerMoves DEF ApplyCR, DeleteCR
<1>5. ASSUME rebuiltAt' = 0, NEW s \in crdItems', NEW fp \in FP, fp \in s.matches, isActive(s)'
      PROVE  history'.held[fp] = now'
  <2>1. crdItems' = crdItems
    BY <1>1, <1>5, SyncerMoves DEF Sync, Rebuild, ApplyCR, DeleteCR
  <2>2. now' = now
    <3> SUFFICES ASSUME TimePasses PROVE FALSE
      BY Frame
    <3> QED BY <1>5 DEF TimePasses, SyncerMayWait, silenceVars
  <2>3. IsSilenced(fp) \/ history.held[fp] = now
    BY <1>5, <2>1, <2>2, ListedSilences DEF isActive
  <2> QED BY <2>2, <2>3, HeldStays DEF Free, Quieted
<1> QED BY <1>2, <1>4, <1>5 DEF SyncInv

LEMMA ArmFacts ==
    ASSUME NEW fp, maybeArmInhibition(fp)
    PROVE  /\ \A i \in DOMAIN inhibitions : fp \in inhibitions[i].source =>
                 /\ inhibitionKey(i, fp) \in DOMAIN activeInhibits'
                 /\ activeInhibits'[inhibitionKey(i, fp)] = now + inhibitions[i].duration
           /\ \A k \in DOMAIN activeInhibits : now < activeInhibits[k] => k \in DOMAIN activeInhibits'
           /\ \A k \in DOMAIN activeInhibits' :
                 \/ k \in DOMAIN activeInhibits /\ activeInhibits'[k] = activeInhibits[k]
                 \/ \E i \in DOMAIN inhibitions :
                       /\ k = inhibitionKey(i, fp) /\ fp \in inhibitions[i].source
                       /\ activeInhibits'[k] = now + inhibitions[i].duration
           /\ activeInhibits' = [k \in DOMAIN activeInhibits' |-> activeInhibits'[k]]
BY DEF maybeArmInhibition, unexpired, inhibitionKey

LEMMA InhibitMoves ==
    ASSUME BaseInv, EmitNext
    PROVE  \/ activeInhibits' = activeInhibits
           \/ \E fp \in FP : /\ maybeArmInhibition(fp)
                             /\ fp \in cond \/ \E f \in flows : f.fp = fp
<1>0. \A f \in flows : f.fp \in FP
  BY DEF BaseInv, PathType, Flows
<1>1. CASE IdleStep
  BY <1>1, IdleFacts
<1>2. CASE \E fp \in FP : Deliver(fp)
  BY <1>2, Zenon DEF Deliver, Enter, Refresh, ArmInhibitions
<1>3. CASE \E f \in flows : Begin(f)
  BY <1>0, <1>3, Zenon DEF Begin, Enter, Refresh, ArmInhibitions
<1>4. CASE \E f \in flows : Observe(f)
  BY <1>4, Zenon DEF Observe
<1>5. CASE \E f \in flows : Route(f)
  BY <1>0, <1>5, Zenon DEF Route
<1>6. CASE \E f \in flows : Send(f)
  BY <1>0, <1>6, Zenon DEF Send, Refresh, ArmInhibitions
<1>7. CASE Tock \/ TimePasses
  BY <1>7, Zenon DEF Tock, TimePasses
<1> QED BY <1>1, <1>2, <1>3, <1>4, <1>5, <1>6, <1>7, Steps

LEMMA InhibitStep ==
    ASSUME BaseInv, InhibitInv, EmitNext
    PROVE  InhibitInv'
<1>1. /\ now \in Nat /\ slack \in Nat /\ now >= 1
      /\ \A fp \in FP : history.stood[fp] \in Nat /\ history.stood[fp] <= now
      /\ \A i \in DOMAIN inhibitions : inhibitions[i].duration \in Nat
  BY Bounds, RouterConstants DEF BaseInv, PathType, Clocks, inhibitions
<1>2. /\ inhibitions' = inhibitions /\ slack' = slack /\ rules' = rules
      /\ \A i, x : inhibitionKey(i, x)' = inhibitionKey(i, x)
  BY Frame, Same
<1>3. \A fp \in FP : history'.stood[fp] = IF fp \in cond THEN now ELSE history.stood[fp]
  BY Notes, Steps DEF BaseInv
<1>4. \A k \in DOMAIN activeInhibits : activeInhibits[k] \in Nat
  BY DEF InhibitInv
<1>5. ASSUME NEW k \in DOMAIN activeInhibits', k \in DOMAIN activeInhibits,
             activeInhibits'[k] = activeInhibits[k]
      PROVE  \E i \in DOMAIN inhibitions', x \in FP : ArmedBy(k, i, x)'
  <2>1. PICK i \in DOMAIN inhibitions, x \in FP : ArmedBy(k, i, x)
    BY <1>5 DEF InhibitInv
  <2>2. CASE x \in DOMAIN rules
    BY <1>2, <2>1, <2>2 DEF ArmedBy
  <2>3. CASE 1 <= history.stood[x]
             /\ activeInhibits[k] <= history.stood[x] + slack + inhibitions[i].duration
    <3>1. activeInhibits[k] \in Nat /\ inhibitions[i].duration \in Nat
      BY <1>1, <1>4, <1>5
    <3>2. /\ 1 <= history'.stood[x]
          /\ activeInhibits'[k] <= history'.stood[x] + slack + inhibitions[i].duration
      BY <1>1, <1>3, <1>5, <2>3, <3>1
    <3> QED BY <1>2, <2>1, <3>2 DEF ArmedBy
  <2> QED BY <2>1, <2>2, <2>3 DEF ArmedBy
<1>6. CASE activeInhibits' = activeInhibits
  BY <1>2, <1>5, <1>6 DEF InhibitInv
<1>7. CASE \E fp \in FP : maybeArmInhibition(fp) /\ (fp \in cond \/ \E f \in flows : f.fp = fp)
  <2>1. PICK fp \in FP : maybeArmInhibition(fp) /\ (fp \in cond \/ \E f \in flows : f.fp = fp)
    BY <1>7
  <2>2. fp \notin DOMAIN rules => 1 <= history'.stood[fp] /\ now <= history'.stood[fp] + slack
    BY <1>1, <1>3, <2>1 DEF BaseInv, FlowInv
  <2>3. ASSUME NEW k \in DOMAIN activeInhibits', NEW i \in DOMAIN inhibitions,
               k = inhibitionKey(i, fp), fp \in inhibitions[i].source,
               activeInhibits'[k] = now + inhibitions[i].duration
        PROVE  ArmedBy(k, i, fp)' /\ activeInhibits'[k] \in Nat
    <3>1. fp \in DOMAIN rules \/
             (1 <= history'.stood[fp]
              /\ now + inhibitions[i].duration <= history'.stood[fp] + slack + inhibitions[i].duration)
      BY <1>1, <1>3, <2>2
    <3> QED BY <1>1, <1>2, <2>3, <3>1 DEF ArmedBy
  <2>4. \A k \in DOMAIN activeInhibits' : \E i \in DOMAIN inhibitions', x \in FP : ArmedBy(k, i, x)'
    BY <1>2, <1>5, <2>1, <2>3, ArmFacts
  <2>5. \A k \in DOMAIN activeInhibits' : activeInhibits'[k] \in Nat
    BY <1>4, <2>1, <2>3, ArmFacts
  <2>6. activeInhibits' = [k \in DOMAIN activeInhibits' |-> activeInhibits'[k]]
    BY <2>1, ArmFacts
  <2>7. activeInhibits' \in [DOMAIN activeInhibits' -> Nat]
    BY <2>5, <2>6
  <2> QED BY <2>4, <2>7 DEF InhibitInv
<1> QED BY <1>6, <1>7, InhibitMoves

\* What is suppressed has a reason to be quiet, or had one a moment ago.
LEMMA SuppressedIsHeld ==
    ASSUME BaseInv, SyncInv, InhibitInv, NEW fp \in FP, Suppresses(fp)
    PROVE  ~Free(fp) \/ history.held[fp] = now
<1>1. CASE silenced(fp)
  BY <1>1, ListedSilences DEF silenced, ActiveSilences, isActive, IsSilenced, Free, Quieted
<1>2. CASE inMaintenance(fp)
  <2>1. PICK w \in config.windows : fp \in w.matches /\ WindowActive(w, now)
    BY <1>2 DEF inMaintenance
  <2>2. IsWindow(w) /\ now \in Nat
    BY RouterConstants DEF BaseInv, PathType
  <2> QED BY <2>1, <2>2, WindowsMeanWhatTheySay DEF Free, Quieted
<1>3. CASE inhibited(fp)
  <2>1. PICK i \in DOMAIN inhibitions :
           /\ fp \in inhibitions[i].target
           /\ inhibitionKey(i, fp) \in DOMAIN activeInhibits
           /\ now < activeInhibits[inhibitionKey(i, fp)]
    BY <1>3 DEF inhibited
  <2>2. PICK j \in DOMAIN inhibitions, x \in FP : ArmedBy(inhibitionKey(i, fp), j, x)
    BY <2>1 DEF InhibitInv
  <2>3. j = i /\ inhibitions[i].equal[x] = inhibitions[i].equal[fp] /\ x \in inhibitions[i].source
    BY <2>2 DEF ArmedBy, inhibitionKey
  <2>4. <<i, x>> \in Inhibitors(fp) /\ <<i, x>>[1] = i /\ <<i, x>>[2] = x
    BY <2>1, <2>3 DEF Inhibitors
  <2>5. x \in DOMAIN rules \/ (history.stood[x] # 0
                               /\ now < history.stood[x] + slack + inhibitions[i].duration)
    <3>1. /\ now \in Nat /\ slack \in Nat /\ history.stood[x] \in Nat
          /\ inhibitions[i].duration \in Nat /\ activeInhibits[inhibitionKey(i, fp)] \in Nat
      BY <2>1, Bounds, RouterConstants DEF BaseInv, PathType, inhibitions, InhibitInv
    <3> QED BY <2>1, <2>2, <2>3, <3>1 DEF ArmedBy
  <2> QED BY <2>4, <2>5 DEF Free, MayBeInhibited
<1> QED BY <1>1, <1>2, <1>3 DEF Suppresses

\* The other way: what has a reason to be quiet is suppressed.
LEMMA QuietedIsSuppressed ==
    ASSUME BaseInv, SyncInv, NEW fp \in FP, Quieted(fp), rebuiltAt # 0 \/ crs = {}
    PROVE  Suppresses(fp)
<1>1. CASE \E s \in config.silences : fp \in s.matches /\ now < s.until
  BY <1>1 DEF Suppresses, silenced, isActive
<1>2. CASE \E id \in DOMAIN runtime : fp \in runtime[id].matches /\ now < runtime[id].until
  BY <1>2 DEF Suppresses, silenced, isActive, ActiveSilences
<1>3. CASE \E cr \in crs : /\ cr.matchers = "fine" /\ fp \in cr.matches
                           /\ now < cr.until /\ now < cr.created + MaxSilenceDuration
  <2>1. PICK cr \in crs : /\ cr.matchers = "fine" /\ fp \in cr.matches
                          /\ now < cr.until /\ now < cr.created + MaxSilenceDuration
    BY <1>3
  <2>2. cr.created \in Nat \ {0} /\ cr.until \in Nat /\ now \in Nat
    BY DEF SyncInv, BaseInv, PathType
  <2>3. PICK s : parseSilence(cr) = {s}
    <3>1. cr.until # 0
      BY <2>1, <2>2
    <3> QED BY <2>1, <3>1, Zenon DEF parseSilence
  <2>4. fp \in s.matches /\ isActive(s)
    BY <2>1, <2>2, <2>3, ParseFacts DEF isActive
  <2>5. s \in crdItems
    BY <2>1, <2>3 DEF SyncInv, snapshot
  <2> QED BY <2>4, <2>5 DEF Suppresses, silenced
<1>4. CASE \E w \in config.windows : fp \in w.matches /\ InWindow(w, now)
  <2>1. PICK w \in config.windows : fp \in w.matches /\ InWindow(w, now)
    BY <1>4
  <2>2. IsWindow(w) /\ now \in Nat
    BY RouterConstants DEF BaseInv, PathType
  <2> QED BY <2>1, <2>2, WindowsMeanWhatTheySay DEF Suppresses, inMaintenance
<1> QED BY <1>1, <1>2, <1>3, <1>4 DEF Quieted, IsSilenced

-----------------------------------------------------------------------------
(***************************************************************************)
(* What was notified was observed.                                         *)
(***************************************************************************)
\* A stamp is younger than the longest wait for the lock.
LEMMA LastMoves ==
    ASSUME BaseInv, EmitNext, NEW d \in DOMAIN last
    PROVE  /\ DOMAIN last' = DOMAIN last /\ last[d] \in Nat /\ last'[d] \in Nat
           /\ last'[d] = last[d] \/ now <= last'[d] + slack
<1>1. PathType /\ FlowInv /\ last[d] \in Nat
  BY DEF BaseInv, PathType
<1>2. CASE \E f \in flows : Observe(f)
  <2>1. PICK f \in flows : Observe(f)
    BY <1>2
  <2>2. last' = [x \in DOMAIN last |-> IF f.fp \in rules[x].match THEN f.at ELSE last[x]]
    BY <2>1 DEF Observe, Record
  <2>3. f.at \in Nat /\ now <= f.at + slack
    BY <1>1 DEF PathType, Flows, FlowInv
  <2> QED BY <1>1, <2>2, <2>3
<1> QED BY <1>1, <1>2, EngineMoves

LEMMA SentStep ==
    ASSUME BaseInv, SentInv, EmitNext
    PROVE  SentInv'
<1>1. /\ PathType /\ Clocks /\ FlowInv /\ now \in Nat /\ slack \in Nat /\ graceEnd \in Nat
      /\ engineStart <= graceEnd
      /\ \A fp \in DOMAIN lastSent : lastSent[fp] \in Nat /\ lastSent[fp] <= now
  BY Bounds DEF BaseInv, PathType, IsMap, Times, Seeds
<1>2. rules' = rules /\ slack' = slack /\ graceEnd' = graceEnd /\ (now' = now \/ TimePasses)
  BY Frame, Same
<1>3. DOMAIN last' = DOMAIN last
  BY EngineMoves DEF Observe, Record
<1>4. ASSUME NEW d \in DOMAIN last, NEW fp \in rules[d].match \ DOMAIN rules, fp \in DOMAIN lastSent'
      PROVE  lastSent'[fp] <= graceEnd \/ lastSent'[fp] <= last'[d] + slack
  <2>1. last[d] \in Nat /\ last'[d] \in Nat /\ (last'[d] = last[d] \/ now <= last'[d] + slack)
    BY LastMoves
  <2>2. CASE fp \in DOMAIN lastSent /\ lastSent'[fp] = lastSent[fp]
    BY <1>1, <2>1, <2>2 DEF SentInv
  <2>3. CASE Restored
    <3>1. lastSent'[fp] <= now /\ now = engineStart /\ lastSent'[fp] \in Nat /\ engineStart \in Nat
      BY <1>1, <1>4, <2>3 DEF Restored, Clocks, IsMap, Times, PathType
    <3> QED BY <1>1, <3>1
  <2>4. CASE \E x \in FP : Seeded(x)
    <3>1. PICK x \in FP : Seeded(x)
      BY <2>4
    <3>2. CASE x = fp
      BY <1>1, <3>1, <3>2 DEF Seeded, inGrace, Put
    <3> QED BY <1>4, <2>2, <3>1, <3>2 DEF Seeded, Put
  <2>5. CASE \E x \in FP : Touched(x)
    BY <1>4, <2>2, <2>5 DEF Touched
  <2>6. CASE \E f \in flows : Send(f) /\ Sent(f.fp)
    <3>1. PICK f \in flows : Send(f) /\ Sent(f.fp)
      BY <2>6
    <3>2. CASE f.fp = fp
      <4>1. f.stage = "send" /\ last' = last /\ lastSent'[fp] = now
        BY <3>1, <3>2 DEF Send, Sent, Put, engineVars
      <4> QED BY <3>2, <4>1 DEF SentInv
    <3> QED BY <1>4, <2>2, <3>1, <3>2 DEF Sent, Put
  <2>7. CASE Spared
    BY <1>4, <2>2, <2>7 DEF Spared
  <2>8. CASE \E F : Dropped(F) \/ Cleaned(F)
    <3>1. PICK F : lastSent' = Without(lastSent, F)
      BY <2>8 DEF Dropped, Cleaned
    <3>2. fp \in DOMAIN lastSent /\ lastSent'[fp] = lastSent[fp]
      BY <1>4, <3>1 DEF Without, Restrict
    <3> QED BY <2>2, <3>2
  <2> QED BY <1>1, <2>3, <2>4, <2>5, <2>6, <2>7, <2>8, StoreMoves DEF Gone
<1>5. ASSUME NEW d \in DOMAIN last, NEW fp \in rules[d].match \ DOMAIN rules, NEW f \in flows',
             f.fp = fp, f.stage \in {"route", "send"}
      PROVE  now' <= last'[d] + slack
  <2>1. last[d] \in Nat /\ last'[d] \in Nat /\ (last'[d] = last[d] \/ now <= last'[d] + slack)
    BY LastMoves
  <2>2. now' = now
    BY <1>2, <1>5 DEF TimePasses
  <2>3. ASSUME NEW g \in flows, g.fp = fp, g.stage \in {"route", "send"}
        PROVE  now' <= last'[d] + slack
    <3>1. now <= last[d] + slack
      BY <2>3 DEF SentInv
    <3> QED BY <1>1, <2>1, <2>2, <3>1
  <2>4. ASSUME NEW g \in flows, g.fp = fp, Observe(g)
        PROVE  now' <= last'[d] + slack
    <3>1. last'[d] = g.at
      BY <1>5, <2>4 DEF Observe, Record
    <3> QED BY <1>1, <2>2, <3>1 DEF FlowInv
  <2>5. DOMAIN rules # {}
    BY <1>1 DEF PathType, rulesOf
  <2>6. ASSUME NEW g \in flows, g.fp = fp PROVE ~Begin(g)
    BY <1>1, <1>5, <2>6 DEF FlowInv, Begin
  <2>7. f \in flows \/ NewFlow(f)
    BY <1>1, NewFlows
  <2> QED BY <1>5, <2>3, <2>4, <2>5, <2>6, <2>7 DEF NewFlow
<1> QED BY <1>2, <1>3, <1>4, <1>5 DEF SentInv

-----------------------------------------------------------------------------
(***************************************************************************)
(* The effect of a delivery is not undone.                                 *)
(***************************************************************************)
\* An emission ends or moves on by its own steps only.
LEMMA FlowLeaves ==
    ASSUME EmitNext, NEW f \in flows, f \notin flows'
    PROVE  Begin(f) \/ Observe(f) \/ Route(f) \/ Send(f)
<1>1. CASE IdleStep
  BY <1>1, IdleFacts
<1>2. CASE \E fp \in FP : Deliver(fp)
  BY <1>2 DEF Deliver, Enter
<1>3. CASE \E g \in flows : Begin(g)
  BY <1>3 DEF Begin, Enter
<1>4. CASE \E g \in flows : Observe(g) \/ Route(g) \/ Send(g)
  BY <1>4 DEF Observe, Route, Send
<1>5. CASE Tock \/ TimePasses
  BY <1>5 DEF Tock, TimePasses
<1> QED BY <1>1, <1>2, <1>3, <1>4, <1>5, Steps

\* A later arming by the same source or another one lasts longer.
LEMMA ArmedKept ==
    ASSUME BaseInv, InhibitInv, EmitNext, NEW fp \in FP, NEW a \in Nat, a <= now, Armed(fp, a)
    PROVE  Armed(fp, a)'
<1>1. now \in Nat /\ now' \in Nat /\ now <= now'
  BY Frame DEF BaseInv, PathType, TimePasses, Tick
<1>2. inhibitions' = inhibitions /\ \A i, x : inhibitionKey(i, x)' = inhibitionKey(i, x)
  BY Frame, Same
<1>3. ASSUME NEW i \in DOMAIN inhibitions, fp \in inhibitions[i].source,
             ~(a + inhibitions[i].duration <= now)
      PROVE  /\ inhibitionKey(i, fp) \in DOMAIN activeInhibits'
             /\ a + inhibitions[i].duration <= activeInhibits'[inhibitionKey(i, fp)]
  <2> DEFINE k == inhibitionKey(i, fp)
             n == inhibitions[i].duration
  <2>1. n \in Nat /\ k \in DOMAIN activeInhibits /\ activeInhibits[k] \in Nat
        /\ a + n <= activeInhibits[k]
    BY <1>3, RouterConstants DEF BaseInv, PathType, inhibitions, InhibitInv, Armed
  <2>2. CASE activeInhibits' = activeInhibits
    BY <2>1, <2>2
  <2>3. CASE \E x \in FP : maybeArmInhibition(x)
    <3>1. PICK x \in FP : maybeArmInhibition(x)
      BY <2>3
    <3>2. k \in DOMAIN activeInhibits'
      BY <1>1, <1>3, <2>1, <3>1, ArmFacts
    <3>3. activeInhibits'[k] = activeInhibits[k] \/
          \E j \in DOMAIN inhibitions :
             k = inhibitionKey(j, x) /\ activeInhibits'[k] = now + inhibitions[j].duration
      BY <3>1, <3>2, ArmFacts
    <3>4. \A j : k = inhibitionKey(j, x) => j = i
      BY DEF inhibitionKey
    <3> QED BY <1>1, <2>1, <3>2, <3>3, <3>4
  <2> QED BY <2>2, <2>3, InhibitMoves
<1>4. \A i \in DOMAIN inhibitions : inhibitions[i].duration \in Nat
  BY RouterConstants DEF BaseInv, PathType, inhibitions
<1> QED BY <1>1, <1>2, <1>3, <1>4 DEF Armed

\* Only the expiry of its deadline, or its condition's end, makes an alert go.
LEMMA AliveKept ==
    ASSUME BaseInv, EmitNext, NEW fp \in FP, fp \in cond \cap cond' \/ fp \in DOMAIN rules,
           NEW a \in Nat, a <= now, a > graceEnd, Alive(fp, a)
    PROVE  Alive(fp, a)'
<1>1. /\ PathType /\ Clocks /\ FlowInv /\ now \in Nat /\ now' \in Nat /\ now <= now'
      /\ ResolveTTL \in Nat /\ engineStart \in Nat /\ graceEnd \in Nat /\ engineStart <= graceEnd
      /\ \A x \in DOMAIN active : active[x] \in Alerts /\ active[x].endsAt \in Nat
  BY Frame, Bounds DEF BaseInv, PathType, TimePasses, Tick, IsMap, Alerts, Times
<1>2. ~booting
  BY <1>1 DEF Clocks
<1>3. CASE a + ResolveTTL < now
  BY <1>1, <1>3 DEF Alive
<1>4. CASE fp \in DOMAIN active /\ a + ResolveTTL <= active[fp].endsAt
  <2>1. CASE active' = active
    BY <1>1, <1>4, <2>1 DEF Alive
  <2>2. CASE \E x \in FP : Touched(x)
    <3>1. PICK x \in FP : Touched(x)
      BY <2>2
    <3>2. fp \in DOMAIN active' /\ active'[fp] = IF fp = x THEN [active[fp] EXCEPT !.endsAt = now + ResolveTTL]
                                                 ELSE active[fp]
      BY <1>4, <3>1 DEF Touched
    <3>3. a + ResolveTTL <= active'[fp].endsAt
      BY <1>1, <1>4, <3>2 DEF Alerts
    <3> QED BY <3>2, <3>3 DEF Alive
  <2>3. CASE \E x : Sent(x)
    <3>1. PICK x : Sent(x)
      BY <2>3
    <3>2. fp \in DOMAIN active' /\ (active'[fp] = active[fp] \/ active'[fp].endsAt = now + ResolveTTL)
      BY <1>4, <3>1 DEF Sent, Put
    <3> QED BY <1>1, <1>4, <3>2 DEF Alive
  <2>4. CASE \E x \in FP : Gone(x)
    <3>1. PICK x \in FP : Gone(x)
      BY <2>4
    <3>2. ObjectOf[fp] # ObjectOf[x]
      BY <1>1, <3>1, Bounds DEF Gone
    <3>3. fp \in DOMAIN active' /\ active'[fp] = active[fp]
      BY <1>4, <3>1, <3>2 DEF Gone, Dropped, OfObject, Without, Restrict
    <3> QED BY <1>4, <3>3 DEF Alive
  <2>5. CASE Dropped(Expired)
    <3>1. CASE fp \in Expired
      <4>1. now > active[fp].endsAt
        BY <3>1 DEF Expired
      <4> QED BY <1>1, <1>4, <4>1 DEF Alive
    <3>2. CASE fp \notin Expired
      <4>1. fp \in DOMAIN active' /\ active'[fp] = active[fp]
        BY <1>4, <2>5, <3>2 DEF Dropped, Without, Restrict
      <4> QED BY <1>4, <4>1 DEF Alive
    <3> QED BY <3>1, <3>2
  <2>6. \/ active' = active \/ Dropped(Expired) \/ \E x : Sent(x)
        \/ \E x \in FP : Touched(x) \/ Gone(x)
    BY <1>1, <1>2, StoreMoves DEF Restored, Spared, Seeded, Cleaned
  <2> QED BY <2>1, <2>2, <2>3, <2>4, <2>5, <2>6
<1> QED BY <1>3, <1>4 DEF Alive

LEMMA SeenKept ==
    ASSUME BaseInv, EmitNext, NEW fp \in FP, NEW a \in Nat, a <= now, Seen(fp, a)
    PROVE  Seen(fp, a)'
<1>1. now \in Nat /\ slack \in Nat /\ MuteWindow \in Nat
  BY Bounds DEF BaseInv, PathType
<1>2. rules' = rules /\ slack' = slack
  BY Frame, Same
<1>3. DOMAIN last' = DOMAIN last
  BY EngineMoves DEF Observe, Record
<1>4. ASSUME NEW d \in DOMAIN last, fp \in rules[d].match
      PROVE  a <= last'[d] + MuteWindow + slack
  <2>1. /\ last[d] \in Nat /\ last'[d] \in Nat
        /\ last'[d] = last[d] \/ now <= last'[d] + slack
    BY LastMoves
  <2>2. a <= last[d] + MuteWindow + slack
    BY <1>4 DEF Seen
  <2> QED BY <1>1, <2>1, <2>2
<1> QED BY <1>2, <1>3, <1>4 DEF Seen

\* How an emission that is waited for moves on.
LEMMA WaitsMoves ==
    ASSUME BaseInv, EmitNext, NEW fp \in FP, NEW stages, stages \subseteq {"route", "send"},
           NEW a \in Nat, NEW b \in Nat, Waits(fp, stages, a, b)
    PROVE  \/ Waits(fp, stages, a, b)'
           \/ \E f \in flows :
                 /\ f.fp = fp
                 /\ \/ Observe(f) /\ a <= f.at /\ "route" \notin stages
                    \/ Route(f) /\ (Suppresses(fp) \/ "send" \notin stages) /\ "route" \in stages
                    \/ Send(f) /\ "send" \in stages
<1>1. PathType /\ FlowInv /\ now \in Nat /\ slack \in Nat
  BY Bounds DEF BaseInv, PathType
<1>2. slack' = slack /\ (now' = now \/ TimePasses)
  BY Frame, Same
<1>3. PICK f \in flows : /\ f.fp = fp
                         /\ \/ f.stage = "observe" /\ a <= f.at /\ f.at < b
                            \/ f.stage \in stages /\ now < b + slack
  BY DEF Waits
<1>4. f \in Flows /\ f.at \in Nat /\ now <= f.at + slack
  BY <1>1 DEF PathType, FlowInv, Flows
<1>5. CASE f \in flows'
  <2>1. CASE f.stage = "observe"
    <3>1. a <= f.at /\ f.at < b
      BY <1>3, <2>1
    <3> QED BY <1>3, <1>5, <2>1, <3>1 DEF Waits
  <2>2. CASE f.stage # "observe"
    <3>1. now' = now
      BY <1>2, <2>2 DEF TimePasses
    <3> QED BY <1>2, <1>3, <1>5, <2>2, <3>1 DEF Waits
  <2> QED BY <2>1, <2>2
<1>6. CASE Observe(f)
  <2> DEFINE g == [f EXCEPT !.stage = "route", !.at = now]
  <2>1. g \in flows' /\ now' = now /\ f.stage = "observe"
    BY <1>6 DEF Observe, storeVars
  <2>2. g.fp = fp /\ g.stage = "route"
    BY <1>3, <1>4 DEF Flows
  <2>3. a <= f.at /\ f.at < b
    BY <1>3, <2>1
  <2>4. now < b + slack
    BY <1>1, <1>4, <2>3
  <2> QED BY <1>2, <1>3, <1>6, <2>1, <2>2, <2>3, <2>4 DEF Waits
<1>7. CASE Route(f)
  <2> DEFINE g == [f EXCEPT !.stage = "send"]
  <2>1. f.stage = "route" /\ now' = now
    BY <1>7 DEF Route, storeVars
  <2>2. "route" \in stages /\ now < b + slack
    BY <1>3, <2>1
  <2>3. CASE Suppresses(fp) \/ "send" \notin stages
    BY <1>3, <1>7, <2>2, <2>3
  <2>4. CASE ~Suppresses(fp) /\ "send" \in stages
    <3>1. g \in flows' /\ g.fp = fp /\ g.stage = "send"
      BY <1>3, <1>4, <1>7, <2>4 DEF Route, Flows
    <3> QED BY <1>2, <2>1, <2>2, <2>4, <3>1 DEF Waits
  <2> QED BY <2>3, <2>4
<1>8. CASE Send(f)
  BY <1>3, <1>8 DEF Send
<1>9. ~Begin(f)
  BY <1>3 DEF Begin
<1> QED BY <1>5, <1>6, <1>7, <1>8, <1>9, FlowLeaves

\* Once the seeds have run out, only an active alert is muted, and refreshed.
LEMMA RefreshFacts ==
    ASSUME BaseInv, NEW fp \in FP, Refresh(fp)
    PROVE  /\ now' = now /\ maybeArmInhibition(fp)
           /\ now > graceEnd + MuteWindow =>
                 fp \in DOMAIN active' /\ active'[fp].endsAt = now + ResolveTTL
<1>1. now' = now /\ maybeArmInhibition(fp)
  BY Zenon DEF Refresh, ArmInhibitions, Touch, storeVars
<1>2. ASSUME now > graceEnd + MuteWindow
      PROVE  fp \in DOMAIN active' /\ active'[fp].endsAt = now + ResolveTTL
  <2>1. /\ PathType /\ now \in Nat /\ graceEnd \in Nat /\ MuteWindow \in Nat
        /\ \A x \in DOMAIN lastSent : lastSent[x] \in Nat
        /\ \A x \in DOMAIN active : active[x] \in Alerts
    BY Bounds DEF BaseInv, PathType, IsMap, Times
  <2>2. mutedLocked(fp)
    BY DEF Refresh
  <2>3. fp \in DOMAIN active
    BY <1>2, <2>1, <2>2 DEF mutedLocked, BaseInv, Seeds
  <2>4. active' = [active EXCEPT ![fp].endsAt = now + ResolveTTL]
    BY <2>3 DEF Refresh, Touch
  <2> QED BY <2>1, <2>3, <2>4 DEF Alerts
<1> QED BY <1>1, <1>2

LEMMA ArmedNow ==
    ASSUME BaseInv, EmitNext, NEW fp \in FP, maybeArmInhibition(fp), NEW a \in Nat, a <= now
    PROVE  Armed(fp, a)'
<1>1. now \in Nat /\ \A i \in DOMAIN inhibitions : inhibitions[i].duration \in Nat
  BY RouterConstants DEF BaseInv, PathType, inhibitions
<1>2. inhibitions' = inhibitions /\ \A i, x : inhibitionKey(i, x)' = inhibitionKey(i, x)
  BY Frame, Same
<1> QED BY <1>1, <1>2, ArmFacts DEF Armed

LEMMA AliveNow ==
    ASSUME BaseInv, NEW fp \in FP, NEW a \in Nat, a <= now, fp \in DOMAIN active',
           active'[fp].endsAt = now + ResolveTTL
    PROVE  Alive(fp, a)'
BY StoreConstants DEF Alive, BaseInv, PathType

\* A notification that is not refused leaves the alert alive.
LEMMA SendFacts ==
    ASSUME BaseInv, NEW f \in flows, Send(f), now > graceEnd + MuteWindow
    PROVE  f.fp \in DOMAIN active' /\ active'[f.fp].endsAt = now + ResolveTTL
<1>1. f.fp \in FP
  BY DEF BaseInv, PathType, Flows
<1>2. CASE ShouldSend(f.fp, now)
  BY <1>2 DEF ShouldSend, Put
<1>3. CASE Refresh(f.fp)
  BY <1>1, <1>3, RefreshFacts
<1> QED BY <1>2, <1>3 DEF Send

LEMMA FollowedMono ==
    ASSUME BaseInv, InhibitInv, NEW fp \in FP, NEW a \in Nat, NEW b \in Nat, NEW c \in Nat,
           NEW e \in Nat, c <= a, b <= e, Followed(fp, a, b)
    PROVE  Followed(fp, c, e)
<1>1. /\ PathType /\ now \in Nat /\ slack \in Nat /\ graceEnd \in Nat /\ MuteWindow \in Nat
      /\ ResolveTTL \in Nat /\ history.held[fp] \in Nat /\ history.down[fp] \in Nat
      /\ \A f \in flows : f.at \in Nat
      /\ \A i \in DOMAIN inhibitions : inhibitions[i].duration \in Nat
      /\ \A d \in DOMAIN last : last[d] \in Nat
  BY Bounds, RouterConstants DEF BaseInv, PathType, Flows, inhibitions
<1>2. ASSUME NEW stages, Waits(fp, stages, a, b) PROVE Waits(fp, stages, c, e)
  BY <1>1, <1>2 DEF Waits
<1>3. ASSUME Armed(fp, a) PROVE Armed(fp, c)
  <2>1. ASSUME NEW i \in DOMAIN inhibitions, fp \in inhibitions[i].source,
               ~(c + inhibitions[i].duration <= now)
        PROVE  /\ inhibitionKey(i, fp) \in DOMAIN activeInhibits
               /\ c + inhibitions[i].duration <= activeInhibits[inhibitionKey(i, fp)]
    <3>1. inhibitions[i].duration \in Nat /\ ~(a + inhibitions[i].duration <= now)
      BY <1>1, <2>1
    <3>2. /\ inhibitionKey(i, fp) \in DOMAIN activeInhibits
          /\ a + inhibitions[i].duration <= activeInhibits[inhibitionKey(i, fp)]
      BY <1>3, <2>1, <3>1 DEF Armed
    <3>3. activeInhibits[inhibitionKey(i, fp)] \in Nat
      BY <3>2 DEF InhibitInv
    <3> QED BY <3>1, <3>2, <3>3
  <2> QED BY <2>1 DEF Armed
<1>4. ASSUME Alive(fp, a) PROVE Alive(fp, c)
  <2>1. CASE a + ResolveTTL < now
    BY <1>1, <2>1 DEF Alive
  <2>2. CASE fp \in DOMAIN active /\ a + ResolveTTL <= active[fp].endsAt
    <3>1. active[fp].endsAt \in Nat
      BY <1>1, <2>2 DEF PathType, IsMap, Alerts, Times
    <3> QED BY <1>1, <2>2, <3>1 DEF Alive
  <2> QED BY <1>4, <2>1, <2>2 DEF Alive
<1>5. ASSUME Seen(fp, a) PROVE Seen(fp, c)
  BY <1>1, <1>5 DEF Seen
<1> QED BY <1>1, <1>2, <1>3, <1>4, <1>5 DEF Followed

\* No step undoes the effect of a delivery while the condition stands.
LEMMA FollowKept ==
    ASSUME BaseInv, SyncInv, InhibitInv, EmitNext, NEW fp \in cond \cap cond',
           NEW a \in Nat, NEW b \in Nat, a <= now, Followed(fp, a, b)
    PROVE  Followed(fp, a, b)'
<1>0. fp \in FP /\ fp \in cond /\ fp \in cond'
  BY Bounds DEF BaseInv
<1>1. /\ PathType /\ now \in Nat /\ slack \in Nat /\ graceEnd \in Nat /\ MuteWindow \in Nat
      /\ history.held[fp] \in Nat /\ history.held[fp] <= now /\ history.down[fp] \in Nat
  BY <1>0, Bounds DEF BaseInv, PathType, Clocks
<1>2. graceEnd' = graceEnd /\ (now' = now \/ TimePasses)
  BY Frame, Same
<1>3. /\ history'.held[fp] = IF Free(fp) THEN history.held[fp] ELSE now
      /\ history'.down[fp] = history.down[fp]
  BY <1>0, <1>1, Notes, Steps
<1>4. a > history'.held[fp] => a > history.held[fp] /\ Free(fp)
  BY <1>1, <1>3
<1>5. ASSUME a > history'.held[fp], a > graceEnd,
             NEW f \in flows, f.fp = fp, Route(f), Suppresses(fp)
      PROVE  FALSE
  BY <1>0, <1>1, <1>4, <1>5, SuppressedIsHeld
<1>6. ASSUME a > history'.held[fp], a > graceEnd
      PROVE  Waits(fp, {"route"}, a, b)' \/ Armed(fp, a)'
  <2>1. Waits(fp, {"route"}, a, b) \/ Armed(fp, a)
    BY <1>4, <1>6 DEF Followed
  <2>2. CASE Armed(fp, a)
    BY <1>0, <2>2, ArmedKept
  <2>3. ASSUME NEW f \in flows, f.fp = fp, Route(f)
        PROVE  Armed(fp, a)'
    <3>1. maybeArmInhibition(fp)
      BY <1>5, <1>6, <2>3 DEF Route
    <3> QED BY <1>0, <3>1, ArmedNow
  <2>4. CASE Waits(fp, {"route"}, a, b)
    BY <1>0, <2>3, <2>4, WaitsMoves
  <2> QED BY <2>1, <2>2, <2>4
<1>7. ASSUME a > history'.held[fp], a > graceEnd + MuteWindow
      PROVE  Waits(fp, {"route", "send"}, a, b)' \/ Alive(fp, a)'
  <2>1. Waits(fp, {"route", "send"}, a, b) \/ Alive(fp, a)
    BY <1>4, <1>7 DEF Followed
  <2>2. a > graceEnd /\ now > graceEnd + MuteWindow
    BY <1>1, <1>7
  <2>3. CASE Alive(fp, a)
    BY <1>0, <2>2, <2>3, AliveKept
  <2>4. ASSUME NEW f \in flows, f.fp = fp, Send(f)
        PROVE  Alive(fp, a)'
    BY <1>0, <2>2, <2>4, SendFacts, AliveNow
  <2>5. CASE Waits(fp, {"route", "send"}, a, b)
    <3>1. \/ Waits(fp, {"route", "send"}, a, b)'
          \/ \E f \in flows : f.fp = fp /\ ((Route(f) /\ Suppresses(fp)) \/ Send(f))
      BY <1>0, <2>5, WaitsMoves
    <3> QED BY <1>5, <1>7, <2>2, <2>4, <3>1
  <2> QED BY <2>1, <2>3, <2>5
<1>8. ASSUME a > history'.down[fp], a > graceEnd + MuteWindow
      PROVE  Waits(fp, {}, a, b)' \/ Seen(fp, a)'
  <2>1. Waits(fp, {}, a, b) \/ Seen(fp, a)
    BY <1>3, <1>8 DEF Followed
  <2>2. CASE Seen(fp, a)
    BY <1>0, <2>2, SeenKept
  <2>3. ASSUME NEW f \in flows, f.fp = fp, Observe(f), a <= f.at
        PROVE  Seen(fp, a)'
    <3>1. /\ DOMAIN last' = DOMAIN last
          /\ \A d \in DOMAIN last : fp \in rules[d].match => last'[d] = f.at
      BY <2>3 DEF Observe, Record
    <3>2. rules' = rules /\ slack' = slack /\ f.at \in Nat
      BY <1>1, Frame, Same DEF PathType, Flows
    <3> QED BY <1>1, <2>3, <3>1, <3>2 DEF Seen
  <2>4. CASE Waits(fp, {}, a, b)
    BY <1>0, <2>3, <2>4, WaitsMoves
  <2> QED BY <2>1, <2>2, <2>4
<1> QED BY <1>2, <1>6, <1>7, <1>8 DEF Followed

\* A delivery is followed by its effect.
LEMMA DeliveryFollowed ==
    ASSUME BaseInv, SentInv, EmitNext, NEW fp \in FP, Deliver(fp), NEW a \in Nat, a = now
    PROVE  Followed(fp, a, a + 1)'
<1>1. /\ PathType /\ now \in Nat /\ slack \in Nat /\ graceEnd \in Nat /\ MuteWindow \in Nat
      /\ \A d \in DOMAIN last : last[d] \in Nat
      /\ \A x \in DOMAIN lastSent : lastSent[x] \in Nat
      /\ fp \in cond /\ fp \notin DOMAIN rules /\ a <= now
  BY Bounds DEF BaseInv, PathType, IsMap, Times, Deliver
<1>2. /\ graceEnd' = graceEnd /\ now' = now /\ rules' = rules /\ slack' = slack /\ last' = last
      /\ Enter(fp, flows)
  BY Frame, Same, EnterFrame DEF Deliver, engineVars
<1>3. ASSUME NEW f \in flows', f.fp = fp, f.at = now,
             f.stage = IF DOMAIN rules = {} THEN "route" ELSE "observe"
      PROVE  Followed(fp, a, a + 1)'
  <2>1. CASE DOMAIN rules = {}
    <3>1. Waits(fp, {"route"}, a, a + 1)' /\ Waits(fp, {"route", "send"}, a, a + 1)'
      BY <1>1, <1>2, <1>3, <2>1 DEF Waits
    <3>2. Seen(fp, a)'
      BY <1>1, <1>2, <2>1 DEF PathType, Seen, rulesOf
    <3> QED BY <1>2, <3>1, <3>2 DEF Followed
  <2>2. CASE DOMAIN rules # {}
    <3>1. \A stages : Waits(fp, stages, a, a + 1)'
      BY <1>1, <1>2, <1>3, <2>2 DEF Waits
    <3> QED BY <1>2, <3>1 DEF Followed
  <2> QED BY <2>1, <2>2
<1>4. CASE inGrace
  <2>1. ~(a > graceEnd) /\ ~(a > graceEnd + MuteWindow)
    BY <1>1, <1>4 DEF inGrace
  <2> QED BY <1>2, <2>1 DEF Followed
<1>5. CASE Refresh(fp)
  <2>1. Armed(fp, a)'
    BY <1>1, <1>5, RefreshFacts, ArmedNow
  <2>2. a > graceEnd + MuteWindow => Alive(fp, a)'
    BY <1>1, <1>5, RefreshFacts, AliveNow
  <2>3. a > graceEnd + MuteWindow => Seen(fp, a)
    <3> SUFFICES ASSUME a > graceEnd + MuteWindow, NEW d \in DOMAIN last, fp \in rules[d].match
                 PROVE  a <= last[d] + MuteWindow + slack
      BY DEF Seen
    <3>1. fp \in DOMAIN lastSent /\ now - lastSent[fp] < MuteWindow
      BY <1>5 DEF Refresh, mutedLocked
    <3>2. lastSent[fp] <= graceEnd \/ lastSent[fp] <= last[d] + slack
      BY <1>1, <3>1 DEF SentInv
    <3> QED BY <1>1, <3>1, <3>2
  <2>4. a > graceEnd + MuteWindow => Seen(fp, a)'
    BY <1>1, <2>3, SeenKept
  <2> QED BY <1>2, <2>1, <2>2, <2>4 DEF Followed
<1>6. CASE flows' = flows \cup {[fp |-> fp, at |-> now,
                                 stage |-> IF DOMAIN rules = {} \/ fp \in DOMAIN rules
                                           THEN "route" ELSE "observe"]}
  <2> DEFINE f == [fp |-> fp, at |-> now,
                   stage |-> IF DOMAIN rules = {} \/ fp \in DOMAIN rules THEN "route" ELSE "observe"]
  <2>1. f \in flows' /\ f.fp = fp /\ f.at = now
        /\ f.stage = IF DOMAIN rules = {} THEN "route" ELSE "observe"
    BY <1>1, <1>6
  <2> HIDE DEF f
  <2> QED BY <1>3, <2>1
<1> QED BY <1>2, <1>4, <1>5, <1>6, Zenon DEF Enter

LEMMA FollowStep ==
    ASSUME BaseInv, SyncInv, InhibitInv, SentInv, FollowInv, EmitNext
    PROVE  FollowInv'
<1>1. /\ PathType /\ now \in Nat /\ Resync \in Nat /\ graceEnd \in Nat
      /\ \A fp \in cond : fp \in FP /\ delivered[fp] \in Nat /\ delivered[fp] <= now
  BY Bounds DEF BaseInv, PathType, IsMap, cond, Clocks
<1>2. (now' = now \/ TimePasses) /\ (TimePasses => now' = now + 1)
  BY Frame DEF TimePasses, Tick
<1>3. \A fp \in cond' : fp \in FP
  BY <1>1, CondMoves, Bounds DEF IsMap, cond
<1>4. ASSUME NEW fp \in FP, fp \in cond', fp \notin cond
      PROVE  /\ delivered'[fp] = 0
             /\ \A t \in 0..now' : t + Resync <= now' => Followed(fp, t, t + Resync)'
  <2>1. Begins(fp) /\ delivered'[fp] = 0
    BY <1>1, <1>4, CondMoves
  <2>2. now' = now /\ ~Free(fp)
    <3>1. now' = now /\ fp \in config.watched
      BY <2>1 DEF Begins, storeVars
    <3>2. fp \notin DOMAIN rules
      BY <1>1, <3>1, Bounds
    <3> QED BY <1>4, <3>1, <3>2 DEF Free
  <2>3. history'.held[fp] = now /\ history'.down[fp] = now
    BY <1>1, <1>4, <2>2, Notes, Steps
  <2>4. ASSUME NEW t \in 0..now' PROVE ~(t > history'.held[fp]) /\ ~(t > history'.down[fp])
    BY <1>1, <2>2, <2>3
  <2> QED BY <2>1, <2>4 DEF Followed
<1>5. ASSUME NEW fp \in cond', fp \in cond, NEW a \in Nat, a # 0, delivered'[fp] = a,
             NEW b \in Nat, b = now' + 1
      PROVE  Followed(fp, a, b)'
  <2>1. CASE a = delivered[fp]
    <3>1. Followed(fp, a, now + 1)
      BY <1>5, <2>1 DEF FollowInv
    <3>2. now + 1 \in Nat /\ a <= now /\ now + 1 <= b
      BY <1>1, <1>2, <1>5, <2>1
    <3>3. Followed(fp, a, b)
      BY <1>1, <1>5, <3>1, <3>2, FollowedMono
    <3> QED BY <1>5, <3>2, <3>3, FollowKept
  <2>2. CASE a = now /\ Deliver(fp)
    <3>1. fp \in FP /\ b = a + 1
      BY <1>1, <1>2, <1>5, <2>2 DEF TimePasses, Deliver
    <3> QED BY <2>2, <3>1, DeliveryFollowed
  <2> QED BY <1>1, <1>5, <2>1, <2>2, CondMoves
<1>6. ASSUME NEW fp \in cond', fp \in cond, NEW t \in Nat, t + Resync <= now'
      PROVE  Followed(fp, t, t + Resync)'
  <2>1. CASE t + Resync <= now
    <3>1. t \in 0..now /\ t <= now /\ t + Resync \in Nat
      BY <1>1, <1>6, <2>1
    <3>2. Followed(fp, t, t + Resync)
      BY <1>6, <2>1, <3>1 DEF FollowInv
    <3> QED BY <1>6, <3>1, <3>2, FollowKept
  <2>2. CASE ~(t + Resync <= now)
    <3>1. TimePasses /\ t + Resync = now + 1 /\ t + Resync \in Nat
      BY <1>1, <1>2, <1>6, <2>2
    <3>2. delivered[fp] # 0 /\ now < delivered[fp] + Resync
      BY <1>6, <3>1 DEF TimePasses
    <3>3. t <= delivered[fp] /\ delivered[fp] \in Nat /\ delivered[fp] <= now /\ t <= now
      BY <1>1, <1>6, <3>1, <3>2
    <3>4. Followed(fp, delivered[fp], t + Resync)
      BY <1>6, <3>1, <3>2 DEF FollowInv
    <3>5. Followed(fp, t, t + Resync)
      BY <1>1, <1>6, <3>1, <3>3, <3>4, FollowedMono
    <3> QED BY <1>6, <3>1, <3>3, <3>5, FollowKept
  <2> QED BY <2>1, <2>2
<1>7. \A fp \in cond' : delivered'[fp] \in Nat /\ now' + 1 \in Nat
  BY <1>1, <1>2, CondMoves DEF IsMap, cond
<1> QED BY <1>3, <1>4, <1>5, <1>6, <1>7 DEF FollowInv

-----------------------------------------------------------------------------
(***************************************************************************)
(* A condition that is free is paged, and keeps its targets quiet.         *)
(***************************************************************************)
\* No emission waits for longer than slack.
LEMMA NobodyWaits ==
    ASSUME BaseInv, NEW fp, NEW stages, NEW a \in Nat, NEW b \in Nat, b + slack <= now
    PROVE  ~Waits(fp, stages, a, b)
<1>1. PathType /\ FlowInv /\ now \in Nat /\ slack \in Nat
  BY Bounds DEF BaseInv, PathType
<1>2. \A f \in flows : f.at \in Nat /\ now <= f.at + slack
  BY <1>1 DEF PathType, Flows, FlowInv
<1> QED BY <1>1, <1>2 DEF Waits

\* The last delivery that has certainly taken effect.
LEMMA Effect ==
    ASSUME BaseInv, FollowInv, NEW fp \in cond, NEW t \in Nat, now = t + Resync + slack
    PROVE  /\ t > history.held[fp] /\ t > graceEnd => Armed(fp, t)
           /\ t > history.held[fp] /\ t > graceEnd + MuteWindow => Alive(fp, t)
           /\ t > history.down[fp] /\ t > graceEnd + MuteWindow => Seen(fp, t)
<1>1. now \in Nat /\ slack \in Nat /\ Resync \in Nat
  BY Bounds DEF BaseInv, PathType
<1>2. t \in 0..now /\ t + Resync <= now /\ t + Resync \in Nat /\ t + Resync + slack <= now
  BY <1>1
<1>3. Followed(fp, t, t + Resync)
  BY <1>2 DEF FollowInv
<1>4. \A stages : ~Waits(fp, stages, t, t + Resync)
  BY <1>2, NobodyWaits
<1> QED BY <1>3, <1>4 DEF Followed

LEMMA PagesInv ==
    ASSUME Resync + Stall <= ResolveTTL, BaseInv, FollowInv
    PROVE  PagesWhenFree
<1> SUFFICES ASSUME NEW fp \in cond,
                    now > Later(history.held[fp], graceEnd + MuteWindow) + Resync + slack
             PROVE  fp \in DOMAIN active /\ now <= active[fp].endsAt
  BY DEF PagesWhenFree
<1>1. /\ PathType /\ now \in Nat /\ slack \in Nat /\ Resync \in Nat /\ graceEnd \in Nat
      /\ MuteWindow \in Nat /\ ResolveTTL \in Nat /\ Stall \in Nat
      /\ fp \in FP /\ history.held[fp] \in Nat
  BY Bounds DEF BaseInv, PathType
<1>0. slack <= Stall
  BY EmitConstants DEF slack
<1> DEFINE t == now - Resync - slack
<1>2. /\ t \in Nat /\ now = t + Resync + slack /\ t > history.held[fp]
      /\ t > graceEnd + MuteWindow
  BY <1>1 DEF Later
<1>3. Alive(fp, t)
  BY <1>2, Effect
<1>4. now <= t + ResolveTTL
  BY <1>0, <1>1
<1>5. fp \in DOMAIN active => active[fp].endsAt \in Nat
  BY <1>1 DEF PathType, IsMap, Alerts, Times
<1> HIDE DEF t
<1> QED BY <1>1, <1>2, <1>3, <1>4, <1>5 DEF Alive

LEMMA InhibitedIsSuppressed ==
    ASSUME BaseInv, InhibitInv, FollowInv, NEW fp \in FP, MustBeInhibited(fp)
    PROVE  Suppresses(fp)
<1>1. PICK p \in Inhibitors(fp) :
         /\ inhibitions[p[1]].duration > Resync + slack
         /\ p[2] \in cond
         /\ now > Later(history.held[p[2]], graceEnd) + Resync + slack
  BY DEF MustBeInhibited
<1> DEFINE i == p[1]
           x == p[2]
           t == now - Resync - slack
<1>2. /\ i \in DOMAIN inhibitions /\ x \in FP /\ fp \in inhibitions[i].target
      /\ x \in inhibitions[i].source /\ inhibitions[i].equal[x] = inhibitions[i].equal[fp]
  BY DEF Inhibitors
<1>3. /\ now \in Nat /\ slack \in Nat /\ Resync \in Nat /\ graceEnd \in Nat
      /\ history.held[x] \in Nat /\ inhibitions[i].duration \in Nat
  BY <1>2, Bounds, RouterConstants DEF BaseInv, PathType, inhibitions
<1>4. /\ t \in Nat /\ now = t + Resync + slack /\ t > history.held[x] /\ t > graceEnd
      /\ now < t + inhibitions[i].duration
  BY <1>1, <1>3 DEF Later
<1>5. Armed(x, t)
  BY <1>1, <1>4, Effect
<1>6. /\ inhibitionKey(i, x) \in DOMAIN activeInhibits
      /\ t + inhibitions[i].duration <= activeInhibits[inhibitionKey(i, x)]
  BY <1>2, <1>3, <1>4, <1>5 DEF Armed
<1>7. activeInhibits[inhibitionKey(i, x)] \in Nat
  BY <1>6 DEF InhibitInv
<1>8. inhibitionKey(i, x) = inhibitionKey(i, fp)
  BY <1>2 DEF inhibitionKey
<1> HIDE DEF i, x, t
<1>9. now < activeInhibits[inhibitionKey(i, fp)]
  BY <1>3, <1>4, <1>6, <1>7, <1>8
<1> QED BY <1>2, <1>6, <1>8, <1>9 DEF Suppresses, inhibited

LEMMA QuietStep ==
    ASSUME BaseInv, SyncInv, InhibitInv, FollowInv, EmitNext, NEW fp \in FP, RoutedInStep(fp)
    PROVE  ~MustBeQuiet(fp)
<1>1. PathType /\ FlowInv
  BY DEF BaseInv
<1>2. PICK f \in flows : f.fp = fp /\ f.stage = "route" /\ [f EXCEPT !.stage = "send"] \in flows' \ flows
  BY DEF RoutedInStep
<1> DEFINE g == [f EXCEPT !.stage = "send"]
<1>3. g.fp = fp /\ g.stage = "send"
  BY <1>1, <1>2 DEF PathType, Flows
<1>4. NewFlow(g)
  BY <1>1, <1>2, NewFlows
<1>5. PICK h \in flows : h.fp = fp /\ Route(h)
  BY <1>3, <1>4 DEF NewFlow
<1>6. ~Suppresses(fp)
  BY <1>2, <1>5 DEF Route
<1> QED BY <1>6, QuietedIsSuppressed, InhibitedIsSuppressed DEF MustBeQuiet

-----------------------------------------------------------------------------
(***************************************************************************)
(* Absent rules.                                                           *)
(***************************************************************************)
\* The last match of an absent rule is the stamp of a heartbeat that stood.
LEMMA LastStood ==
    ASSUME BaseInv, AwayInv, EmitNext, NEW d \in DOMAIN last, last'[d] # 0
    PROVE  /\ engineStart <= last'[d]
           /\ \E h \in Heartbeats(d) : last'[d] <= history'.stood[h]
<1>1. /\ PathType /\ Clocks /\ FlowInv /\ now \in Nat /\ last[d] \in Nat
      /\ \A h \in FP : history.stood[h] \in Nat /\ history.stood[h] <= now
      /\ config.watched \subseteq FP
  BY Bounds DEF BaseInv, PathType, Clocks
<1>2. \A h \in FP : history'.stood[h] = IF h \in cond THEN now ELSE history.stood[h]
  BY <1>1, Notes, Steps
<1>3. CASE last'[d] = last[d]
  <2>1. PICK h \in Heartbeats(d) : last[d] <= history.stood[h]
    BY <1>3 DEF AwayInv
  <2>2. h \in FP
    BY <1>1 DEF Heartbeats
  <2>3. last[d] <= history'.stood[h]
    BY <1>1, <1>2, <2>1, <2>2
  <2> QED BY <1>3, <2>1, <2>3 DEF AwayInv
<1>4. ASSUME NEW f \in flows, Observe(f), f.fp \in rules[d].match
      PROVE  /\ engineStart <= last'[d]
             /\ \E h \in Heartbeats(d) : last'[d] <= history'.stood[h]
  <2>1. last'[d] = f.at /\ f.stage = "observe"
    BY <1>4 DEF Observe, Record
  <2>2. /\ engineStart <= f.at /\ f.at <= history.stood[f.fp] /\ f.fp \in config.watched
        /\ f.at \in Nat
    BY <1>1, <2>1 DEF FlowInv, PathType, Flows
  <2>3. f.fp \in Heartbeats(d) /\ f.fp \in FP
    BY <1>1, <1>4, <2>2 DEF Heartbeats
  <2>4. f.at <= history'.stood[f.fp]
    BY <1>1, <1>2, <2>2, <2>3
  <2> QED BY <2>1, <2>2, <2>3, <2>4
<1>5. last'[d] = last[d] \/ \E f \in flows : Observe(f) /\ f.fp \in rules[d].match
  BY EngineMoves DEF Observe, Record
<1> QED BY <1>3, <1>4, <1>5

\* A derived alert that is told of is not held up.
LEMMA ToldKept ==
    ASSUME BaseInv, SyncInv, InhibitInv, EmitNext, NEW d \in DOMAIN last, NEW a \in Nat,
           NEW b \in Nat, a <= now, Told(d, a, b), Away(d, a)'
    PROVE  Told(d, a, b)'
<1>1. /\ PathType /\ Clocks /\ FlowInv /\ now \in Nat /\ graceEnd \in Nat /\ MuteWindow \in Nat
      /\ d \in DOMAIN rules /\ d \in FP
  BY Bounds DEF BaseInv, PathType, rulesOf
<1>2. graceEnd' = graceEnd /\ (now' = now \/ TimePasses) /\ rules' = rules
  BY Frame, Same
<1>3. a > graceEnd /\ now > graceEnd + MuteWindow /\ a > history'.held[d]
  BY <1>1, <1>2 DEF Away
<1>4. Free(d) /\ history.held[d] # now
  BY <1>1, <1>3, Notes, Steps
<1>5. CASE Alive(d, a)
  BY <1>1, <1>3, <1>5, AliveKept DEF Told
<1>6. CASE now < b /\ \E f \in flows : f.fp = d
  <2>1. PICK f \in flows : f.fp = d
    BY <1>6
  <2>2. f.stage # "observe" /\ f \in Flows
    BY <1>1, <2>1 DEF FlowInv, PathType
  <2>3. now' = now
    BY <1>2, <2>2 DEF TimePasses
  <2>4. CASE \E g \in flows' : g.fp = d
    BY <1>6, <2>3, <2>4 DEF Told
  <2>5. CASE Begin(f)
    <3>1. Enter(d, flows \ {f})
      BY <2>1, <2>5 DEF Begin
    <3>2. ~inGrace
      BY <1>1, <1>3 DEF inGrace
    <3>3. CASE Refresh(d)
      BY <1>1, <1>3, <3>3, RefreshFacts, AliveNow DEF Told
    <3>4. CASE flows' = (flows \ {f}) \cup {[fp |-> d, at |-> now,
                                             stage |-> IF DOMAIN rules = {} \/ d \in DOMAIN rules
                                                       THEN "route" ELSE "observe"]}
      <4> DEFINE g == [fp |-> d, at |-> now,
                       stage |-> IF DOMAIN rules = {} \/ d \in DOMAIN rules THEN "route" ELSE "observe"]
      <4>1. g \in flows' /\ g.fp = d
        BY <3>4
      <4> QED BY <2>4, <4>1
    <3> QED BY <3>1, <3>2, <3>3, <3>4, Zenon DEF Enter
  <2>6. CASE Route(f)
    <3>1. ~Suppresses(d)
      BY <1>1, <1>4, SuppressedIsHeld
    <3>2. [f EXCEPT !.stage = "send"] \in flows' /\ [f EXCEPT !.stage = "send"].fp = d
      BY <2>1, <2>2, <2>6, <3>1 DEF Route, Flows
    <3> QED BY <2>4, <3>2
  <2>7. CASE Send(f)
    BY <1>1, <1>3, <2>1, <2>7, SendFacts, AliveNow DEF Told
  <2>8. ~Observe(f)
    BY <2>2 DEF Observe
  <2> QED BY <2>1, <2>4, <2>5, <2>6, <2>7, <2>8, FlowLeaves
<1> QED BY <1>5, <1>6 DEF Told

\* Being away lasts since the heartbeats, and what held the alert, were noted.
LEMMA AwayMono ==
    ASSUME BaseInv, EmitNext, NEW d \in DOMAIN last, NEW a \in Nat, NEW c \in Nat, c <= a,
           Away(d, c)'
    PROVE  Away(d, a) /\ Away(d, a)'
<1>1. /\ PathType /\ Clocks /\ now \in Nat /\ graceEnd \in Nat /\ MuteWindow \in Nat
      /\ d \in DOMAIN rules /\ d \in FP /\ engineStart \in Nat /\ rules[d].for \in Nat
      /\ \A h \in FP : /\ history.stood[h] \in Nat /\ history.stood[h] <= now
                       /\ history.held[h] \in Nat /\ history.held[h] <= now
      /\ Heartbeats(d) \subseteq FP
  <2>1. d \in DOMAIN rules /\ rules[d].type = "absent"
    BY DEF BaseInv, PathType, rulesOf
  <2>2. rules[d].for \in Nat
    BY <2>1, EngineConstants DEF BaseInv, PathType, rules, IsRule
  <2> QED BY <2>1, <2>2, Bounds DEF BaseInv, PathType, Clocks, Heartbeats
<1>2. graceEnd' = graceEnd /\ rules' = rules /\ engineStart' = engineStart
      /\ Heartbeats(d)' = Heartbeats(d)
  BY Frame, Same DEF Heartbeats
<1>3. \A h \in FP : /\ history'.stood[h] = IF h \in cond THEN now ELSE history.stood[h]
                    /\ history'.held[h] = IF Free(h) THEN history.held[h] ELSE now
  BY <1>1, Notes, Steps
<1>4. \A h \in FP : /\ history.stood[h] <= history'.stood[h] /\ history'.stood[h] \in Nat
                    /\ history.held[h] <= history'.held[h] /\ history'.held[h] \in Nat
  BY <1>1, <1>3
<1>5. /\ c > history'.held[d] /\ c > graceEnd + MuteWindow /\ c > engineStart + rules[d].for
      /\ \A h \in Heartbeats(d) : c > history'.stood[h] + rules[d].for
  BY <1>2 DEF Away
<1>6. /\ a > history'.held[d] /\ a > graceEnd + MuteWindow /\ a > engineStart + rules[d].for
      /\ \A h \in Heartbeats(d) : a > history'.stood[h] + rules[d].for
  BY <1>1, <1>4, <1>5
<1>7. /\ a > history.held[d]
      /\ \A h \in Heartbeats(d) : a > history.stood[h] + rules[d].for
  BY <1>1, <1>4, <1>6
<1> QED BY <1>2, <1>6, <1>7 DEF Away

LEMMA AwayStep ==
    ASSUME BaseInv, SyncInv, InhibitInv, AwayInv, EmitNext
    PROVE  AwayInv'
<1>1. /\ PathType /\ Clocks /\ FlowInv /\ now \in Nat /\ AbsentTick \in Nat /\ tickedAt \in Nat
      /\ tickedAt <= now /\ engineStart \in Nat
  BY Bounds DEF BaseInv, PathType, Clocks
<1>2. /\ (now' = now \/ TimePasses) /\ rules' = rules /\ engineStart' = engineStart
      /\ \A d : Heartbeats(d)' = Heartbeats(d)
  BY Frame, Same DEF Heartbeats
<1>3. (TimePasses => now' = now + 1) /\ now <= now' /\ now' \in Nat
  BY <1>1, <1>2 DEF TimePasses, Tick
<1>4. DOMAIN last' = DOMAIN last
  BY EngineMoves DEF Observe, Record
<1>5. ASSUME NEW d \in DOMAIN last, NEW a \in Nat, a = tickedAt', Away(d, a)',
             NEW b \in Nat, b = now' + 1
      PROVE  Told(d, a, b)'
  <2>1. CASE a = tickedAt
    <3>1. Away(d, a)
      BY <1>5, AwayMono
    <3>2. Told(d, a, now + 1)
      BY <2>1, <3>1 DEF AwayInv
    <3>3. Told(d, a, b)
      BY <1>1, <1>3, <1>5, <3>2 DEF Told
    <3> QED BY <1>1, <1>5, <2>1, <3>3, ToldKept
  <2>2. CASE Tock /\ a = now
    <3>1. d \in FP /\ Heartbeats(d) \subseteq FP /\ rules[d].for \in Nat /\ last[d] \in Nat
      <4>1. d \in DOMAIN rules /\ rules[d].type = "absent"
        BY <1>1 DEF PathType, rulesOf
      <4>2. rules[d].for \in Nat
        BY <1>1, <4>1, EngineConstants DEF PathType, rules, IsRule
      <4> QED BY <1>1, <4>1, <4>2, Bounds DEF PathType, Heartbeats
    <3>2. Away(d, a)
      BY <1>5, AwayMono
    <3>3. \A h \in Heartbeats(d) : history.stood[h] \in Nat
      BY <1>1, <3>1 DEF PathType
    <3>4. absent(d)
      <4>1. CASE last[d] = 0
        BY <1>1, <2>2, <3>1, <3>2, <4>1 DEF absent, Away
      <4>2. CASE last[d] # 0
        <5>1. PICK h \in Heartbeats(d) : last[d] <= history.stood[h]
          BY <4>2 DEF AwayInv
        <5>2. now > history.stood[h] + rules[d].for
          BY <2>2, <3>2, <5>1 DEF Away
        <5> QED BY <1>1, <3>1, <3>3, <4>2, <5>1, <5>2 DEF absent
      <4> QED BY <4>1, <4>2
    <3>5. [fp |-> d, at |-> now, stage |-> "begin"] \in flows' /\ now' = now
      BY <2>2, <3>4 DEF Tock, begun, evalAbsent, storeVars
    <3>6. \E f \in flows' : f.fp = d
      BY <3>5
    <3> QED BY <1>1, <1>3, <1>5, <3>6 DEF Told
  <2> QED BY <1>5, <2>1, <2>2, EngineMoves
<1>6. ASSUME NEW d \in DOMAIN last, NEW t \in Nat, t + AbsentTick <= now', Away(d, t)'
      PROVE  Told(d, t, t + AbsentTick)'
  <2>1. CASE t + AbsentTick <= now
    <3>1. t \in 0..now /\ t <= now /\ t + AbsentTick \in Nat
      BY <1>1, <2>1
    <3>2. Away(d, t)
      BY <1>6, AwayMono
    <3>3. Told(d, t, t + AbsentTick)
      BY <2>1, <3>1, <3>2 DEF AwayInv
    <3> QED BY <1>6, <3>1, <3>3, ToldKept
  <2>2. CASE ~(t + AbsentTick <= now)
    <3>1. TimePasses /\ t + AbsentTick = now + 1
      BY <1>1, <1>2, <1>3, <1>6, <2>2
    <3>2. now < tickedAt + AbsentTick
      BY <1>1, <3>1 DEF TimePasses, TickDue
    <3>3. t <= tickedAt /\ t <= now
      BY <1>1, <3>1, <3>2
    <3>4. Away(d, tickedAt)
      BY <1>1, <1>6, <3>3, AwayMono
    <3>5. Told(d, tickedAt, now + 1)
      BY <3>4 DEF AwayInv
    <3>6. ~\E f \in flows : f.fp = d
      <4>1. d \in DOMAIN rules
        BY <1>1 DEF PathType, rulesOf
      <4> QED BY <1>1, <3>1, <4>1 DEF TimePasses, FlowInv
    <3>7. Alive(d, tickedAt)
      BY <3>5, <3>6 DEF Told
    <3>8. Alive(d, t)
      <4>1. ResolveTTL \in Nat /\ (d \in DOMAIN active => active[d].endsAt \in Nat)
        BY <1>1, Bounds DEF PathType, IsMap, Alerts, Times
      <4> QED BY <1>1, <3>3, <3>7, <4>1 DEF Alive
    <3>9. Told(d, t, t + AbsentTick)
      BY <3>8 DEF Told
    <3>10. t + AbsentTick \in Nat
      BY <1>1
    <3> QED BY <1>6, <3>3, <3>9, <3>10, ToldKept
  <2> QED BY <2>1, <2>2
<1>7. tickedAt' \in Nat /\ now' + 1 \in Nat
  <2>1. tickedAt' = tickedAt \/ tickedAt' = now
    BY EngineMoves
  <2>2. tickedAt \in Nat /\ now \in Nat /\ now' \in Nat
    BY <1>1, <1>3
  <2>3. tickedAt' \in Nat
    BY <2>1, <2>2
  <2>4. now' + 1 \in Nat
    <3>1. \A x \in Nat : x + 1 \in Nat
      OBVIOUS
    <3> QED BY <2>2, <3>1, Zenon
  <2> QED BY <2>3, <2>4
<1> QED BY <1>2, <1>4, <1>5, <1>6, <1>7, LastStood DEF AwayInv

LEMMA AbsencePaged ==
    ASSUME AbsentTick <= ResolveTTL, BaseInv, AwayInv
    PROVE  AbsenceIsPaged
<1> SUFFICES ASSUME NEW d \in DOMAIN last,
                    \A h \in Heartbeats(d) : now > history.stood[h] + rules[d].for + AbsentTick,
                    now > engineStart + rules[d].for + AbsentTick,
                    now > Later(history.held[d], graceEnd + MuteWindow) + AbsentTick
             PROVE  d \in DOMAIN active /\ now <= active[d].endsAt
  BY DEF AbsenceIsPaged
<1>1. /\ PathType /\ now \in Nat /\ AbsentTick \in Nat /\ engineStart \in Nat /\ graceEnd \in Nat
      /\ MuteWindow \in Nat /\ ResolveTTL \in Nat
      /\ d \in DOMAIN rules /\ rules[d].type = "absent" /\ d \in FP /\ Heartbeats(d) \subseteq FP
      /\ history.held[d] \in Nat /\ \A h \in Heartbeats(d) : history.stood[h] \in Nat
  BY Bounds DEF BaseInv, PathType, rulesOf, Heartbeats
<1>2. rules[d].for \in Nat
  BY <1>1, EngineConstants DEF PathType, rules, IsRule
<1> DEFINE t == now - AbsentTick
<1>3. t \in Nat /\ t + AbsentTick = now /\ t \in 0..now /\ t > history.held[d]
      /\ t > graceEnd + MuteWindow /\ t > engineStart + rules[d].for
  BY <1>1, <1>2 DEF Later
<1>4. \A h \in Heartbeats(d) : t > history.stood[h] + rules[d].for
  BY <1>1, <1>2
<1> HIDE DEF t
<1>5. Told(d, t, t + AbsentTick)
  BY <1>1, <1>3, <1>4 DEF AwayInv, Away
<1>6. Alive(d, t)
  BY <1>1, <1>3, <1>5 DEF Told
<1>7. d \in DOMAIN active => active[d].endsAt \in Nat
  BY <1>1 DEF PathType, IsMap, Alerts, Times
<1> QED BY <1>1, <1>3, <1>6, <1>7 DEF Alive

\* A rule that fires at a tick has missed its heartbeats.
LEMMA AbsentMissed ==
    ASSUME BaseInv, FollowInv, AwayInv, NEW d \in DOMAIN last, absent(d)
    PROVE  Missed(d)
<1>1. /\ PathType /\ now \in Nat /\ engineStart \in Nat /\ graceEnd \in Nat /\ slack \in Nat
      /\ MuteWindow \in Nat /\ Resync \in Nat /\ last[d] \in Nat
      /\ rules[d].type = "absent" /\ d \in DOMAIN rules
  BY Bounds DEF BaseInv, PathType, rulesOf
<1>2. rules[d].for \in Nat
  BY <1>1, EngineConstants DEF PathType, rules, IsRule
<1>3. now > engineStart + rules[d].for
  <2>1. CASE last[d] = 0
    BY <1>1, <1>2, <2>1 DEF absent
  <2>2. CASE last[d] # 0
    <3>1. engineStart <= last[d]
      BY <2>2 DEF AwayInv
    <3>2. now - last[d] > rules[d].for
      BY <2>2 DEF absent
    <3> QED BY <1>1, <1>2, <3>1, <3>2
  <2> QED BY <2>1, <2>2
<1>4. ASSUME rules[d].for >= Unobserved, NEW h \in Heartbeats(d) \cap cond,
             ~(now <= Later(history.down[h], graceEnd) + Unobserved)
      PROVE  FALSE
  <2>1. h \in FP /\ h \in cond /\ history.down[h] \in Nat /\ h \in rules[d].match
    BY <1>1, <1>4, Bounds DEF PathType, Heartbeats
  <2>2. Unobserved = MuteWindow + Resync + 2 * slack
    BY DEF Unobserved
  <2> DEFINE t == now - Resync - slack
  <2>3. /\ t \in Nat /\ now = t + Resync + slack
        /\ t > history.down[h] /\ t > graceEnd + MuteWindow + slack /\ t > graceEnd + MuteWindow
    BY <1>1, <1>4, <2>1, <2>2 DEF Later
  <2> HIDE DEF t
  <2>4. Seen(h, t)
    BY <2>1, <2>3, Effect
  <2>5. t <= last[d] + MuteWindow + slack
    BY <2>1, <2>4 DEF Seen
  <2>6. last[d] # 0
    BY <1>1, <2>3, <2>5
  <2>7. now - last[d] > rules[d].for
    BY <2>6 DEF absent
  <2> QED BY <1>1, <1>2, <1>4, <2>2, <2>3, <2>5, <2>7
<1> QED BY <1>3, <1>4 DEF Missed

\* Every alert of an absent rule that has just fired is justified.
LEMMA BegunMissed ==
    ASSUME BaseInv, FollowInv, AwayInv, AbsentInv, EmitNext,
           NEW f \in flows', f.stage = "begin", f.fp \in DOMAIN last
    PROVE  Missed(f.fp)
<1>1. PathType /\ FlowInv
  BY DEF BaseInv
<1>2. CASE f \in flows
  BY <1>2 DEF AbsentInv
<1>3. CASE NewFlow(f)
  <2>1. f.fp \notin DOMAIN seen
    BY <1>1 DEF PathType, rulesOf
  <2>2. f.fp \in evalAbsent
    BY <1>3, <2>1 DEF NewFlow, firedBy
  <2> QED BY <2>2, AbsentMissed DEF evalAbsent
<1> QED BY <1>1, <1>2, <1>3, NewFlows

LEMMA AbsentStep ==
    ASSUME BaseInv, FollowInv, AwayInv, AbsentInv, EmitNext
    PROVE  AbsentInv'
<1> SUFFICES ASSUME NEW f \in flows', f.stage = "begin", f.fp \in DOMAIN last'
             PROVE  Missed(f.fp)'
  BY DEF AbsentInv
<1>1. PathType /\ now \in Nat /\ graceEnd \in Nat /\ slack \in Nat /\ MuteWindow \in Nat
      /\ Resync \in Nat /\ Unobserved \in Nat
  BY Bounds DEF BaseInv, PathType, Unobserved
<1>2. DOMAIN last' = DOMAIN last
  BY EngineMoves DEF Observe, Record
<1>3. Missed(f.fp)
  BY <1>2, BegunMissed
<1>4. now' = now
  BY Frame DEF TimePasses
<1>5. /\ rules' = rules /\ graceEnd' = graceEnd /\ engineStart' = engineStart
      /\ Unobserved' = Unobserved /\ Heartbeats(f.fp)' = Heartbeats(f.fp)
  BY Frame, Same DEF Unobserved, Heartbeats
<1>6. ASSUME rules[f.fp].for >= Unobserved, NEW h \in Heartbeats(f.fp) \cap cond'
      PROVE  now <= Later(history'.down[h], graceEnd) + Unobserved
  <2>1. h \in FP
    BY <1>1, Bounds DEF Heartbeats
  <2>2. history'.down[h] = IF h \in cond THEN history.down[h] ELSE now
    BY <1>1, <2>1, Notes, Steps
  <2>3. CASE h \in cond
    BY <1>3, <1>6, <2>2, <2>3 DEF Missed
  <2>4. CASE h \notin cond
    BY <1>1, <2>2, <2>4 DEF Later
  <2> QED BY <2>3, <2>4
<1>7. now > engineStart + rules[f.fp].for
  BY <1>3 DEF Missed
<1>8. Missed(f.fp)' <=>
        /\ now' > engineStart' + rules'[f.fp].for
        /\ rules'[f.fp].for >= Unobserved' =>
             \A h \in Heartbeats(f.fp)' \cap cond' :
                 now' <= Later(history'.down[h], graceEnd') + Unobserved'
  BY DEF Missed, Later
<1> QED BY <1>4, <1>5, <1>6, <1>7, <1>8, Zenon

-----------------------------------------------------------------------------
(***************************************************************************)
(* Count and all rules.                                                    *)
(***************************************************************************)
LEMMA AtMost ==
    ASSUME NEW n \in Nat, NEW M, NEW h, \A o \in M : \E i \in 1..n : h[i] = o
    PROVE  IsFiniteSet(M) /\ Cardinality(M) \in Nat /\ Cardinality(M) <= n
<1> DEFINE k == [o \in M |-> CHOOSE i \in 1..n : h[i] = o]
<1>1. \A o \in M : k[o] \in 1..n /\ h[k[o]] = o
  OBVIOUS
<1>2. k \in [M -> 1..n] /\ \A o, p \in M : k[o] = k[p] => o = p
  BY <1>1
<1>3. k \in Injection(M, 1..n)
  BY <1>2 DEF Injection, IsInjective
<1>4. IsFiniteSet(1..n) /\ Cardinality(1..n) = n
  BY FS_Interval
<1> HIDE DEF k
<1>5. IsFiniteSet(M) /\ Cardinality(M) <= n
  BY <1>3, <1>4, FS_Injection
<1> QED BY <1>5, FS_CardinalityType

LEMMA AtLeast ==
    ASSUME NEW n \in Nat, NEW M, IsFiniteSet(M), NEW h, \A i \in 1..n : h[i] \in M,
           \A i, j \in 1..n : h[i] = h[j] => i = j
    PROVE  Cardinality(M) \in Nat /\ n <= Cardinality(M)
<1> DEFINE k == [i \in 1..n |-> h[i]]
<1>1. k \in Injection(1..n, M)
  BY DEF Injection, IsInjective
<1>2. Cardinality(1..n) = n
  BY FS_Interval
<1> HIDE DEF k
<1>3. n <= Cardinality(M)
  BY <1>1, <1>2, FS_Injection
<1> QED BY <1>3, FS_CardinalityType

\* prune drops the longest prefix of old stamps.
LEMMA PruneFacts ==
    ASSUME NEW ts \in Seq(Nat), NEW t \in Nat, NEW d \in Nat
    PROVE  \E n \in 0..Len(ts) :
              /\ prune(ts, t, d) \in Seq(Nat) /\ Len(prune(ts, t, d)) = Len(ts) - n
              /\ \A i \in 1..(Len(ts) - n) : prune(ts, t, d)[i] = ts[n + i]
              /\ \A j \in 1..n : ts[j] + d < t
              /\ n < Len(ts) => ~(ts[n + 1] + d < t)
<1> DEFINE old == {i \in DOMAIN ts : \A j \in 1..i : ts[j] + d < t}
           n == Cardinality(old)
<1>1. Len(ts) \in Nat /\ DOMAIN ts = 1..Len(ts) /\ \A i \in 1..Len(ts) : ts[i] \in Nat
  OBVIOUS
<1>2. IsFiniteSet(1..Len(ts)) /\ Cardinality(1..Len(ts)) = Len(ts)
  BY <1>1, FS_Interval
<1>3. old \subseteq 1..Len(ts)
  BY <1>1
<1>4. IsFiniteSet(old) /\ n \in Nat /\ n <= Len(ts)
  BY <1>2, <1>3, FS_Subset, FS_CardinalityType
<1>5. ASSUME NEW i \in old PROVE i \in 1..n
  <2>1. i \in Nat /\ i >= 1 /\ 1..i \subseteq old
    BY <1>1
  <2>2. Cardinality(1..i) = i
    BY <2>1, FS_Interval
  <2>3. i <= n
    BY <1>4, <2>1, <2>2, FS_Subset
  <2> QED BY <1>4, <2>1, <2>3
<1> HIDE DEF n
<1>6. IsFiniteSet(1..n) /\ Cardinality(1..n) = n
  BY <1>4, FS_Interval
<1>7. old = 1..n
  BY <1>5, <1>6, FS_Subset DEF n
<1>8. prune(ts, t, d) = SubSeq(ts, n + 1, Len(ts))
  BY DEF prune, n
<1>9. \A j \in 1..n : ts[j] + d < t
  BY <1>7
<1>10. n < Len(ts) => ~(ts[n + 1] + d < t)
  <2> SUFFICES ASSUME n < Len(ts), ts[n + 1] + d < t PROVE FALSE
    OBVIOUS
  <2>1. n + 1 \in old
    <3>1. n + 1 \in DOMAIN ts
      BY <1>1, <1>4
    <3>2. ASSUME NEW j \in 1..(n + 1) PROVE ts[j] + d < t
      <4>1. j \in 1..n \/ j = n + 1
        BY <1>4
      <4> QED BY <1>9, <4>1
    <3> QED BY <3>1, <3>2
  <2> QED BY <1>4, <1>7, <2>1
<1>11. /\ SubSeq(ts, n + 1, Len(ts)) \in Seq(Nat)
       /\ Len(SubSeq(ts, n + 1, Len(ts))) = IF n + 1 <= Len(ts) THEN Len(ts) - (n + 1) + 1 ELSE 0
       /\ \A i \in 1..(Len(ts) - (n + 1) + 1) : SubSeq(ts, n + 1, Len(ts))[i] = ts[n + 1 + i - 1]
  <2>1. n + 1 \in Int /\ Len(ts) \in Int /\ \A i \in (n + 1)..Len(ts) : ts[i] \in Nat
    BY <1>1, <1>4
  <2> QED BY <2>1, SubSeqProperties
<1>12. Len(prune(ts, t, d)) = Len(ts) - n
  <2>1. Len(prune(ts, t, d)) = IF n + 1 <= Len(ts) THEN Len(ts) - (n + 1) + 1 ELSE 0
    BY <1>8, <1>11, Zenon
  <2>2. \A k, m \in Nat : k <= m => (IF k + 1 <= m THEN m - (k + 1) + 1 ELSE 0) = m - k
    OBVIOUS
  <2> QED BY <1>1, <1>4, <2>1, <2>2, Zenon
<1>13. \A i \in 1..(Len(ts) - n) : prune(ts, t, d)[i] = ts[n + i]
  <2>1. ASSUME NEW i \in 1..(Len(ts) - n)
        PROVE  i \in 1..(Len(ts) - (n + 1) + 1) /\ n + 1 + i - 1 = n + i
    BY <1>1, <1>4
  <2> QED BY <1>8, <1>11, <2>1
<1>14. n \in 0..Len(ts)
  BY <1>1, <1>4
<1> QED BY <1>8, <1>9, <1>10, <1>11, <1>12, <1>13, <1>14

\* The log grows by the observation that gets the lock.
entry(f) == [fp |-> f.fp, at |-> f.at, no |-> Cardinality(history.log)]

LEMMA ObserveLeaves ==
    ASSUME BaseInv, NEW f \in flows, Observe(f)
    PROVE  /\ f.stage = "observe" /\ f \notin flows'
           /\ \A g \in flows \ flows' : g = f
<1>1. f.stage = "observe" /\ f \in Flows /\ PathType
  BY DEF Observe, BaseInv, PathType
<1>2. firedBy(f.fp, f.at) \subseteq DOMAIN seen \cup DOMAIN last
  BY DEF firedBy
<1>3. \A g \in begun(firedBy(f.fp, f.at)) : g.stage = "begin"
  BY <1>1, <1>2, BegunFlows
<1>4. [f EXCEPT !.stage = "route", !.at = now].stage = "route"
  BY <1>1 DEF Flows
<1>5. flows' = (flows \ {f}) \cup {[f EXCEPT !.stage = "route", !.at = now]}
               \cup begun(firedBy(f.fp, f.at))
  BY DEF Observe
<1> QED BY <1>1, <1>3, <1>4, <1>5

LEMMA LogMoves ==
    ASSUME BaseInv, EmitNext
    PROVE  \/ /\ history'.log = history.log /\ seen' = seen
              /\ \A g \in flows \ flows' : g.stage # "observe"
           \/ \E f \in flows : Observe(f) /\ now' = now /\ history'.log = history.log \cup {entry(f)}
<1>1. history'.log = history.log \cup {entry(f) : f \in {g \in flows \ flows' : g.stage = "observe"}}
  BY Steps DEF Note, entry
<1>2. CASE \E f \in flows : Observe(f)
  <2>1. PICK f \in flows : Observe(f)
    BY <1>2
  <2>2. {g \in flows \ flows' : g.stage = "observe"} = {f}
    BY <2>1, ObserveLeaves
  <2>3. now' = now
    BY <2>1 DEF Observe, storeVars
  <2> QED BY <1>1, <2>1, <2>2, <2>3
<1>3. CASE ~\E f \in flows : Observe(f)
  <2>1. ASSUME NEW g \in flows \ flows' PROVE g.stage # "observe"
    BY <1>3, FlowLeaves DEF Begin, Route, Send
  <2> QED BY <1>1, <1>3, <2>1, EngineMoves
<1> QED BY <1>2, <1>3

LEMMA LogStep ==
    ASSUME BaseInv, LogInv, EmitNext
    PROVE  LogInv'
<1>1. PathType /\ FlowInv /\ now \in Nat /\ now <= now' /\ now' \in Nat
  BY Frame DEF BaseInv, PathType, TimePasses, Tick
<1>2. IsFiniteSet(history.log) /\ Cardinality(history.log) \in Nat
  BY FS_CardinalityType DEF LogInv
<1>3. CASE history'.log = history.log
  BY <1>1, <1>2, <1>3 DEF LogInv
<1>4. ASSUME NEW f \in flows, history'.log = history.log \cup {entry(f)} PROVE LogInv'
  <2>1. entry(f) \notin history.log /\ entry(f).at = f.at /\ entry(f).no = Cardinality(history.log)
    BY <1>2 DEF entry, LogInv
  <2>2. IsFiniteSet(history'.log) /\ Cardinality(history'.log) = Cardinality(history.log) + 1
    <3>1. /\ IsFiniteSet(history.log \cup {entry(f)})
          /\ Cardinality(history.log \cup {entry(f)}) = Cardinality(history.log) + 1
      BY <1>2, <2>1, FS_AddElement, Zenon
    <3> QED BY <1>4, <3>1, Zenon
  <2>3. f.at \in Nat /\ f.at <= now
    BY <1>1 DEF PathType, Flows, FlowInv
  <2> QED BY <1>1, <1>2, <1>4, <2>1, <2>2, <2>3 DEF LogInv
<1> QED BY <1>3, <1>4, LogMoves

\* A rule's window and its groups.
LEMMA WindowRules ==
    ASSUME BaseInv, NEW d \in DOMAIN seen
    PROVE  /\ d \in DOMAIN rules /\ window(d) \in Nat /\ rules[d].type \in {"count", "all"}
           /\ rules[d].type = "count" => DOMAIN groupsOf(rules[d]) = {1} /\ rules[d].threshold \in Nat
           /\ DOMAIN groupsOf(rules[d]) # {}
<1>1. d \in DOMAIN rules /\ rules[d].type \in {"count", "all"}
  BY DEF BaseInv, PathType, rulesOf
<1>2. IsRule(rules[d])
  BY <1>1, EngineConstants DEF BaseInv, PathType, rules
<1>3. window(d) \in Nat
  BY <1>1, <1>2 DEF IsRule, window
<1>4. rules[d].type = "count" => DOMAIN groupsOf(rules[d]) = {1} /\ rules[d].threshold \in Nat
  BY <1>1, <1>2 DEF IsRule, groupsOf
<1>5. rules[d].type = "all" => DOMAIN groupsOf(rules[d]) # {}
  <2> SUFFICES ASSUME rules[d].type = "all", DOMAIN rules[d].groups = {} PROVE FALSE
    BY DEF groupsOf
  <2>1. rules[d].groups \in Seq(SUBSET FP) /\ rules[d].groups # <<>>
    BY <1>2 DEF IsRule
  <2>2. Len(rules[d].groups) \in Nat /\ DOMAIN rules[d].groups = 1..Len(rules[d].groups)
        /\ Len(rules[d].groups) # 0
    BY <2>1, EmptySeq, LenProperties
  <2>3. 1 \in 1..Len(rules[d].groups)
    BY <2>2
  <2> QED BY <2>2, <2>3
<1> QED BY <1>1, <1>3, <1>4, <1>5

\* The stamps of a group, and the observations that they are, after an append.
LEMMA AppendKeeps ==
    ASSUME BaseInv, NEW ts, NEW E, NEW W \in Nat, StandsFor(ts, E, W),
           NEW e, e \notin E, e.at \in Nat, e.at <= now, now <= e.at + slack
    PROVE  StandsFor(Append(ts, e.at), E \cup {e}, W)
<1>a. PICK h \in [DOMAIN ts -> E] :
         Lists(h, ts) /\ \A o \in E : o.at + W < now \/ \E i \in DOMAIN ts : h[i] = o
  BY DEF StandsFor
<1>b. ts \in Seq(Nat) /\ Ordered(ts, now)
  BY DEF StandsFor
<1> DEFINE us == Append(ts, e.at)
           n == Len(ts)
           k == [i \in 1..(n + 1) |-> IF i = n + 1 THEN e ELSE h[i]]
<1>1. /\ n \in Nat /\ DOMAIN ts = 1..n /\ us \in Seq(Nat) /\ DOMAIN us = 1..(n + 1)
      /\ us[n + 1] = e.at /\ \A i \in 1..n : us[i] = ts[i] /\ ts[i] \in Nat
  BY <1>b, AppendProperties, LenProperties
<1>2. now \in Nat /\ slack \in Nat
  BY Bounds DEF BaseInv, PathType
<1>3. \A i \in 1..(n + 1) : i \in 1..n \/ i = n + 1
  BY <1>1
<1>4. 1..n \subseteq 1..(n + 1) /\ n + 1 \in 1..(n + 1) /\ n + 1 \notin 1..n
  BY <1>1
<1>5. \A i \in 1..n : k[i] = h[i] /\ h[i] \in E /\ h[i].at = ts[i]
  BY <1>a, <1>1, <1>4 DEF Lists
<1>6. k[n + 1] = e
  BY <1>4
<1> HIDE DEF k, us, n
<1>7. \A i \in 1..(n + 1) : us[i] <= now
  BY <1>b, <1>1, <1>3 DEF Ordered
<1>8. ASSUME NEW i \in 1..(n + 1), NEW j \in 1..(n + 1), i < j PROVE us[i] <= us[j] + slack
  <2>1. i \in 1..n
    BY <1>1, <1>8
  <2>2. CASE j = n + 1
    <3>1. us[i] = ts[i] /\ ts[i] \in Nat /\ us[j] = e.at
      BY <1>1, <2>1, <2>2
    <3>2. ts[i] <= now
      BY <1>b, <1>1, <2>1 DEF Ordered
    <3> QED BY <1>2, <3>1, <3>2
  <2>3. CASE j \in 1..n
    BY <1>b, <1>1, <1>8, <2>1, <2>3 DEF Ordered
  <2> QED BY <1>3, <2>2, <2>3
<1>9. k \in [DOMAIN us -> E \cup {e}]
  <2>1. \A i \in 1..(n + 1) : k[i] \in E \cup {e}
    BY <1>3, <1>5, <1>6
  <2>2. k = [i \in 1..(n + 1) |-> k[i]]
    BY DEF k
  <2> QED BY <1>1, <2>1, <2>2
<1>10. Lists(k, us)
  <2>1. ASSUME NEW i \in 1..(n + 1), NEW j \in 1..(n + 1), k[i] = k[j] PROVE i = j
    <3>1. i \in 1..n /\ j \in 1..n => h[i] = h[j]
      BY <1>5, <2>1
    <3>2. i \in 1..n /\ j \in 1..n => i = j
      BY <1>a, <1>1, <3>1 DEF Lists
    <3> QED BY <1>3, <1>5, <1>6, <2>1, <3>2
  <2>2. \A i \in 1..(n + 1) : k[i].at = us[i]
    BY <1>1, <1>3, <1>5, <1>6
  <2> QED BY <1>1, <2>1, <2>2 DEF Lists
<1>11. \A o \in E \cup {e} : o.at + W < now \/ \E i \in DOMAIN us : k[i] = o
  BY <1>a, <1>1, <1>4, <1>5, <1>6
<1>12. Ordered(us, now)
  BY <1>1, <1>7, <1>8 DEF Ordered
<1>13. us \in Seq(Nat)
  BY <1>1
<1>14. StandsFor(us, E \cup {e}, W)
  BY <1>9, <1>10, <1>11, <1>12, <1>13 DEF StandsFor
<1> QED BY <1>14 DEF us

\* The same after a prune, which leaves stamps that are not much too old.
LEMMA PruneKeeps ==
    ASSUME BaseInv, NEW ts, NEW E, NEW W \in Nat, StandsFor(ts, E, W),
           NEW t \in Nat, t <= now, now <= t + slack, NEW us, us = prune(ts, t, W)
    PROVE  /\ StandsFor(us, E, W)
           /\ \A i \in DOMAIN us : now <= us[i] + W + 2 * slack
<1>a. PICK h \in [DOMAIN ts -> E] :
         Lists(h, ts) /\ \A o \in E : o.at + W < now \/ \E i \in DOMAIN ts : h[i] = o
  BY DEF StandsFor
<1>b. ts \in Seq(Nat) /\ Ordered(ts, now)
  BY DEF StandsFor
<1>1. PICK n \in 0..Len(ts) :
         /\ us \in Seq(Nat) /\ Len(us) = Len(ts) - n
         /\ \A i \in 1..(Len(ts) - n) : us[i] = ts[n + i]
         /\ \A j \in 1..n : ts[j] + W < t
         /\ n < Len(ts) => ~(ts[n + 1] + W < t)
  BY <1>b, PruneFacts, Zenon
<1> DEFINE m == Len(ts) - n
           k == [i \in 1..m |-> h[n + i]]
<1>2. /\ Len(ts) \in Nat /\ n \in Nat /\ m \in Nat /\ DOMAIN ts = 1..Len(ts) /\ DOMAIN us = 1..m
      /\ \A i \in 1..Len(ts) : ts[i] \in Nat
  <2>1. Len(ts) \in Nat /\ DOMAIN ts = 1..Len(ts) /\ \A i \in 1..Len(ts) : ts[i] \in Nat
    BY <1>b, LenProperties
  <2>2. n \in Nat /\ m \in Nat
    BY <2>1
  <2>3. DOMAIN us = 1..m
    BY <1>1, LenProperties
  <2> QED BY <2>1, <2>2, <2>3
<1>3. now \in Nat /\ slack \in Nat
  BY Bounds DEF BaseInv, PathType
<1>4. ASSUME NEW i \in 1..m
      PROVE  n + i \in 1..Len(ts) /\ us[i] = ts[n + i] /\ us[i] \in Nat /\ k[i] = h[n + i]
  <2>1. n + i \in 1..Len(ts)
    BY <1>2
  <2>2. us[i] = ts[n + i]
    BY <1>1
  <2>3. k[i] = h[n + i]
    OBVIOUS
  <2> QED BY <1>2, <2>1, <2>2, <2>3
<1>5. \A j \in 1..Len(ts) : j \in 1..n \/ (j - n \in 1..m /\ n + (j - n) = j)
  BY <1>2
<1> HIDE DEF k
<1>6. Ordered(us, now)
  <2>1. \A i \in 1..m : us[i] <= now
    BY <1>b, <1>2, <1>4 DEF Ordered
  <2>2. ASSUME NEW i \in 1..m, NEW j \in 1..m, i < j PROVE us[i] <= us[j] + slack
    <3>1. n + i < n + j
      BY <1>2, <2>2
    <3>2. n + i \in DOMAIN ts /\ n + j \in DOMAIN ts /\ us[i] = ts[n + i] /\ us[j] = ts[n + j]
      BY <1>2, <1>4
    <3>3. ts[n + i] <= ts[n + j] + slack
      BY <1>b, <3>1, <3>2 DEF Ordered
    <3> QED BY <3>2, <3>3
  <2> QED BY <1>2, <2>1, <2>2 DEF Ordered
<1>7. k \in [DOMAIN us -> E]
  <2>1. \A i \in 1..m : k[i] \in E
    BY <1>a, <1>2, <1>4
  <2>2. k = [i \in 1..m |-> k[i]]
    BY DEF k
  <2> QED BY <1>2, <2>1, <2>2
<1>8. Lists(k, us)
  <2>1. ASSUME NEW i \in 1..m, NEW j \in 1..m, k[i] = k[j] PROVE i = j
    <3>1. n + i = n + j
      <4>1. n + i \in DOMAIN ts /\ n + j \in DOMAIN ts /\ h[n + i] = h[n + j]
        BY <1>2, <1>4, <2>1
      <4> QED BY <1>a, <4>1, Zenon DEF Lists
    <3> QED BY <1>2, <3>1
  <2>2. ASSUME NEW i \in 1..m PROVE k[i].at = us[i]
    <3>1. n + i \in DOMAIN ts /\ k[i] = h[n + i] /\ us[i] = ts[n + i]
      BY <1>2, <1>4
    <3>2. h[n + i].at = ts[n + i]
      BY <1>a, <3>1, Zenon DEF Lists
    <3> QED BY <3>1, <3>2
  <2> QED BY <1>2, <2>1, <2>2 DEF Lists
<1>9. ASSUME NEW o \in E, ~(o.at + W < now) PROVE \E i \in DOMAIN us : k[i] = o
  <2>1. PICK j \in 1..Len(ts) : h[j] = o
    BY <1>a, <1>2, <1>9
  <2>2. o.at = ts[j] /\ ts[j] \in Nat
    BY <1>a, <1>2, <2>1 DEF Lists
  <2>3. j \notin 1..n
    <3> SUFFICES ASSUME j \in 1..n PROVE FALSE
      OBVIOUS
    <3>1. ts[j] + W < t
      BY <1>1
    <3> QED BY <1>3, <1>9, <2>2, <3>1
  <2>4. j - n \in 1..m /\ n + (j - n) = j
    BY <1>5, <2>3
  <2>5. k[j - n] = o
    BY <1>4, <2>1, <2>4
  <2> QED BY <1>2, <2>4, <2>5
<1>10. ASSUME NEW i \in 1..m PROVE now <= us[i] + W + 2 * slack
  <2>1. n < Len(ts) /\ n + 1 \in 1..Len(ts) /\ 1 \in 1..m
    BY <1>2
  <2>2. ts[n + 1] + W >= t /\ ts[n + 1] \in Nat
    BY <1>1, <1>2, <2>1
  <2>3. us[1] = ts[n + 1] /\ us[i] \in Nat
    BY <1>4, <2>1
  <2>4. us[1] <= us[i] + slack
    <3>1. CASE i = 1
      BY <1>3, <2>2, <2>3, <3>1
    <3>2. CASE 1 < i
      BY <1>2, <1>6, <2>1, <3>2 DEF Ordered
    <3> QED BY <1>2, <3>1, <3>2
  <2>5. \A x, y, z \in Nat : x + W >= t /\ x <= y + z /\ now <= t + z => now <= y + W + 2 * z
    BY <1>3
  <2> QED BY <1>3, <2>2, <2>3, <2>4, <2>5
<1>11. StandsFor(us, E, W)
  BY <1>1, <1>6, <1>7, <1>8, <1>9 DEF StandsFor
<1> QED BY <1>2, <1>10, <1>11

\* The entries of a group after an observation.
after(d, g, f) ==
    IF f.fp \in groupsOf(rules[d])[g] THEN Entries(d, g) \cup {entry(f)} ELSE Entries(d, g)

LEMMA Recorded ==
    ASSUME BaseInv, LogInv, SeenInv, NEW f \in flows, Observe(f),
           NEW d \in DOMAIN seen, NEW g \in DOMAIN seen[d], NEW us, us = appended(d, f.fp, f.at)[g]
    PROVE  /\ StandsFor(us, after(d, g, f), window(d))
           /\ \A i \in DOMAIN us : now <= us[i] + window(d) + 2 * slack
<1>1. PathType /\ FlowInv /\ now \in Nat /\ slack \in Nat /\ window(d) \in Nat
  BY Bounds, WindowRules DEF BaseInv, PathType
<1>2. f.at \in Nat /\ f.at <= now /\ now <= f.at + slack
  BY <1>1 DEF PathType, Flows, FlowInv
<1> DEFINE ts == seen[d][g]
           W == window(d)
           as == IF f.fp \in groupsOf(rules[d])[g] THEN Append(ts, f.at) ELSE ts
<1>3. us = prune(as, f.at, W)
  BY DEF appended, window
<1>4. StandsFor(ts, Entries(d, g), W)
  BY DEF SeenInv
<1>5. entry(f) \notin Entries(d, g) /\ entry(f).at = f.at
  <2>1. Cardinality(history.log) \in Nat
    BY FS_CardinalityType DEF LogInv
  <2> QED BY <2>1 DEF entry, Entries, LogInv
<1> HIDE DEF ts, W
<1>6. StandsFor(as, after(d, g, f), W)
  <2>1. CASE f.fp \in groupsOf(rules[d])[g]
    <3>1. StandsFor(Append(ts, entry(f).at), Entries(d, g) \cup {entry(f)}, W)
      <4>1. W \in Nat
        BY <1>1 DEF W
      <4> QED BY <1>2, <1>4, <1>5, <4>1, AppendKeeps
    <3> QED BY <1>5, <2>1, <3>1 DEF after
  <2>2. CASE f.fp \notin groupsOf(rules[d])[g]
    BY <1>4, <2>2 DEF after
  <2> QED BY <2>1, <2>2
<1> HIDE DEF as
<1>7. W \in Nat
  BY <1>1 DEF W
<1>8. StandsFor(us, after(d, g, f), W) /\ \A i \in DOMAIN us : now <= us[i] + W + 2 * slack
  BY <1>2, <1>3, <1>6, <1>7, PruneKeeps
<1> QED BY <1>8 DEF W

LEMMA EntriesAfter ==
    ASSUME BaseInv, EmitNext, NEW f \in flows, history'.log = history.log \cup {entry(f)},
           NEW d, NEW g
    PROVE  Entries(d, g)' = after(d, g, f)
<1>1. rules' = rules
  BY Frame, Same
<1>2. entry(f).fp = f.fp
  BY DEF entry
<1> QED BY <1>1, <1>2 DEF Entries, after

LEMMA SeenStep ==
    ASSUME BaseInv, LogInv, SeenInv, EmitNext
    PROVE  SeenInv'
<1>1. rules' = rules /\ now \in Nat /\ now' \in Nat /\ now <= now' /\ slack' = slack
  BY Frame, Same DEF BaseInv, PathType, TimePasses, Tick
<1>2. \A d : window(d)' = window(d)
  BY <1>1 DEF window
<1>3. CASE history'.log = history.log /\ seen' = seen
  <2>2. ASSUME NEW d \in DOMAIN seen, NEW g \in DOMAIN seen[d]
        PROVE  StandsFor(seen[d][g], Entries(d, g), window(d))'
    <3> DEFINE ts == seen[d][g]
               E == Entries(d, g)
               W == window(d)
    <3>1. StandsFor(ts, E, W) /\ W \in Nat
      BY WindowRules DEF SeenInv
    <3>2. seen'[d][g] = ts /\ Entries(d, g)' = E /\ window(d)' = W
      BY <1>1, <1>2, <1>3 DEF Entries
    <3>3. \A o \in E : o.at \in Nat
      BY DEF Entries, LogInv
    <3>4. /\ ts \in Seq(Nat) /\ \A i \in DOMAIN ts : ts[i] \in Nat
      BY <3>1 DEF StandsFor
    <3> HIDE DEF ts, E, W
    <3>5. Ordered(ts, now)
      BY <3>1 DEF StandsFor
    <3>6. /\ \A i \in DOMAIN ts : ts[i] <= now'
          /\ \A i, j \in DOMAIN ts : i < j => ts[i] <= ts[j] + slack'
      BY <1>1, <3>4, <3>5 DEF Ordered
    <3>7. \E k \in [DOMAIN ts -> E] :
             /\ Lists(k, ts)
             /\ \A o \in E : o.at + W < now' \/ \E i \in DOMAIN ts : k[i] = o
      <4>1. PICK k \in [DOMAIN ts -> E] :
               /\ Lists(k, ts)
               /\ \A o \in E : o.at + W < now \/ \E i \in DOMAIN ts : k[i] = o
        BY <3>1 DEF StandsFor
      <4>2. \A o \in E : o.at + W < now => o.at + W < now'
        BY <1>1, <3>1, <3>3
      <4> QED BY <4>1, <4>2
    <3> QED BY <3>2, <3>4, <3>6, <3>7, SMTT(40) DEF StandsFor, Ordered, Lists
  <2> QED BY <1>1, <1>3, <2>2 DEF SeenInv
<1>4. ASSUME NEW f \in flows, Observe(f), now' = now, history'.log = history.log \cup {entry(f)}
      PROVE  SeenInv'
  <2>1. seen' = [d \in DOMAIN seen |-> appended(d, f.fp, f.at)]
    BY <1>4 DEF Observe, Record
  <2>2. \A d \in DOMAIN seen : DOMAIN appended(d, f.fp, f.at) = DOMAIN seen[d]
    BY DEF appended
  <2>3. ASSUME NEW d \in DOMAIN seen, NEW g \in DOMAIN seen[d]
        PROVE  StandsFor(seen[d][g], Entries(d, g), window(d))'
    <3>1. seen'[d][g] = appended(d, f.fp, f.at)[g]
      BY <2>1
    <3>2. StandsFor(seen'[d][g], after(d, g, f), window(d))
      BY <1>4, <3>1, Recorded
    <3>3. Entries(d, g)' = after(d, g, f)
      BY <1>4, EntriesAfter
    <3> QED BY <1>1, <1>2, <1>4, <3>2, <3>3, SMTT(40) DEF StandsFor, Ordered, Lists
  <2> QED BY <1>1, <2>1, <2>2, <2>3 DEF SeenInv
<1> QED BY <1>3, <1>4, LogMoves

\* The rule's condition on the observations from t on, after an observation.
counted(d, g, f, t) == {o \in after(d, g, f) : o.at >= t}

MeetsAfter(d, f, t) ==
    IF rules[d].type = "count" THEN Cardinality(counted(d, 1, f, t)) >= rules[d].threshold
    ELSE \A g \in DOMAIN groupsOf(rules[d]) : counted(d, g, f, t) # {}

LEMMA MeetsIs ==
    ASSUME BaseInv, EmitNext, NEW f \in flows, history'.log = history.log \cup {entry(f)},
           NEW d, NEW t
    PROVE  Meets(d, t)' <=> MeetsAfter(d, f, t)
<1>1. rules' = rules
  BY Frame, Same
<1>2. \A g : Entries(d, g)' = after(d, g, f)
  BY EntriesAfter
<1>3. \A g : InLog(d, g, t)' = counted(d, g, f, t)
  BY <1>2, Zenon DEF InLog, counted
<1>4. Meets(d, t)' <=>
        IF rules[d].type = "count" THEN Cardinality(InLog(d, 1, t)') >= rules[d].threshold
        ELSE \A g \in DOMAIN groupsOf(rules[d]) : InLog(d, g, t)' # {}
  BY <1>1, Zenon DEF Meets, groupsOf
<1> QED BY <1>3, <1>4, Zenon DEF MeetsAfter

\* A recorded list holds the observations of its window, each once, and few others.
Holds(us, h, few, all) ==
    /\ us \in Seq(Nat)
    /\ \A i \in 1..Len(us) : h[i] \in few
    /\ \A i, j \in 1..Len(us) : h[i] = h[j] => i = j
    /\ \A o \in all : \E i \in 1..Len(us) : h[i] = o

LEMMA Between ==
    ASSUME BaseInv, LogInv, SeenInv, NEW f \in flows, Observe(f),
           NEW d \in DOMAIN seen, NEW g \in DOMAIN seen[d], NEW us, us = appended(d, f.fp, f.at)[g]
    PROVE  \E h : Holds(us, h, counted(d, g, f, from(d, 2 * slack)), counted(d, g, f, from(d, 0)))
<1> DEFINE E == after(d, g, f)
           W == window(d)
           n == Len(us)
<1>1. now \in Nat /\ slack \in Nat /\ W \in Nat
  BY Bounds, WindowRules DEF BaseInv, PathType
<1>2. StandsFor(us, E, W) /\ \A i \in DOMAIN us : now <= us[i] + W + 2 * slack
  BY Recorded
<1>3. us \in Seq(Nat) /\ n \in Nat /\ DOMAIN us = 1..n /\ \A i \in 1..n : us[i] \in Nat
  BY <1>2, LenProperties DEF StandsFor
<1>4. PICK h \in [DOMAIN us -> E] :
         Lists(h, us) /\ \A o \in E : o.at + W < now \/ \E i \in DOMAIN us : h[i] = o
  BY <1>2 DEF StandsFor
<1>5. \A x, y, z \in Nat :
         /\ x <= y + z => y >= IF x < z THEN 0 ELSE x - z
         /\ y >= (IF x < z THEN 0 ELSE x - z) => ~(y + z < x)
  OBVIOUS
<1>6. /\ W + 2 * slack \in Nat
      /\ from(d, 2 * slack) = IF now < W + 2 * slack THEN 0 ELSE now - (W + 2 * slack)
      /\ from(d, 0) = IF now < W THEN 0 ELSE now - W
  <2>1. \A x, y, z \in Nat : /\ x - y - 2 * z = x - (y + 2 * z) /\ y + 2 * z \in Nat
                             /\ y + 0 = y /\ x - y - 0 = x - y
    OBVIOUS
  <2> QED BY <1>1, <2>1 DEF from
<1>7. \A o \in E : o.at \in Nat
  <2>1. f.at \in Nat
    BY DEF BaseInv, PathType, Flows
  <2> QED BY <2>1 DEF after, Entries, LogInv, entry
<1> HIDE DEF E, W, n
<1>8. ASSUME NEW i \in 1..n PROVE h[i] \in E /\ h[i].at >= from(d, 2 * slack)
  <2>1. h[i] \in E /\ h[i].at = us[i] /\ us[i] \in Nat
    BY <1>3, <1>4 DEF Lists
  <2>2. now <= us[i] + W + 2 * slack
    BY <1>2, <1>3
  <2>3. now <= us[i] + (W + 2 * slack)
    BY <1>1, <2>1, <2>2
  <2> QED BY <1>1, <1>5, <1>6, <2>1, <2>3
<1>9. ASSUME NEW o \in E, o.at >= from(d, 0) PROVE \E i \in 1..n : h[i] = o
  <2>1. ~(o.at + W < now)
    BY <1>1, <1>5, <1>6, <1>7, <1>9
  <2> QED BY <1>3, <1>4, <2>1
<1>10. \A i, j \in 1..n : h[i] = h[j] => i = j
  BY <1>3, <1>4 DEF Lists
<1>11. /\ \A i \in 1..n : h[i] \in counted(d, g, f, from(d, 2 * slack))
       /\ \A o \in counted(d, g, f, from(d, 0)) : \E i \in 1..n : h[i] = o
  BY <1>8, <1>9 DEF counted, E
<1>12. Holds(us, h, counted(d, g, f, from(d, 2 * slack)), counted(d, g, f, from(d, 0)))
  BY <1>3, <1>10, <1>11, Zenon DEF Holds, n
<1> QED BY <1>12

LEMMA AfterFinite ==
    ASSUME LogInv, NEW d, NEW g, NEW f, NEW t
    PROVE  IsFiniteSet(counted(d, g, f, t))
<1>1. IsFiniteSet(history.log \cup {entry(f)})
  BY FS_AddElement DEF LogInv
<1>2. counted(d, g, f, t) \subseteq history.log \cup {entry(f)}
  BY DEF counted, after, Entries
<1> QED BY <1>1, <1>2, FS_Subset

LEMMA FiredMeets ==
    ASSUME BaseInv, LogInv, SeenInv, NEW f \in flows, Observe(f), NEW d \in firedBy(f.fp, f.at)
    PROVE  MeetsAfter(d, f, from(d, 2 * slack))
<1> DEFINE t == from(d, 2 * slack)
           groups == appended(d, f.fp, f.at)
<1>1. d \in DOMAIN seen /\ fires(d, groups)
  BY DEF firedBy
<1>2. DOMAIN groups = DOMAIN seen[d] /\ DOMAIN seen[d] = DOMAIN groupsOf(rules[d])
  BY <1>1 DEF appended, SeenInv
<1> HIDE DEF groups, t
<1>3. CASE rules[d].type = "count"
  <2>1. 1 \in DOMAIN seen[d] /\ rules[d].threshold \in Nat
    BY <1>1, <1>2, <1>3, WindowRules
  <2>2. PICK h : Holds(groups[1], h, counted(d, 1, f, t), counted(d, 1, f, from(d, 0)))
    BY <1>1, <2>1, Between DEF groups, t
  <2> DEFINE n == Len(groups[1])
  <2>3. /\ n \in Nat /\ \A i \in 1..n : h[i] \in counted(d, 1, f, t)
        /\ \A i, j \in 1..n : h[i] = h[j] => i = j
    BY <2>2, LenProperties DEF Holds
  <2>4. n >= rules[d].threshold
    BY <1>1, <1>3 DEF fires
  <2> HIDE DEF n
  <2>5. Cardinality(counted(d, 1, f, t)) \in Nat /\ n <= Cardinality(counted(d, 1, f, t))
    BY <2>3, AfterFinite, AtLeast
  <2> QED BY <1>3, <2>1, <2>3, <2>4, <2>5 DEF MeetsAfter, t
<1>4. CASE rules[d].type # "count"
  <2>1. ASSUME NEW g \in DOMAIN groupsOf(rules[d]) PROVE counted(d, g, f, t) # {}
    <3>1. groups[g] # <<>>
      BY <1>1, <1>2, <1>4 DEF fires, allGroupsActive
    <3>2. PICK h : Holds(groups[g], h, counted(d, g, f, t), counted(d, g, f, from(d, 0)))
      BY <1>1, <1>2, Between DEF groups, t
    <3>3. groups[g] \in Seq(Nat) /\ \A i \in 1..Len(groups[g]) : h[i] \in counted(d, g, f, t)
      BY <3>2 DEF Holds
    <3>4. Len(groups[g]) \in Nat /\ Len(groups[g]) # 0
      BY <3>1, <3>3, EmptySeq, LenProperties
    <3>5. 1 \in 1..Len(groups[g])
      BY <3>4
    <3> QED BY <3>3, <3>5
  <2> QED BY <1>4, <2>1 DEF MeetsAfter, t
<1> QED BY <1>3, <1>4

LEMMA MeetsFires ==
    ASSUME BaseInv, LogInv, SeenInv, NEW f \in flows, Observe(f), NEW d \in DOMAIN seen,
           MeetsAfter(d, f, from(d, 0))
    PROVE  d \in firedBy(f.fp, f.at)
<1> DEFINE t == from(d, 0)
           groups == appended(d, f.fp, f.at)
<1>1. DOMAIN groups = DOMAIN seen[d] /\ DOMAIN seen[d] = DOMAIN groupsOf(rules[d])
  BY DEF appended, SeenInv
<1>2. fires(d, groups) => d \in firedBy(f.fp, f.at)
  BY DEF firedBy
<1> HIDE DEF groups, t
<1>3. CASE rules[d].type = "count"
  <2>1. 1 \in DOMAIN seen[d] /\ rules[d].threshold \in Nat
    BY <1>1, <1>3, WindowRules
  <2> DEFINE n == Len(groups[1])
  <2>2. PICK h : /\ n \in Nat
                 /\ \A o \in counted(d, 1, f, t) : \E i \in 1..n : h[i] = o
    <3>1. PICK h : Holds(groups[1], h, counted(d, 1, f, from(d, 2 * slack)), counted(d, 1, f, t))
      BY <2>1, Between DEF groups, t
    <3> QED BY <3>1, LenProperties DEF Holds
  <2> HIDE DEF n
  <2>3. Cardinality(counted(d, 1, f, t)) \in Nat /\ Cardinality(counted(d, 1, f, t)) <= n
    BY <2>2, AtMost
  <2>4. Cardinality(counted(d, 1, f, t)) >= rules[d].threshold
    BY <1>3 DEF MeetsAfter, t
  <2> QED BY <1>2, <1>3, <2>1, <2>2, <2>3, <2>4 DEF fires, n
<1>4. CASE rules[d].type # "count"
  <2>1. ASSUME NEW g \in DOMAIN groups PROVE groups[g] # <<>>
    <3>1. PICK h : Holds(groups[g], h, counted(d, g, f, from(d, 2 * slack)), counted(d, g, f, t))
      BY <1>1, Between DEF groups, t
    <3>2. PICK o \in counted(d, g, f, t) : TRUE
      BY <1>1, <1>4 DEF MeetsAfter, t
    <3>3. PICK i \in 1..Len(groups[g]) : h[i] = o
      BY <3>1, <3>2 DEF Holds
    <3>4. Len(groups[g]) # 0
      BY <3>3
    <3> QED BY <3>1, <3>4, EmptySeq
  <2>2. groups # <<>>
    <3>1. DOMAIN groups # {}
      BY <1>1, WindowRules
    <3> QED BY <3>1
  <2> QED BY <1>2, <1>4, <2>1, <2>2 DEF fires, allGroupsActive
<1> QED BY <1>3, <1>4

\* The log only grows.
LEMMA MeetsGrows ==
    ASSUME BaseInv, LogInv, EmitNext, NEW d \in DOMAIN seen, NEW t, Meets(d, t)
    PROVE  Meets(d, t)'
<1>1. rules' = rules /\ LogInv'
  BY Frame, Same, LogStep
<1>2. history.log \subseteq history'.log
  BY LogMoves
<1>3. \A g : InLog(d, g, t) \subseteq InLog(d, g, t)'
  BY <1>1, <1>2 DEF InLog, Entries
<1>4. \A g : IsFiniteSet(InLog(d, g, t)')
  <2>1. \A g : InLog(d, g, t)' \subseteq history'.log
    BY DEF InLog, Entries
  <2>2. IsFiniteSet(history'.log)
    BY <1>1 DEF LogInv
  <2> QED BY <2>1, <2>2, FS_Subset
<1>5. Meets(d, t)' <=>
        IF rules[d].type = "count" THEN Cardinality(InLog(d, 1, t)') >= rules[d].threshold
        ELSE \A g \in DOMAIN groupsOf(rules[d]) : InLog(d, g, t)' # {}
  BY <1>1, Zenon DEF Meets, groupsOf
<1>6. CASE rules[d].type = "count"
  <2>1. /\ Cardinality(InLog(d, 1, t)) \in Nat /\ Cardinality(InLog(d, 1, t)') \in Nat
        /\ Cardinality(InLog(d, 1, t)) <= Cardinality(InLog(d, 1, t)')
    BY <1>3, <1>4, FS_Subset, FS_CardinalityType
  <2>2. rules[d].threshold \in Nat
    BY <1>6, WindowRules
  <2>3. Cardinality(InLog(d, 1, t)) >= rules[d].threshold
    BY <1>6 DEF Meets
  <2> QED BY <1>5, <1>6, <2>1, <2>2, <2>3
<1>7. CASE rules[d].type # "count"
  BY <1>3, <1>5, <1>7 DEF Meets
<1> QED BY <1>6, <1>7

LEMMA BegunMeets ==
    ASSUME BaseInv, LogInv, SeenInv, BegunInv, EmitNext,
           NEW f \in flows', f.stage = "begin", f.fp \in DOMAIN seen, NEW t, t = from(f.fp, 2 * slack)
    PROVE  Meets(f.fp, t)' /\ now' = now
<1>1. PathType /\ FlowInv
  BY DEF BaseInv
<1>2. CASE f \in flows
  <2>1. Meets(f.fp, t)
    BY <1>2 DEF BegunInv
  <2>2. now' = now
    BY <1>2, Frame DEF TimePasses
  <2> QED BY <2>1, <2>2, MeetsGrows
<1>3. CASE NewFlow(f)
  <2>1. f.fp \notin DOMAIN last
    BY <1>1 DEF PathType, rulesOf
  <2>2. PICK g \in flows : f.fp \in firedBy(g.fp, g.at) /\ Observe(g)
    BY <1>3, <2>1 DEF NewFlow, evalAbsent
  <2>3. MeetsAfter(f.fp, g, t)
    BY <2>2, FiredMeets
  <2>4. g.stage = "observe" /\ g \in flows \ flows'
    BY <2>2, ObserveLeaves
  <2>5. PICK x \in flows : Observe(x) /\ now' = now /\ history'.log = history.log \cup {entry(x)}
    BY <2>4, LogMoves
  <2>6. x = g
    BY <2>2, <2>5, ObserveLeaves
  <2> QED BY <2>3, <2>5, <2>6, MeetsIs
<1> QED BY <1>1, <1>2, <1>3, NewFlows

LEMMA BegunStep ==
    ASSUME BaseInv, LogInv, SeenInv, BegunInv, EmitNext
    PROVE  BegunInv'
<1> SUFFICES ASSUME NEW f \in flows', f.stage = "begin", f.fp \in DOMAIN seen'
             PROVE  Meets(f.fp, from(f.fp, 2 * slack))'
  BY DEF BegunInv
<1>0. PICK t : t = from(f.fp, 2 * slack)
  OBVIOUS
<1>1. f.fp \in DOMAIN seen
  BY EngineMoves DEF Observe, Record
<1>2. Meets(f.fp, t)' /\ now' = now
  BY <1>0, <1>1, BegunMeets
<1>3. rules' = rules /\ slack' = slack
  BY Frame, Same
<1>4. from(f.fp, 2 * slack)' = t
  BY <1>0, <1>2, <1>3 DEF from, window
<1>5. Meets(f.fp, t)' = Meets(f.fp, from(f.fp, 2 * slack))'
  BY <1>4, Zenon DEF Meets, InLog
<1> QED BY <1>2, <1>5

\* A step that observes makes the right rules fire.
LEMMA WindowsStep ==
    ASSUME BaseInv, LogInv, SeenInv, BegunInv, EmitNext,
           NEW g \in flows \ flows', g.stage = "observe", NEW d \in DOMAIN seen
    PROVE  FiresForItsWindow(d)
<1>1. PICK f \in flows : Observe(f) /\ now' = now /\ history'.log = history.log \cup {entry(f)}
  BY LogMoves
<1>2. ASSUME NEW t PROVE Satisfied(d, t) <=> Meets(d, t)'
  <2>1. rules' = rules
    BY Frame, Same
  <2>2. \A k : InLog(d, k, t)' = Matching(d, k, t)
    BY <2>1 DEF InLog, Entries, Matching
  <2>3. Meets(d, t)' <=>
          IF rules[d].type = "count" THEN Cardinality(InLog(d, 1, t)') >= rules[d].threshold
          ELSE \A k \in DOMAIN groupsOf(rules[d]) : InLog(d, k, t)' # {}
    BY <2>1, Zenon DEF Meets, groupsOf
  <2> QED BY <2>2, <2>3, Zenon DEF Satisfied
<1>3. ASSUME Satisfied(d, from(d, 0)) PROVE FiresInStep(d)
  <2>1. MeetsAfter(d, f, from(d, 0))
    <3>0. PICK t : t = from(d, 0)
      OBVIOUS
    <3>1. Meets(d, t)'
      BY <1>2, <1>3, <3>0
    <3>2. MeetsAfter(d, f, t)
      BY <1>1, <3>1, MeetsIs
    <3> QED BY <3>0, <3>2
  <2>2. d \in firedBy(f.fp, f.at)
    BY <1>1, <2>1, MeetsFires
  <2>3. [fp |-> d, at |-> now, stage |-> "begin"] \in flows'
    BY <1>1, <2>2 DEF Observe, begun
  <2> QED BY <2>3 DEF FiresInStep
<1>4. ASSUME FiresInStep(d) PROVE Satisfied(d, from(d, 2 * slack))
  <2>1. PICK x \in flows' : x.fp = d /\ x.stage = "begin"
    BY <1>4 DEF FiresInStep
  <2>2. PICK t : t = from(d, 2 * slack)
    OBVIOUS
  <2>3. Meets(d, t)'
    BY <2>1, <2>2, BegunMeets
  <2> QED BY <1>2, <2>2, <2>3
<1> QED BY <1>3, <1>4 DEF FiresForItsWindow, from, window

-----------------------------------------------------------------------------
(***************************************************************************)
(* The theorems.                                                           *)
(***************************************************************************)
PathInv ==
    /\ BaseInv /\ SyncInv /\ InhibitInv
    /\ SentInv /\ FollowInv
    /\ AwayInv /\ AbsentInv
    /\ LogInv /\ SeenInv /\ BegunInv

LEMMA PathBegins ==
    ASSUME PathInit
    PROVE  PathInv
<1>1. /\ now = 1 /\ engineStart = 1 /\ tickedAt = 1 /\ rebuiltAt = 1
      /\ crs = {} /\ crdItems = {} /\ activeInhibits = EmptyMap
      /\ lastSent = EmptyMap /\ delivered = EmptyMap /\ flows = {}
      /\ last = [d \in rulesOf({"absent"}) |-> 0]
      /\ seen = [d \in rulesOf({"count", "all"}) |-> [g \in DOMAIN groupsOf(rules[d]) |-> <<>>]]
      /\ history.stood = [fp \in FP |-> 0] /\ history.held = [fp \in FP |-> 1] /\ history.log = {}
  BY DEF PathInit, Init, RouterInit, SilencesInit, EngineInit
<1>2. DOMAIN EmptyMap = {} /\ EmptyMap = [x \in {} |-> EmptyMap[x]]
  BY DEF EmptyMap
<1>3. BaseInv /\ PathType
  BY BaseInit DEF BaseInv
<1>4. SyncInv
  BY <1>1 DEF SyncInv, snapshot
<1>5. InhibitInv
  BY <1>1, <1>2 DEF InhibitInv
<1>6. SentInv /\ FollowInv
  BY <1>1, <1>2 DEF SentInv, FollowInv, cond
<1>7. AwayInv
  <2>1. ASSUME NEW d \in DOMAIN last, NEW t \in 0..now PROVE last[d] = 0 /\ ~Away(d, t)
    <3>1. d \in FP /\ last[d] = 0
      BY <1>1, <1>3, Bounds DEF rulesOf
    <3> QED BY <1>1, <3>1 DEF Away
  <2>2. tickedAt \in 0..now
    BY <1>1
  <2> QED BY <2>1, <2>2 DEF AwayInv
<1>8. AbsentInv /\ BegunInv
  BY <1>1 DEF AbsentInv, BegunInv
<1>9. LogInv
  BY <1>1, FS_EmptySet DEF LogInv
<1>10. SeenInv
  <2>1. ASSUME NEW d \in DOMAIN seen
        PROVE  /\ DOMAIN seen[d] = DOMAIN groupsOf(rules[d])
               /\ \A g \in DOMAIN seen[d] : seen[d][g] = <<>>
    BY <1>1
  <2>2. ASSUME NEW W PROVE StandsFor(<<>>, {}, W)
    <3>1. <<>> \in Seq(Nat) /\ DOMAIN <<>> = {}
      OBVIOUS
    <3>2. Ordered(<<>>, now)
      BY <3>1 DEF Ordered
    <3>3. EmptyMap \in [DOMAIN <<>> -> {}] /\ Lists(EmptyMap, <<>>)
      BY <1>2, <3>1 DEF Lists
    <3> QED BY <3>1, <3>2, <3>3 DEF StandsFor
  <2>3. \A d, g : Entries(d, g) = {}
    BY <1>1 DEF Entries
  <2> QED BY <2>1, <2>2, <2>3 DEF SeenInv
<1> QED BY <1>3, <1>4, <1>5, <1>6, <1>7, <1>8, <1>9, <1>10 DEF PathInv

LEMMA PathGoesOn ==
    ASSUME PathInv, EmitNext
    PROVE  PathInv'
BY BaseStep, SyncStep, InhibitStep, SentStep, FollowStep, AwayStep, AbsentStep, LogStep, SeenStep,
   BegunStep DEF PathInv

LEMMA PathStutters ==
    ASSUME PathInv, UNCHANGED pathVars
    PROVE  PathInv'
<1>1. /\ UNCHANGED <<active, lastSent, booting, now>>
      /\ UNCHANGED <<runtime, crs, crdItems, rebuiltAt>>
      /\ UNCHANGED <<seen, last, engineStart, tickedAt>>
      /\ UNCHANGED <<config, activeInhibits, delivered, flows, history>>
  BY DEF pathVars, storeVars, silenceVars, engineVars, emitVars
<1>2. /\ rules' = rules /\ inhibitions' = inhibitions
      /\ slack' = slack /\ graceEnd' = graceEnd /\ cond' = cond
      /\ \A types : rulesOf(types)' = rulesOf(types)
      /\ \A i, fp : inhibitionKey(i, fp)' = inhibitionKey(i, fp)
  BY <1>1, Same DEF cond
<1>3. BaseInv'
  BY <1>1, <1>2 DEF PathInv, BaseInv, PathType, Clocks, FlowInv, Seeds
<1>4. SyncInv'
  BY <1>1 DEF PathInv, SyncInv, snapshot, parseSilence, capAt, isActive, IsSilenced
<1>5. InhibitInv'
  BY <1>1, <1>2 DEF PathInv, InhibitInv, ArmedBy
<1>6. SentInv' /\ FollowInv'
  BY <1>1, <1>2 DEF PathInv, SentInv, FollowInv, Followed, Waits, Armed, Alive, Seen
<1>7. AwayInv'
  BY <1>1, <1>2 DEF PathInv, AwayInv, Away, Told, Alive, Heartbeats
<1>8. AbsentInv'
  BY <1>1, <1>2 DEF PathInv, AbsentInv, Missed, Unobserved, Heartbeats
<1>9. LogInv'
  BY <1>1 DEF PathInv, LogInv
<1>10. SeenInv'
  BY <1>1, <1>2 DEF PathInv, SeenInv, StandsFor, Ordered, Entries, window
<1>11. BegunInv'
  BY <1>1, <1>2 DEF PathInv, BegunInv, Meets, InLog, Entries, from, window
<1> QED BY <1>3, <1>4, <1>5, <1>6, <1>7, <1>8, <1>9, <1>10, <1>11 DEF PathInv

\* The inductive invariant of the emit path: how far every clock may have run,
\* where every emission comes from, and what every delivery, tick and observation
\* has left in the store, the router and the engine.
THEOREM PathInvariant == EmitSpec => []PathInv
<1>1. PathInit => PathInv
  BY PathBegins
<1>2. PathInv /\ [EmitNext]_pathVars => PathInv'
  BY PathGoesOn, PathStutters
<1> QED BY <1>1, <1>2, PTL DEF EmitSpec

\* A condition that stands with nothing to quiet it is paged and stays so, whatever
\* silences, windows, inhibitions, restores and seeds came before: its alert is in
\* the store, and not expired.  A resync and the longest wait for the engine's lock
\* must fit in the time to resolve, or the alert expires between two deliveries.
THEOREM FreeConditionsArePaged ==
    ASSUME Resync + Stall <= ResolveTTL
    PROVE  EmitSpec => []PagesWhenFree
<1>1. PathInv => PagesWhenFree
  BY PagesInv DEF PathInv
<1> QED BY <1>1, PathInvariant, PTL

\* Nothing is routed that a silence, a maintenance window or a standing source of
\* an inhibition should keep quiet.
THEOREM SuppressionHolds == EmitSpec => QuietWhileSuppressed
<1>1. PathInv /\ [EmitNext]_pathVars => [\A fp \in FP : RoutedInStep(fp) => ~MustBeQuiet(fp)]_pathVars
  BY QuietStep DEF PathInv
<1> QED BY <1>1, PathInvariant, PTL DEF EmitSpec, QuietWhileSuppressed

\* Count and all rules fire for the observations of their window, and only for
\* those but for the time that stamps may wait for the lock.
THEOREM WindowsCountRight == EmitSpec => WindowsAreCounted
<1>1. PathInv /\ [EmitNext]_pathVars =>
        [(\E f \in flows \ flows' : f.stage = "observe") =>
            \A d \in DOMAIN seen : FiresForItsWindow(d)]_pathVars
  BY WindowsStep DEF PathInv
<1> QED BY <1>1, PathInvariant, PTL DEF EmitSpec, WindowsAreCounted

\* An absent rule never fires within a window of the start, nor for a heartbeat
\* that stands and should have been observed.
THEOREM AbsenceIsReal == EmitSpec => NoFalseAbsence
<1>1. ASSUME PathInv, EmitNext, NEW d \in DOMAIN last, FiresInStep(d)
      PROVE  Missed(d)
  BY <1>1, BegunMissed DEF PathInv, FiresInStep
<1>2. PathInv /\ [EmitNext]_pathVars =>
        [\A d \in DOMAIN last : FiresInStep(d) =>
            /\ now > engineStart + rules[d].for
            /\ rules[d].for >= Unobserved =>
                 \A h \in Heartbeats(d) \cap cond :
                     now <= Later(history.down[h], graceEnd) + Unobserved]_pathVars
  BY <1>1, Zenon DEF Missed
<1> QED BY <1>2, PathInvariant, PTL DEF EmitSpec, NoFalseAbsence

\* Heartbeats that stay away are paged, and stay paged while they are away.  A tick
\* of the engine must fit in the time to resolve.
THEOREM AbsenceGetsPaged ==
    ASSUME AbsentTick <= ResolveTTL
    PROVE  EmitSpec => []AbsenceIsPaged
<1>1. PathInv => AbsenceIsPaged
  BY AbsencePaged DEF PathInv
<1> QED BY <1>1, PathInvariant, PTL
=============================================================================
