# Verification of alertkube

alertkube watches a Kubernetes cluster (and cloud accounts), turns standing
problems into alerts, and delivers them to chat and incident sinks. This
directory models the part of it where correctness is a matter of order and
timing, checks the models with TLC on small instances, and proves the main
safety properties with TLAPS for every instance.

* [Inventory](#inventory) – the parts of the system, their state, how they meet
* [Modules](#modules) – which module models what
* [Runs](#runs) – what is model-checked, with which bounds and fairness
* [Proofs](#proofs) – what is proved and along which argument
* [Findings](#findings) – where code and comments disagree
* [Not modelled](#not-modelled) and [Plan](#plan)

`PROJECT.json` lists the components, runs, mutants, the map from definitions to
source lines, the hazards and the theorems.

## Inventory

The path of an alert:

```
 informers ──► watchers ──► emitter ──► router ──► grouper ──► dispatcher ──► sink registry ──► sinks
 cloud sources ─┘   │          │  ▲                   │            │ ▲             (breakers)
 webhook receiver ──┘          ▼  │                   │ summaries  │ │ retry timer
                            alert store ◄── sweeper   └────────────┘ │
                               │  ▲    (TTL resolves, escalations) ──┘
                               ▼  │ restore
                     state ConfigMap (store, silences, outbox) ◄── leader election
```

| Part | State | Operations | Meets | Hard because |
|---|---|---|---|---|
| Alert store (`alert/store.go`, `snapshot.go`) | active alerts, mute history, escalation marks, generation; one mutex | ShouldSend, ShouldSendEvent, Seed, Touch, SweepResolved, ResolveObject, Forget/MarkFailed, CleanOldHistory, Overdue, Export, Restore | emit goroutines, sweeper, receiver, rollbacks of the dispatcher | untrusted snapshots; a long sequence of calls; retention against mute window |
| Dispatch pool (`app/dispatcher.go`) | a bounded queue per worker, parked producers, retry timers, `draining`, `closed`, `stop`, three kinds of locks | enqueue, submit, settle, scheduleResolveRetry, unblockProducers, Shutdown | every producer; sinks; the outbox | full queues, sends on closed channels, order per fingerprint, a lock order under a hung sink |
| Outbox (`app/dispatcher_outbox.go`) | `pending`: id → delivery, its generation | pendingAdd, pendingDone, PendingSnapshot, ReplayPending | dispatcher, state saves, restore | crashes between any two steps; replay order; resharding |
| Emitter and resolver (`app/event_emitter.go`, `pipeline.go`) | none of its own | the decision per alert: grace, mute, route, group, send, roll back | store, router, grouper, dispatcher | check-then-act over several components |
| Sweeper (`app/sweeper.go`) | saved generations | TTL resolves, history cleanup, escalations, gated save | store, silences, outbox, ConfigMap | races the exports it makes |
| Grouper (`group/group.go`) | windows by group key, `closing` | Offer, flushExpired, FlushAll, Run | emitters, dispatcher | a window expires, is replaced and flushed by different goroutines |
| Sink registry (`sinks/sink.go`, `breaker.go`) | a breaker per sink | Dispatch; Allow, Record, RecordLatency | workers, sinks | probes, late results, panics, rate limits |
| Controller (`app/controller.go`) | wiring | restore, start, initial sync, shutdown stages, final save | all | order of the shutdown stages |
| State persistence (`persist/persist.go`) | the ConfigMap | Load, Save | controller, other replicas | conflicts, skewed clocks, late writes |
| Leader election (`app/leaderelection.go`) | `started`, `stopping`, budget timer | run, stop, release | client-go, controller | late callbacks, overruns, a lease that outlives or ends before its controller |
| Router (`router/router.go`, `config/maintenance.go`) | armed inhibitions with their expiry | Route, ArmInhibitions | emitters, resolver | inhibitions that lapse or linger; windows past midnight |
| Runtime silences (`silence/silence.go`), Silence CRs (`crd/silence.go`) | silences by id and a generation; the list rebuilt from the informer | Add, Delete, PruneExpired, Replace; rebuild on every event and resync | console, snapshot, router | a cap that must not move, expiry, deletion |
| Rule engine (`rules/rules.go`) | stamps per rule and group, last match | Observe, tick | emitters, its own ticker; derived alerts go through the emitter | stamps out of order, edges of windows, muted alerts that are not observed |
| Webhook receiver (`receiver/receiver.go`) | none | ServeHTTP: firing and resolved items | emitter, store, resolver | Forget and resolve are two steps; repeated resolves |
| Watchers (`watchers/`) | enrichment pool | Add, Update, resync, Delete of nine kinds | informers, emitter | coalesced and missed deliveries; several findings in one pod |
| Cloud sources (`sources/`) | per source: ticker, CloudTrail window | Poll | cloud APIs, emitter | a list that is old when it is evaluated, failed pages, overruns, deadlines |
| HTTP client, sinks, metrics server, console reads | see [Not modelled](#not-modelled) | | | |

What makes it correct, in one sentence each: a condition that stands has an
active alert and pages once per mute window; a page that was accepted is
delivered, or replayed, or rolled back, in the order it was accepted; an
incident that was opened is closed when its condition ends; no absorbed alert
disappears; what is silenced is quiet and what is not is paged; no sink is shut
off for ever; a restart or a handover knows what its predecessor knew; and
shutting down ends.

## Modules

Each component module has its state as variables and one action per operation.
A lock's critical section is one step; everything between two critical
sections interleaves. A definition whose comment begins with "mutation:" is a
plausible bug: putting it in the place of the definition after it makes the
property named in `PROJECT.json` fail.

| Module | Models | Notes |
|---|---|---|
| `AlertStore` | `alert/store.go`, `alert/snapshot.go` | Go maps are functions with a changing domain. Time 0 is Go's zero time. Snapshots that Restore meets include poisoned ones. `notified` and `escalations` are history. |
| `Dispatcher` | `app/dispatcher.go`, `pendingDone` | A delivery is a record with a place: `entering` (before the read lock), `waiting` (for `queueMu`), `parked` (on a full queue), `queued`, `sending`, `sent`/`undone` (before the ack), `timer`, `dropped` (left to the outbox), `over`. `phase` is Shutdown's progress; the read and write lock are the guards of `Enter` and `ShutdownClose`. |
| `Outbox` | `dispatcher_outbox.go`, saves, restarts | Extends `Dispatcher` with a disk, crashes, restarts and replay. A new process loads the disk and replays its records in the order of their ids (`Restart`), or cannot and starts cold (`ColdStart`): the records then stay on the disk until its first save. `ref` names the delivery that a job or a record carries, so that an order across restarts can be stated although ids are minted anew on replay. |
| `StandingAlert` | `event_emitter.go` (firing path), resync, sweeper, restore | Extends `AlertStore`. Time passes only when no resync is overdue. A save is two steps, as in `exportState`. |
| `Incident` | a stateful incident from condition to sink; `receiver.go` and its callbacks | Extends `Dispatcher`; the store is reduced to active and muted. A goroutine asks the store, enqueues and submits in separate steps. `lost`, `overtaken` and `rolledBack` are the history of how an incident may come to dangle, each until its alert fires again. |
| `CloudServices` | the `evaluate…` functions of every AWS, Azure and GCP service | A service is a table from the statuses that its API can return to a reason that fires, `Resolve` or `Skip`, and whether its list is drained before it is evaluated. |
| `Watchers` | the `evaluate` of the nine kinds in `watchers/` | Objects are records of what the conditions look at; the kinds that list only transitions, skip Adds or re-assert on a resync do so here. A container that cannot pull alternates between `ErrImagePull` and `ImagePullBackOff`, two fingerprints. |
| `Detection` | what both have in common | One object, its detector and the store. `standing` is the history of what the object's state claims of the store. Extends `AlertStore`. |
| `Runner`, `Polling`, `CloudTrail` | `sources/runner.go`, `list.go`, `helpers.go`, `cloudtrail.go` | The ticker that buffers one tick, the deadline of twice the interval; a list returns at one moment and is evaluated at another; the window that reaches back to its predecessor. |
| `Watching` | `watchers/watcher.go`, the enrichment of `pod.go` | The informer delivers the difference between its copy and the present. |
| `Detectors` | all of them | Objects do not interact, so a behaviour follows one object of one detector, chosen at the start. |
| `Silences` | `silence/silence.go`, `crd/silence.go` | Matchers are the set of fingerprints they match; a CR is fine or refused. Several may stand beside each other, and an edit keeps the creation time that the cap counts from. |
| `Maintenance` | `config/maintenance.go` | `WindowActive` is the code; `InWindow` is the reference, "opened at its start on an allowed day, less than its span ago". |
| `Router` | `router/router.go`, filters of `pipeline.go` | The configuration is a variable that never changes. |
| `RuleEngine` | `rules/rules.go` | A rule is named by the fingerprint of the alert it derives. |
| `EmitPath` | `event_emitter.go` with all it calls, the escalations of `sweeper.go`, the silence handler of the console | Extends the four above and `AlertStore`. Every emission is a goroutine of several steps; a stall between the clock and the lock of the engine is bounded by `Stall`. The reasons to be quiet are stated a second time, from the world and not from the router's state (`Quieted`, `MayBeInhibited`, `MustBeInhibited`), and the properties compare the two. |
| `SinkRegistry` | `sinks/sink.go`, `sinks/breaker.go` | Record and RecordLatency of one send are two steps. A route names a sink once. |
| `Grouper` | `group/group.go` | All windows ever opened stay in `win`, so that a window taken out of the map can be talked about. |
| `GroupReports` | what grouping promises, without locks, map or goroutines | Windows are open, closed, done or lost. `Grouper` implements it. |
| `ConfigMapStore` | `persist/persist.go`; API server external | A request remembers whether its resourceVersion is still the current one. |
| `LeaderElection` | `leaderelection.go`, save and shutdown of the controller; client-go's elector external | Extends `ConfigMapStore`. A controller's knowledge is a version number. The elector is reduced to the order of its timers: it gives up before its lease expires. |
| `AlertStoreProofs`, `DeliveryProofs`, `SinkRegistryProofs`, `LeaderElectionProofs`, `GrouperProofs`, `StandingAlertProofs`, `DetectorsProofs`, `EmitPathProofs` | the theorems | Each extends the module it is named after; `DeliveryProofs` is about `Dispatcher`, `Outbox` and `Incident`. |
| `MC*` | the instances TLC runs | |

## Runs

Runs that pass:

| Run | Instance | Shows |
|---|---|---|
| `alert_store` | 3 fingerprints (two of one object, one event), 2 escalation rules, a faithful and a poisoned snapshot, 5 mutations, clock to 7 | every active alert has a deadline; history cleanup never ends a mute early; a rule escalates an incident once; whatever Export would write differently moves the generation |
| `dispatch_pool` | 2 producers, 1 worker, 1 slot, 3 deliveries, 1 retry, shutdown at any point | the outbox is exactly the unfinished deliveries; no send after close; per-producer order of attempts; Shutdown gets its write lock even if a sink hangs; every delivery settles if sends end |
| `outbox` | 1 producer, 2 deliveries of all four kinds, 2 restarts, each of which may be a cold start, a fingerprint that may change shards | a saved delivery is delivered, given up with a rollback or dead letter, still recorded, or foreign, unless a process starts cold: then it is on the disk until the first save overwrites it; one process sends it once (but for retries); first sends keep the order of the enqueues across restarts |
| `standing_alert` | 1 fingerprint, resync 2, mute 3, TTL 4, grace 1, grouping on, 2 changes in the cluster, 1 crash, clock to 8 | a standing condition's alert is never past its deadline; it becomes active; the pages of one incident are a mute window apart, across a restart too |
| `sinks` | 2 workers, 1 sink, thresholds 2, cooldown 3, timeout 2, 4 calls | a half-open breaker has its probe in flight; one probe at a time; `true` means that the sink took it; Dispatch returns |
| `grouper` | 2 emitters, 2 groups, window 1, 5 offers | the grouper implements `GroupReports` (`RefinesReports`); every absorbed alert is reported |
| `incident_life` | 2 goroutines, 4 deliveries, fires fail and are rolled back, resolves fail and are retried, the receiver's upstream may resolve at any time and repeatedly | an open incident is known to something that will close it, and is closed, but in three named cases: a dead-lettered resolve, a resolve that overtook a fire, a fire that was rolled back |
| `handover` | 2 replicas, the clock of one ahead by 2 with a limit of 1, 2 tries, 2 changes, 1 failure, clock to 2 | one controller at a time; a late callback starts none; the successor has every change; no change is taken for saved; a terminating process is never stuck; newer snapshots win |
| `detection` | every cloud service, CloudTrail and every watcher; interval 1, deadline 2, teardown 1, 2 changes of a status, 3 of an object, resync 3, one enrichment worker, TTL 8, mute 7, clock to 20 | what stands is known within a poll's or a resync's lag, what ended is not re-asserted, a deletion clears, an OOM kill is reported, no CloudTrail event is lost to one fault or sent twice |
| `emit_path` | thirteen configurations, see below | nothing is routed that should be quiet; what is free to page is active; count and all rules fire exactly for their windows; absences are paged, and only absences |

Runs that violate what the repository says (see [Findings](#findings)):
`incident_race_claim`, `resolve_route_claim`.

**Bounds.** All are constants named `Max…`. They are chosen for the shortest
runs in which the interesting cases occur: a queue of one slot is full after
two deliveries, and three let one wait behind a parked one while another is
sent; two restarts include a crash in the middle of a replay; a clock that
passes one mute window plus one resync plus the grace is enough for each
timer to expire before and after each other one; four calls trip, probe and
recover a breaker; four deliveries are a fire that
opens an incident, its reminder, and a resolve of each goroutine; one failure in `handover` is any of a crash, a lost
lease, a hung drain, a failed load or an abandoned save, and two changes let
one fall between the capture of the generations and the export. For the
properties that are proved the bounds do not matter.

`SinkRegistry` is run with one sink, since its sinks do not interact but in
the verdict, and the verdict is proved for any number of them.

`detection` needs TTL 8 because the longest gap between two evaluations of a
resource is five intervals and two teardowns (`PollLag`); an object changes
three times, enough for a container to die, restart and die again between two
deliveries. `emit_path` runs each configuration with the conditions that its own
question needs, so that their state spaces add up instead of multiplying: an
inhibition within and across the equal fields, silences of all sources, five
maintenance windows (plain, past midnight with either weekday of it allowed,
empty, and on one weekday; in a zone that is days ahead, so that the week ends
within the run), a count, an all and two absent rules, and an escalation. The
alerts `a` and `b` are of one object, which may go with both conditions; of the
absent rules one has a window of 1, a tick, and shorter than the mute window, the
other of 7, just what `NoFalseAbsence` asks for. A day has
four units, so that 14 units are more than three days; mute window, TTL and grace
are 3 and the resync is 2, so that a re-fire falls before, at and after each
expiry; two or three changes of conditions let a source end and return; two
changes of silences let one be edited, replaced or deleted; `Stall` 1 puts one stamp
behind a newer one.

`standing_alert`, `detection` and `emit_path` use a VIEW that leaves out what is
written but never read there (the generations, the alert's age, a silence that
is over) and, in
`detection`, measures times from now up to the longest distance that matters and
numbers the reasons of a cloud service, so that services of one shape are
explored once.

**Deadlock** is not checked: each model ends when its bounded work is done, or
stops with a process that has exited. What must not get stuck is stated as a
property instead (`ShutdownGetsLock`, `EveryDeliverySettles`,
`EveryDispatchReturns`, `EveryMemberReported`, `IncidentEnds`,
`ShutdownNeverStuck`). What must happen in time (`StandingIsKnown`,
`PagesWhenFree`, `AbsenceIsPaged`, `NoEventLost`) is an invariant over the
clock: time does not pass while something is due.

**Fairness.**

* `Dispatcher.FairSpec`: goroutines inside submit run on, and the write lock is
  granted once the readers are out (Go's RWMutex holds new readers back).
  Nothing is assumed of sends: `EveryDeliverySettles` has "sends end" as its
  own premise, which perSinkTimeout justifies, and `ShutdownGetsLock` has not.
* `SinkRegistry.FairSpec`: the loop goes on, and every send ends, if only by
  its timeout or a panic that is recovered.
* `Grouper.FairSpec`: time passes, the one-second ticker of Run fires, and
  nobody stops between taking a window and summarising it.
* `Incident.FairIncidentSpec`: goroutines and workers go on, the retry timer
  fires, and the sweeper resolves an expired alert. Sends end, failing or not.

## Proofs

Eight modules, with their inductive invariants:

* `AlertStoreProofs` – `StoreInv`: the types, marks only on active alerts,
  deadlines that are not zero, mute records not older than the notification
  they belong to unless the window is over, and escalated pairs marked.
  Restore is where it earns its keep: a snapshot is only assumed to have the
  right shape, so marks of inactive fingerprints, zero deadlines and future
  send times must be dealt with by Restore itself. `retention >= MuteWindow`
  is the arithmetic behind `MuteHolds`.
* `DeliveryProofs`, about the pool – `PoolInv`: each delivery is in exactly the place its
  record says (on its own queue once, or in no queue), one delivery per worker
  and per queue lock, and no submit inside the lock once the channels are
  closed; `OrderInv` adds that deliveries of one producer and fingerprint enter,
  queue and leave in the order of their ids. Neither the exactness of the
  outbox nor the order is inductive without the places. The order is proved for
  any two deliveries on their own (`InLine`), so that the next two parts can use
  it for those whose order matters there.
* `DeliveryProofs`, about the outbox – `OutboxInv` on top of `PoolInv`: ids and records carry
  deliveries that were accepted (`RefsKnown`), the ids of a process, the disk
  and what is left to replay are in the order of acceptance, so that no
  delivery is carried twice (`RefsInOrder`), a replay is over before the
  shutdown of its process begins, every delivery that some save had and that is
  open is in the last save (`OpenIsOnDisk`), and settle decides before the record
  goes (`UndoneIsFinal`). With it a saved delivery is in the outbox or about to be
  replayed however many crashes and restarts come, or a cold start has passed it
  over and it is on the disk; the save that overwrites it there is the one way to
  lose it (`SavedIsNeverLost`). No process sends one twice
  (`SentOncePerProcess`).
  A replay sorts a set of records by id; the lemmas about `Nth` show that the
  sorted ids are every element of a finite set of numbers once and in order.
  `LineInv` adds the order: a replay comes before anything new (`CarriedBy`),
  two deliveries of one producer and fingerprint stand in line in the pool of
  each process (`Lined`), and one that was overtaken is no longer carried by
  anything unless a cold start passed it over (`Overtaken`), so that first sends
  keep the order of acceptance through every restart (`OrderAcrossRestarts`).
* `DeliveryProofs`, about incidents – `IncidentInv` on top of `OrderInv`, for any
  number of goroutines and for fires and resolves that fail. `WillClose` says of
  every alert that none of the three histories marks: it is active, or no fire of
  it is between ShouldSend and the queue, and whatever has opened its incident or
  will (a fire on its way) comes with something that closes it: a resolve in a
  goroutine's hands, or one that stands in line behind every fire (`LastInLine`).
  The first half makes a resolve that is enqueued last in line, whoever enqueued
  the fires, and `InLine` makes the worker come to it last. This gives
  `DanglingIsExplained`. That all three exceptions are needed TLC shows: leaving
  out any of them violates the property.
* `SinkRegistryProofs` – `SinkInv = BreakerInv /\ CallInv`. A probe in flight
  started at or after the moment its breaker opened plus the cooldown, every
  send is younger than its timeout, and the timeout is below the cooldown:
  so an open breaker that may be probed has no probe left (`OneProbeAtATime`).
  The counts of a call add up to its eligible sinks (`NoSilentLoss`).
* `LeaderElectionProofs` – `LeadInv`: an elector that leads holds the lease, a
  controller that runs or is about to start has an elector that leads unless
  it is excused, and no controller outlives the wait of its main goroutine.
  `SaveInv`: a request that the API server would accept was compared with the
  very snapshot it replaces. `GenInv`: versions only grow along export, request
  and acknowledgement, so what a controller takes for saved was written
  (`NoChangeSkipped`). `KeepInv`: while no controller runs, the ConfigMap has
  every change and no write of a predecessor is still acceptable
  (`HandoverKeepsState`), unless one of the named faults broke the run.
* `GrouperProofs` – the refinement `Spec => RefinesReports`. The mapping reads a
  window's abstract state off its place: open in the map, closed in a
  goroutine's hands, done or lost otherwise. It needs `Inv`: the map holds
  windows under their own keys (`MapIsKeyed`), a window is in the map or in at
  most one hand (`InOnePlace`), a window in either is not summarised yet
  (`Unsummarised`), and the map stays empty once the final flush began
  (`MapEmptied`). Each action is then one step of `GroupReports` or a stutter.
* `StandingAlertProofs` – `PipeInv`: a standing condition was observed a resync ago
  at most (`Redelivered`), that observation set the deadline or was absorbed by a
  group, and then the one before had set it (`Refreshed`), one that left no alert
  was muted by a seed of the grace or of a group, or undone (`Seeded`, `Retried`),
  and the record of a page outlives its mute window, in the store and, while the
  process is down, on the disk (`PagesMute`). `AliveWhileStanding`, `StandingBecomesActive` and
  `NoRepageWhileStanding` follow by arithmetic over resync, grace and windows.
* `DetectorsProofs` – one invariant per family, since a behaviour follows one
  detector. `RunnerInv`: a poll ends two intervals and a teardown after its
  start, and polls start at most another interval apart. `TrailInv`: CloudTrail
  windows follow each other without a gap, and an event that was not sent is in
  the window of this poll, not yet looked up, or in that of the next
  (`NoEventLost`); a sent event is remembered until its mute window has passed
  (`EventSentOnce`).
  `CloudInv` and `CloudKnown`: a list is not older than its poll, and what stood
  before a poll was asserted by it or by the one before.
  `WatchInv`: what is being enriched, cleared or ended agrees with the informer's
  copy (`DeletedIsCleared`, `EndedIsNotReasserted`); `OOMInv`: the last state of a
  container shows an OOM kill until it is told (`OOMIsReported`); `WatchKnown`:
  what stands was asserted in every resync period that ended no longer ago than
  an enrichment takes. The last two kinds give `StandingIsKnown`. The proofs go
  through every evaluator of the nine kinds and through the tables of the cloud
  services only by what a verdict is, so they hold for any such table.
* `EmitPathProofs` – `PathInv`, for any configuration and any number of emissions
  under way. `WindowsMeanWhatTheySay` comes first: the code's arithmetic on minutes
  and weekdays is the meaning of a window, whatever the length of the day.
  `BaseInv` has the types, the clocks (a condition was delivered a resync ago at
  most, the engine ticked a tick ago), where each emission comes from (`FlowInv`)
  and that only a seed of the grace mutes what is not active (`Seeds`).
  `SyncInv` and `InhibitInv` are the two directions between the router and the
  world: the syncer's list is that of the objects, and an armed inhibition has a
  source that stood. So what is suppressed has a reason.
  `FollowInv` is the core. No single step makes a delivery effective: it may be
  muted, wait for the engine's lock, be routed and sent. The invariant therefore
  speaks of every past moment `t` a resync ago or longer: the delivery that fell
  between `t` and `t + Resync` waits in an emission that began no earlier, or has
  had its effect (the inhibitions of the source are armed for as long after `t` as
  they last, the alert is alive until `t` plus the TTL, the heartbeat was seen).
  With "nobody waits longer than `slack`" it gives `PagesWhenFree`, and with
  `InhibitInv` the inhibitions of `QuietWhileSuppressed`. `SentInv` carries the
  observation through the mute window, during which nothing is observed.
  `AwayInv` says the same of the ticks of an absent rule (`AbsenceIsPaged`), and
  `AbsentInv` of the rules that have fired (`NoFalseAbsence`).
  `SeenInv`: the stamps of a group are one-to-one with entries of the log, out of
  order by `slack` at most, and every entry of the window is among them; `prune`
  drops a prefix of old ones, so at most twice `slack` too much is kept
  (`WindowsAreCounted`).

Some theorems state properties that no run checks: types, `EscalatedOnlyActive`,
`IncidentKeepsItsAge`, `QueuesConsistent`, `NothingOvertakesADrop` and
`ClosedIsHealthy` are proved for every instance, so TLC's time goes elsewhere.

Assumptions: the named `ASSUME`s of the constants (`StoreConstants`,
`DispatcherConstants`, `OutboxConstants`, `IncidentConstants`, `SinkConstants`,
`PersistConstants`, `ElectionConstants`, `GrouperConstants`,
`BehaviorConstants`, `RunnerConstants`,
`WatcherConstants`, `WatchingConstants`, `OneObject`, `Fingerprints`,
`SilenceConstants`, `DayConstants`, `RouterConstants`, `EngineConstants`,
`EmitConstants`), all evaluated by TLC in the runs. `SinkConstants` contains `SendTimeout < Cooldown`,
which `perSinkTimeout` and `breakerCooldown` satisfy; `BehaviorConstants`,
`RunnerConstants` and `EmitConstants` are what validation accepts, and
`RouterConstants` and `EngineConstants` say so of the windows and the rules of
every configuration, and that a derived alert, whose kind is its own, shares its
fingerprint and its object with no watched one. Five theorems state a
further hypothesis, which the models' constants do not grant:

| Theorem | Hypothesis | With the defaults (mute and TTL 600 s, resync 300 s, polls 60 s) |
|---|---|---|
| `StandingStaysAlive` | with grouping, the TTL is at least two resyncs | holds with equality |
| `EventsAreSentOnce` | the mute window exceeds five intervals and a teardown | holds |
| `StandingConditionsAreKnown` | the TTL is at least `PollLag`, and at least a resync and an enrichment | holds |
| `FreeConditionsArePaged` | a resync and the longest wait for the engine's lock fit in the TTL | holds, for waits of up to 300 s |
| `AbsenceGetsPaged` | a tick of the engine (30 s) fits in the TTL | holds; validation grants it, since it asks for a TTL above the resync |

`Stall` is the one number of `EmitPath` that the code does not know: how long an
emission may be held up between its clock reading and the engine's lock. The
theorems hold for every bound on it, and say by how much it blurs the windows and
delays the pages; without any bound a stamp could be arbitrarily old when it is
appended. An engine without rules has no such wait (`slack` is 0).

Only model-checked: liveness (`ShutdownGetsLock`, `EveryDeliverySettles`,
`EveryDispatchReturns`, `EveryMemberReported`, `IncidentEnds`) and what uses
ENABLED (`ShutdownNeverStuck`), which are out of the prover's reach.

## Findings

* **A resolve overtakes its fire** (`incident_race_claim`). ShouldSend and
  enqueue are two steps of the enrichment goroutine; a delete in between
  enqueues the resolve first, and the incident opens with nothing to close it
  until the alert fires again. `DanglingIsExplained` is what remains of the claim.
* **A resolve misses the sinks of an escalation** (`resolve_route_claim`). An
  escalation goes to the sinks of its rule, the resolve where the routes send
  the alert: an incident that was opened by the escalation alone stays open. The
  same happens when a reminder's severity changes its route.

Met while modelling, without a run:

* A failed resolve goes back on its queue from a timer, behind a newer fire of
  its fingerprint, and then closes the new incident; `AttemptedInOrder` excepts
  retried resolves for that reason, the comment of `submit` does not.
* During the startup grace the emitter only mutes: the deadline of a restored
  active alert is not refreshed, and the sweeper may resolve it while its
  condition stands. `AliveWhileStanding` counts from the end of the grace.
* A failed reminder forgets the active alert that an earlier, successful fire
  opened an incident for, and nothing closes that if the condition ends before it
  fires again: one of the exceptions of `DanglingIsExplained`.
* After a cold start the first save overwrites the deliveries that the unread
  snapshot recorded, the one exception of `SavedIsNeverLost`. If the process
  crashes before that save and the next one can read the snapshot, it replays them
  behind newer deliveries of the same fingerprint, the exception of
  `OrderAcrossRestarts`.
* A resource evaluated early in one poll and late in the next is re-fired more
  than four intervals apart, five around the first poll; the comment at
  `runner.go:34` and the warning built on it recommend a TTL of two. The
  hypothesis of `StandingConditionsAreKnown` is the bound that suffices.
* An absorbed reminder of an active chat-only alert is only seeded, so with a
  resolve TTL below two resyncs, which validation accepts, it expires while its
  condition stands. `standing_alert` uses a TTL of two resyncs, and that is the
  hypothesis of `StandingStaysAlive`.
* A final save refused with ErrStaleSnapshot because the predecessor's clock was
  ahead is not tried again, although the comment on that error relies on the
  next export.
* An absent rule whose window is shorter than the mute window fires for a
  heartbeat that stands, since muted alerts are not observed; `NoFalseAbsence`
  asks for windows of a mute window, a resync and two waits for the engine's lock.
  Both waits count: one may delay the notification that starts the mute window,
  the other the first observation after it.
* A source that is itself silenced, in maintenance or in the grace arms no
  inhibition, so its targets page.
* An enrichment that is under way when its pod is deleted emits after the
  delete's resolve; `DeletedIsCleared` excepts pods.

## Not modelled

* Sinks and the HTTP client with its retries: formatting and I/O; a send succeeds,
  fails, is rate limited, takes long or panics in `SinkRegistry`.
* Collectors, console reads, command line, charts and the web console:
  formatting and I/O. Metrics, probes, the swap of handlers, authorization.
* The ring of recent alerts, dead-letter list, correlation and traces: display.
* The name of the lease and the hash of the sharder: pure functions. Ownership
  is a set that may change at a restart.
* Configuration: parsing and most of the validation. What the models rely on of
  it is in their `ASSUME`s.
* Within modelled parts: label matching is a set of fingerprints; a timezone is
  a fixed offset, without the change to summer time; the drain of
  `LeaderElection` completes or hangs, a drain that is cut at its deadline with
  workers still running is in `Outbox`; `LookupEvents` finds a CloudTrail event
  as soon as it happens, so the service's delivery delay is not modelled, and an
  event that becomes visible later than the overlap of two windows would be
  missed.

## Plan

Order of work, the most important behaviour first. Done: store, dispatch pool,
outbox, standing alerts, incidents with the receiver, sink registry, grouper and
its refinement, persistence and leader election, watchers and cloud sources, the
emit path with router, silences, maintenance and rules; the proofs of every
safety property that the runs check but one. Left:

1. **Abstract specifications**: a reliable per-fingerprint channel that
   `Dispatcher` with `Outbox` implements; one logical controller over a durable
   state that `LeaderElection` implements.
2. **HTTP client**: attempts, Retry-After and the send's deadline.
3. **Handler swap** of the metrics server at a handover.
