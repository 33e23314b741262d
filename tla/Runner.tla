------------------------------- MODULE Runner -------------------------------
(***************************************************************************)
(* runOne of internal/sources: a jittered first poll, then one poll per    *)
(* tick.  The ticker starts when the first poll has returned and buffers   *)
(* one tick, so polls that overrun swallow ticks.  A poll is cut off at    *)
(* twice the interval and returns when its calls are torn down.            *)
(***************************************************************************)
EXTENDS Detection

CONSTANTS
    Interval,    \* pollSeconds
    Jitter,      \* maxStartupJitter
    Teardown     \* how long after its deadline a poll that was cut off returns

PollDeadlineFactor == 2
pollDeadline == PollDeadlineFactor * Interval

\* validatePollInterval rejects an interval that is not positive or not below
\* the resolve TTL.
validatePollInterval ==
    /\ Interval \in Nat \ {0}
    /\ Interval < ResolveTTL
    /\ Jitter \in Nat
    /\ Jitter <= Interval
    /\ Teardown \in Nat

ASSUME RunnerConstants == validatePollInterval

VARIABLES
    poll,        \* "off" (no such source), "jitter", "idle", "polling", "stopped"
    pollStart,   \* when the current poll started
    ticker,      \* when the next tick is due, 0 before the ticker exists
    tick         \* the ticker's channel holds a tick

runner == <<poll, pollStart, ticker, tick>>

RunnerInit(enabled) ==
    /\ poll = IF enabled THEN "jitter" ELSE "off"
    /\ pollStart = 0
    /\ ticker = 0
    /\ tick = FALSE

\* NewTicker after the first poll; later polls leave the ticker alone.
nextTicker == IF ticker = 0 THEN now + Interval ELSE ticker

PollBegins ==
    /\ \/ poll = "jitter"
       \/ poll = "idle" /\ tick
    /\ poll' = "polling"
    /\ pollStart' = now
    /\ tick' = FALSE
    /\ UNCHANGED ticker

\* Poll returned, panicked (and was recovered) or was cut off.
PollReturns ==
    /\ poll = "polling"
    /\ poll' = "idle"
    /\ ticker' = nextTicker
    /\ UNCHANGED <<pollStart, tick>>

\* The context is cancelled: no further poll starts.
Cancelled ==
    /\ poll \in {"jitter", "idle"}
    /\ poll' = "stopped"
    /\ UNCHANGED <<pollStart, ticker, tick>>

InTime == poll = "polling" /\ now <= pollStart + pollDeadline

\* The runner has nothing to do at once.
RunnerMayWait ==
    /\ poll # "stopped"
    /\ poll = "jitter" => now < Jitter + 1
    /\ ~(poll = "idle" /\ tick)
    /\ poll = "polling" => now < pollStart + pollDeadline + Teardown

\* The ticker as time goes on by one.
RunnerTicks ==
    LET due == ticker # 0 /\ now + 1 >= ticker IN
    /\ tick' = (tick \/ due)
    /\ ticker' = IF due THEN ticker + Interval ELSE ticker
    /\ UNCHANGED <<poll, pollStart>>

(***************************************************************************)
(* The longest time from a moment to the evaluation by a poll that starts  *)
(* after it: the first poll runs to its end and is followed by an interval *)
(* of rest, and the next one comes to the resource last.                   *)
(***************************************************************************)
PollLag == (2 * PollDeadlineFactor + 1) * Interval + 2 * Teardown
=============================================================================
