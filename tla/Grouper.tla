------------------------------ MODULE Grouper ------------------------------
(***************************************************************************)
(* internal/group: the first alert of a group opens a window and passes,   *)
(* the rest of the window is absorbed and reported by one summary.  The    *)
(* emitters call Offer, Run flushes expired windows every second and all   *)
(* of them when the controller stops it.  Buckets leave the map under the  *)
(* mutex and are summarised after it is released.                          *)
(*                                                                         *)
(* A group key includes whether the alert is resolved.  Every bucket ever  *)
(* made is an entry of win; bucket says which one the map holds for a key. *)
(***************************************************************************)
EXTENDS Naturals, Sequences

CONSTANTS
    Keys,       \* group keys
    Callers,    \* goroutines that call Offer
    Runner,     \* the goroutine of Run
    Window,     \* grouping.windowSeconds
    MaxOffers,  \* bound on the number of offers
    MaxNow      \* bound on the clock

ASSUME GrouperConstants ==
    /\ Runner \notin Callers
    /\ Window \in Nat
    /\ MaxOffers \in Nat
    /\ MaxNow \in Nat

VARIABLES
    bucket,   \* key -> index of its window, 0 for none
    win,      \* sequence of windows
    hand,     \* goroutine -> windows it has taken out of the map
    closing,
    run,      \* Run: "ticking", "draining" in the final flush, "ended"
    offers,   \* number of offers so far
    now

vars == <<bucket, win, hand, closing, run, offers, now>>

Goroutines == Callers \cup {Runner}
Windows == DOMAIN win
Taken(g) == hand[g] # {}

\* members counts the absorbed alerts; summaries the calls of flush; panicked
\* says that flush panicked in Run.
NewWindow(k) == [key |-> k, deadline |-> now + Window, members |-> 0, summaries |-> 0,
                 panicked |-> FALSE]

Init ==
    /\ bucket = [k \in Keys |-> 0]
    /\ win = <<>>
    /\ hand = [g \in Goroutines |-> {}]
    /\ closing = FALSE
    /\ run = "ticking"
    /\ offers = 0
    /\ now = 0

(***************************************************************************)
(* Offer.  A caller that replaced an expired window summarises it itself.  *)
(***************************************************************************)
Expired(k) == bucket[k] # 0 /\ now > win[bucket[k]].deadline

\* (Bounds: the offers, and no window that the clock could not close.)
Offering(c) ==
    /\ ~Taken(c)
    /\ offers < MaxOffers
    /\ now + Window < MaxNow
    /\ offers' = offers + 1

Accepting == ~closing

PassThrough(c) ==
    /\ Offering(c)
    /\ ~Accepting
    /\ UNCHANGED <<bucket, win, hand, closing, run, now>>

\* mutation: the expired window is replaced and forgotten about
OpenWindowOnly(c, k) ==
    /\ Offering(c)
    /\ Accepting
    /\ bucket[k] = 0 \/ Expired(k)
    /\ win' = Append(win, NewWindow(k))
    /\ bucket' = [bucket EXCEPT ![k] = Len(win) + 1]
    /\ UNCHANGED <<hand, closing, run, now>>

OpenWindow(c, k) ==
    /\ Offering(c)
    /\ Accepting
    /\ bucket[k] = 0 \/ Expired(k)
    /\ win' = Append(win, NewWindow(k))
    /\ bucket' = [bucket EXCEPT ![k] = Len(win) + 1]
    /\ hand' = [hand EXCEPT ![c] = IF bucket[k] = 0 THEN {} ELSE {bucket[k]}]
    /\ UNCHANGED <<closing, run, now>>

Absorb(c, k) ==
    /\ Offering(c)
    /\ Accepting
    /\ bucket[k] # 0
    /\ ~Expired(k)
    /\ win' = [win EXCEPT ![bucket[k]].members = @ + 1]
    /\ UNCHANGED <<bucket, hand, closing, run, now>>

Offer(c, k) == PassThrough(c) \/ OpenWindow(c, k) \/ Absorb(c, k)

(***************************************************************************)
(* Run.  A panic of flush in Run costs the one summary.                    *)
(***************************************************************************)
Take(K) ==
    /\ hand' = [hand EXCEPT ![Runner] = {bucket[k] : k \in K}]
    /\ bucket' = [k \in Keys |-> IF k \in K THEN 0 ELSE bucket[k]]

\* mutation: a window that absorbed a single alert is left alone
flushExpiredCrowds ==
    /\ run = "ticking"
    /\ ~Taken(Runner)
    /\ \E k \in Keys : Expired(k) /\ win[bucket[k]].members > 1
    /\ Take({k \in Keys : Expired(k) /\ win[bucket[k]].members > 1})
    /\ UNCHANGED <<win, closing, run, offers, now>>

flushExpired ==
    /\ run = "ticking"
    /\ ~Taken(Runner)
    /\ \E k \in Keys : Expired(k)
    /\ Take({k \in Keys : Expired(k)})
    /\ UNCHANGED <<win, closing, run, offers, now>>

FlushAll ==
    /\ run = "ticking"
    /\ ~Taken(Runner)
    /\ run' = "draining"
    /\ closing' = TRUE
    /\ Take({k \in Keys : bucket[k] # 0})
    /\ UNCHANGED <<win, offers, now>>

Release(g, w) == hand' = [hand EXCEPT ![g] = @ \ {w}]

\* Nothing was absorbed: no summary.
emitSummary(g, w) ==
    /\ w \in hand[g]
    /\ Release(g, w)
    /\ win' = [win EXCEPT ![w].summaries = IF win[w].members = 0 THEN @ ELSE @ + 1]
    /\ UNCHANGED <<bucket, closing, run, offers, now>>

emitPanics(w) ==
    /\ w \in hand[Runner]
    /\ win[w].members > 0
    /\ Release(Runner, w)
    /\ win' = [win EXCEPT ![w].panicked = TRUE]
    /\ UNCHANGED <<bucket, closing, run, offers, now>>

RunEnds ==
    /\ run = "draining"
    /\ ~Taken(Runner)
    /\ run' = "ended"
    /\ UNCHANGED <<bucket, win, hand, closing, offers, now>>

Tick ==
    /\ now < MaxNow
    /\ now' = now + 1
    /\ UNCHANGED <<bucket, win, hand, closing, run, offers>>

-----------------------------------------------------------------------------
Emits(g) == \E w \in hand[g] : emitSummary(g, w) \/ (g = Runner /\ emitPanics(w))

Next ==
    \/ \E c \in Callers, k \in Keys : Offer(c, k)
    \/ flushExpired
    \/ FlushAll
    \/ \E g \in Goroutines : Emits(g)
    \/ RunEnds
    \/ Tick

Spec == Init /\ [][Next]_vars

\* The clock runs, Run's ticker fires and nobody stops between taking a window
\* and summarising it.
FairSpec ==
    /\ Spec
    /\ WF_vars(Tick)
    /\ WF_vars(flushExpired)
    /\ \A g \in Goroutines : WF_vars(Emits(g))

-----------------------------------------------------------------------------
(***************************************************************************)
(* Properties.                                                             *)
(***************************************************************************)
Open(w) == bucket[win[w].key] = w
Held(w) == \E g \in Goroutines : w \in hand[g]
Reported(w) == win[w].members = 0 \/ win[w].summaries = 1 \/ win[w].panicked

(***************************************************************************)
(* The grouper implements GroupReports: a window of the map is open, one   *)
(* in the hands of a goroutine closed, and the others are done with.       *)
(***************************************************************************)
stateOf(w) ==
    IF Open(w) THEN "open"
    ELSE IF Held(w) THEN "closed"
    ELSE IF win[w].panicked THEN "lost"
    ELSE IF Reported(w) THEN "done"
    ELSE "forgotten"

groups ==
    [w \in Windows |-> [key |-> win[w].key, absorbed |-> win[w].members,
                        reports |-> win[w].summaries, state |-> stateOf(w)]]

Abstract == INSTANCE GroupReports WITH group <- groups, shut <- closing

\* Whatever Offer, the flusher and the final flush do to each other, no absorbed
\* alert is forgotten, none joins a window that is being summarised without the
\* lock, no window is summarised twice and none opens after the final flush.
RefinesReports == Abstract!Promise

\* Every absorbed alert is reported in the end, whether or not another alert of
\* its group arrives and whether or not the controller shuts down.
EveryMemberReported ==
    \A w \in 1..MaxOffers :
        (w \in Windows /\ win[w].members > 0) ~> (w \in Windows /\ Reported(w))
=============================================================================
