---------------------------- MODULE Maintenance ----------------------------
(***************************************************************************)
(* Recurring maintenance windows of internal/config: daily from start to   *)
(* end, past midnight if end is before start, on the named weekdays only,  *)
(* in the window's timezone.  A window is a record                         *)
(* [matches, start, end, days, zone]; times of day are minutes, an empty   *)
(* set of days is every day, zone is the offset of the timezone.           *)
(***************************************************************************)
EXTENDS Naturals

CONSTANT DayLength   \* minutes of a day

ASSUME DayConstants == DayLength \in Nat \ {0}

\* What validate accepts.  Local time is counted from a day before the clock's
\* zero or an earlier one.
IsWindow(w) ==
    /\ w.start \in Nat /\ w.start < DayLength
    /\ w.end \in Nat /\ w.end < DayLength
    /\ w.zone \in Nat /\ DayLength <= w.zone

Weekdays == 0..6

weekday(lt) == (lt \div DayLength) % 7
minute(lt) == lt % DayLength

prevWeekday(d) == (d + 6) % 7

dayAllowed(w, d) == w.days = {} \/ d \in w.days

WindowActive(w, t) ==
    LET lt  == t + w.zone
        cur == minute(lt)
        day == weekday(lt)
    IN  /\ w.start # w.end
        /\ IF w.start < w.end THEN w.start <= cur /\ cur < w.end /\ dayAllowed(w, day)
           ELSE IF cur >= w.start THEN dayAllowed(w, day)
           ELSE cur < w.end /\ dayAllowed(w, prevWeekday(day))

-----------------------------------------------------------------------------
\* What a window means: it opens at its start on every allowed day and stays open
\* for the time from start to end.
Span(w) == (w.end + DayLength - w.start) % DayLength

InWindow(w, t) ==
    LET lt == t + w.zone IN
    \E s \in {x \in 0..lt : lt - x < Span(w)} :
        minute(s) = w.start /\ dayAllowed(w, weekday(s))
=============================================================================
