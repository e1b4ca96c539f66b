------------------------------ MODULE Schedule ------------------------------
(***************************************************************************)
(* The daily window of the crawler (ui/crawler.go, scheduleState).         *)
(*                                                                         *)
(* An instant is <<day, minute>> in local time. Seconds are left out: the  *)
(* code compares whole minutes, and the next change is never in the minute *)
(* of now (ChangeSound). A text that is not a clock time is a window   *)
(* whose ends are equal: the code answers the same for both.               *)
(***************************************************************************)
EXTENDS Naturals

CONSTANT DayLen   \* minutes of a day: 1440 in the code

ASSUME ScheduleAssumption == DayLen \in Nat \ {0}

Minutes == 0 .. (DayLen - 1)
Instants == Nat \X Minutes
Windows == [start : Minutes, end : Minutes]

NoInstant == <<0, 0>>   \* the zero time.Time

\* time.Time.Before
Before(a, b) == a[1] < b[1] \/ (a[1] = b[1] /\ a[2] < b[2])

Valid(w) == w.start # w.end

\* Is the minute of the day in the window? A window may contain midnight.
Inside(minute, w) ==
    IF w.start < w.end THEN w.start <= minute /\ minute < w.end
    ELSE w.start <= minute \/ minute < w.end

\* The first result of scheduleState.
ShouldRun(now, w) == Valid(w) /\ Inside(now[2], w)

\* A bug: the change is always today.
NextChangeToday(now, w) ==
    IF ~Valid(w) THEN NoInstant
    ELSE <<now[1], IF Inside(now[2], w) THEN w.end ELSE w.start>>

\* The second one: today at the end or the start of the window, or tomorrow.
NextChange(now, w) ==
    LET minute == IF Inside(now[2], w) THEN w.end ELSE w.start
    IN  IF ~Valid(w) THEN NoInstant
        ELSE IF Before(now, <<now[1], minute>>) THEN <<now[1], minute>>
        ELSE <<now[1] + 1, minute>>

\* The minute after an instant.
MinuteAfter(t) ==
    IF t[2] + 1 < DayLen THEN <<t[1], t[2] + 1>> ELSE <<t[1] + 1, 0>>

\* The instant n minutes after now.
Plus(now, n) ==
    <<now[1] + (now[2] + n) \div DayLen, (now[2] + n) % DayLen>>

\* The crawler neither misses a change of the window nor wakes for one that is
\* none: the window is open at every instant before NextChange if it is open
\* now, and closed if it is closed, and at NextChange it is the other way round.
ChangeSound(now, w) ==
    LET next == NextChange(now, w)
    IN  /\ next \in Instants
        /\ Before(now, next)
        /\ ShouldRun(next, w) # ShouldRun(now, w)
        /\ \A t \in {now[1], now[1] + 1} \X Minutes :
              ~Before(t, now) /\ Before(t, next)
                  => ShouldRun(t, w) = ShouldRun(now, w)
=============================================================================
