---------------------------- MODULE TimeWindows ------------------------------
(* Windows of the day, "HH:MM" to "HH:MM", as the risk schedules and the smart *)
(* zones of the AI service read them.                                          *)
EXTENDS Integers

CONSTANT DayLength  \* a day, in units of the clock

Windows == [start : 0..(DayLength - 1), end : 0..(DayLength - 1)]

TimeOfDay(t) == t % DayLength
Weekday(t) == (t \div DayLength) % 7

\* From the start on and before the end; from an evening to a morning when the
\* start is the later of the two.
InWindow(w, t) ==
    IF w.start <= w.end
    THEN w.start <= TimeOfDay(t) /\ TimeOfDay(t) < w.end
    ELSE w.start <= TimeOfDay(t) \/ TimeOfDay(t) < w.end
=============================================================================
