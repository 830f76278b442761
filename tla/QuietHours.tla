----------------------------- MODULE QuietHours -----------------------------
(* utils/quiet_hours.py: one window of hours for the whole fleet.  A time is a  *)
(* number of hours since midnight of some day.                                *)
EXTENDS Integers

CONSTANTS
  DayLength,     \* hours of a day, 24 in the code
  WakeSpread     \* the hours WAKE_SPREAD_MINUTES may add

ASSUME QuietAssumption == DayLength \in Nat \ {0} /\ WakeSpread \in Nat

\* The settings of Config.
Window == [enabled : BOOLEAN, start : 0 .. DayLength - 1, end : 0 .. DayLength - 1]

\* quiet_window: equal bounds are an empty window, never a silent day.
IsWindow(w) == w.enabled /\ w.start # w.end

IsQuiet(t, w) ==
  LET hour == t % DayLength
  IN /\ IsWindow(w)
     /\ IF w.start < w.end THEN w.start <= hour /\ hour < w.end
                           ELSE hour >= w.start \/ hour < w.end

\* Mutant of Wake: always the day of t.
WakeSameDay(t, w) == t - (t % DayLength) + w.end

\* The end of the window on the day of t, or on the next.
Wake(t, w) ==
  LET sameDay == t - (t % DayLength) + w.end
  IN IF sameDay <= t THEN sameDay + DayLength ELSE sameDay

\* The hours of a day outside the window.
AwakeLength(w) == (w.start - w.end) % DayLength

\* The times shift_out_of_quiet may return.
ShiftOutOfQuiet(t, w) ==
  IF IsQuiet(t, w) THEN {Wake(t, w) + d : d \in 0 .. WakeSpread} ELSE {t}

=============================================================================
