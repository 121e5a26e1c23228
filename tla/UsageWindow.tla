----------------------------- MODULE UsageWindow -----------------------------
(***************************************************************************)
(* The two windows of frontend/usage.py.  Time is counted in hours from a   *)
(* Monday at midnight; nothing below the hour matters, since the week is    *)
(* reset on the hour and clocks are changed on the hour.                    *)
(*                                                                          *)
(* Local time is that of a place that changes its clocks once: dst.at is    *)
(* the hour at which it does, and dst.by by how much.                       *)
(***************************************************************************)
EXTENDS Integers

SESSION_WINDOW     == 5
WEEK_RESET_WEEKDAY == 3
WEEK_RESET_HOUR    == 6

Day  == 24
Week == 7 * Day

(* datetime.fromtimestamp: what the clock on the wall reads. *)
Local(t, dst) == IF t < dst.at THEN t ELSE t + dst.by

(* datetime.timestamp: of a reading that comes twice the first, and a       *)
(* reading that is skipped counts from before the change.                   *)
Epoch(wall, dst) ==
  IF wall >= dst.at /\ wall >= dst.at + dst.by THEN wall - dst.by ELSE wall

\* Mutant: the week that has not begun yet is not stepped back from.
WeekWindowAhead(now, dst) ==
  LET local   == Local(now, dst)
      day     == local \div Day
      weekday == day % 7
  IN Epoch(Day * (day - ((weekday - WEEK_RESET_WEEKDAY) % 7)) + WEEK_RESET_HOUR, dst)

(* _week_window_start: the reset hour of today, taken back to the reset     *)
(* weekday, and a week more if that is still to come.                       *)
WeekWindowStart(now, dst) ==
  LET local     == Local(now, dst)
      day       == local \div Day
      weekday   == day % 7
      candidate == Day * (day - ((weekday - WEEK_RESET_WEEKDAY) % 7)) + WEEK_RESET_HOUR
  IN Epoch(IF candidate > local THEN candidate - Week ELSE candidate, dst)

SessionWindowStart(now) == now - SESSION_WINDOW

-----------------------------------------------------------------------------
(* Clocks are changed at night, between midnight and four, by an hour. *)
DstChange == [at : {t \in Int : t % Day \in 0..4}, by : {-1, 1}]

IsReset(t, dst) ==
  Local(t, dst) % Week = Day * WEEK_RESET_WEEKDAY + WEEK_RESET_HOUR

(* The start of the week's window is the last moment, up to now, at which   *)
(* the clock on the wall read the hour of the reset: also in the reset hour *)
(* itself and when the clocks were changed in between.                      *)
WeekStartsAtReset(now, dst) ==
  LET start == WeekWindowStart(now, dst)
  IN /\ start <= now
     /\ IsReset(start, dst)
     /\ \A t \in start + 1..now : ~IsReset(t, dst)
=============================================================================
