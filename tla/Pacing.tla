------------------------------- MODULE Pacing -------------------------------
(***************************************************************************)
(* The arithmetic of internal/scheduler/scheduler.go: how long an instance *)
(* waits until its next cycle, whether a search window is open, and when   *)
(* the hourly counter is due for a reset.                                  *)
(*                                                                         *)
(* Durations and times are natural numbers of one unit; HourLen and DayLen *)
(* say how many units an hour and a day have.                              *)
(***************************************************************************)
EXTENDS Integers

CONSTANTS HourLen, DayLen

ASSUME HourLenAssumption == HourLen \in Nat \ {0}
ASSUME DayLenAssumption == DayLen \in Nat \ {0}

\* A window bound that is empty or not HH:MM.
Blank == -1

\* The time of day parseHHMM can return, or Blank.
WindowBound == 0 .. (DayLen - 1) \cup {Blank}

Lesser(a, b) == IF a < b THEN a ELSE b
Greater(a, b) == IF a < b THEN b ELSE a

\* Mutant: doubling without the ceiling.
nextIntervalUnbounded(base, previous, totalItems, batchSize) ==
  CASE totalItems = 0                               -> previous * 2
    [] totalItems # 0 /\ totalItems > batchSize * 2 -> Greater(previous \div 2, base \div 4)
    [] OTHER                                        -> base

\* An empty library doubles the wait up to four times the base, a backlog of
\* more than two batches halves it down to a quarter of the base (durations
\* divide towards zero), anything between returns to the base.
computeNextInterval(base, previous, totalItems, batchSize) ==
  CASE totalItems = 0                               -> Lesser(previous * 2, base * 4)
    [] totalItems # 0 /\ totalItems > batchSize * 2 -> Greater(previous \div 2, base \div 4)
    [] OTHER                                        -> base

\* Mutant: the end of the window belongs to it.
windowClosed(start, end, timeOfDay) ==
  \/ start = Blank
  \/ end = Blank
  \/ start <= end /\ start <= timeOfDay /\ timeOfDay <= end
  \/ start > end /\ (start <= timeOfDay \/ timeOfDay <= end)

\* The window is half open and may cross midnight; a blank or malformed bound
\* opens it all day.
inSearchWindow(start, end, timeOfDay) ==
  \/ start = Blank
  \/ end = Blank
  \/ start <= end /\ start <= timeOfDay /\ timeOfDay < end
  \/ start > end /\ (start <= timeOfDay \/ timeOfDay < end)

\* The hour a time belongs to (time.Truncate rounds down to it).
hourOf(t) == t \div HourLen

nextHourBoundary(t) == (hourOf(t) + 1) * HourLen
=============================================================================
