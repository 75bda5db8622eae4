------------------------------- MODULE PollTimer -------------------------------
(***************************************************************************)
(* The timer of the polling engine (PeriodicRead.cpp: PeriodicTimer and    *)
(* CTimeMapper): a wheel of counter values, each with the polls and the    *)
(* cutoffs that are due when the counter reaches it.                       *)
(*                                                                         *)
(* The counter advances by one tick, the greatest common divisor of all    *)
(* polling and cutoff intervals, and starts again at the longest interval. *)
(* All intervals are in milliseconds.  Every interval has points to poll:  *)
(* an interval is known only because a point has it.                       *)
(***************************************************************************)
EXTENDS Naturals, FiniteSets, FiniteSetsExt

CONSTANTS
  Configs,   \* the sets of polling intervals to consider
  Percents   \* the values of CUTOFF_INTERVAL_PERCENTAGE to consider

\* An interval of 1 ms has no cutoff before its next poll, nor has any interval
\* with a percentage of 100 or more; the code takes both without a warning.
ASSUME ConfigAssumption ==
  /\ \A c \in Configs : c # {} /\ IsFiniteSet(c) /\ c \subseteq Nat \ {0, 1}
  /\ Percents \subseteq 0..99

VARIABLES
  intervals,   \* the keys of m_mapTimeRecord
  percent,     \* u32CutoffIntervalPercentage
  tick,        \* uiMsecInterval, from getMinTimerFrequency
  maxCounter,  \* uiMaxCounter
  counter,     \* uiCurCounter
  tracker,     \* m_mapPollingTracker, as a set of entries with their counter
  fired,       \* the entries that the last tick handed over
  \* history
  since,       \* time since the last poll of an interval, in time units
  polled       \* the intervals polled so far

config == <<intervals, percent, tick, maxCounter>>
vars == <<config, counter, tracker, fired, since, polled>>

-----------------------------------------------------------------------------
\* The time unit is 64 ns: a millisecond is 15625 units, and a 32-bit number
\* of nanoseconds holds 2^26 units.
UnitsPerMs  == 15625
UnitsInWord == 67108864

CutoffOf(i, pct) ==
  LET c == (i * pct) \div 100
  IN IF c = 0 THEN (i * 9) \div 10 ELSE c

gcd[m \in Nat] == [n \in Nat |-> IF m = 0 THEN n ELSE gcd[n % m][m]]

\* getMinTimerFrequency: its early exit, at 1, does not change the result.
MinTimerFrequency(S, pct) ==
  FoldSet(LAMBDA i, g : gcd[CutoffOf(i, pct)][gcd[i][g]], 0, S)

Cutoff(i) == CutoffOf(i, percent)

\* Time between two ticks: interval*1000*1000, computed in 32 bits.
TickSleep == (tick * UnitsPerMs) % UnitsInWord

\* A poll or a cutoff of interval i, due when the counter is c.
Poll(i, c)      == [at |-> c, interval |-> i, polling |-> TRUE]
CutoffAt(i, c)  == [at |-> c, interval |-> i, polling |-> FALSE]

\* Fault: the case of the longest interval is left out.
NextPollingNoWrap(i, c) ==
  IF c + i > maxCounter THEN (c + i) % maxCounter ELSE c + i

\* The next counter values of interval i, polled when the counter is c.
NextPolling(i, c) ==
  IF c = maxCounter /\ i = maxCounter THEN maxCounter
  ELSE IF c + i > maxCounter THEN (c + i) % maxCounter ELSE c + i
NextCutoff(i, c) ==
  IF c + Cutoff(i) > maxCounter THEN (c + Cutoff(i)) % maxCounter ELSE c + Cutoff(i)

-----------------------------------------------------------------------------
TypeOK ==
  /\ intervals \in Configs /\ percent \in Percents
  /\ tick \in Nat \ {0} /\ maxCounter \in Nat \ {0}
  /\ counter \in 0..(maxCounter - 1)
  /\ tracker \subseteq [at : 1..maxCounter, interval : intervals, polling : BOOLEAN]
  /\ fired \subseteq [at : 1..maxCounter, interval : intervals, polling : BOOLEAN]
  /\ since \in [intervals -> Nat]
  /\ polled \subseteq intervals

\* preparePollingTracker: the first poll of an interval comes after the interval.
Init ==
  /\ intervals \in Configs
  /\ percent \in Percents
  /\ tick = MinTimerFrequency(intervals, percent)
  /\ maxCounter = Max(intervals)
  /\ counter = 0
  /\ tracker = {Poll(i, i) : i \in intervals}
  /\ fired = {}
  /\ since = [i \in intervals |-> 0]
  /\ polled = {}

Due(c) == {e \in tracker : e.at = c}
DuePolls(c) == {e.interval : e \in {d \in Due(c) : d.polling}}

\* checkTimer: the entries of c are handed over and taken out of the tracker,
\* and every polled interval enters it again.  The order of the entries of one
\* counter, sorted by interval, is not modelled.
CheckTimer(c) ==
  /\ fired' = Due(c)
  /\ tracker' = (tracker \ Due(c))
                  \cup {Poll(i, NextPolling(i, c)) : i \in DuePolls(c)}
                  \cup {CutoffAt(i, NextCutoff(i, c)) : i \in DuePolls(c)}
  /\ since' = [i \in intervals |-> IF i \in DuePolls(c) THEN 0 ELSE since[i] + TickSleep]
  /\ polled' = polled \cup DuePolls(c)
  /\ UNCHANGED config

\* Fault: the counter is compared after one more step.
TickLateReset ==
  /\ CheckTimer(counter + tick)
  /\ counter' = IF counter + tick > maxCounter THEN 0 ELSE counter + tick

\* One round of timerThread.
Tick ==
  /\ CheckTimer(counter + tick)
  /\ counter' = IF counter + tick = maxCounter THEN 0 ELSE counter + tick

Next == Tick

Spec == Init /\ [][Next]_vars

-----------------------------------------------------------------------------
\* Every interval, whatever others share the wheel with it and however often
\* the counter wraps, is polled each time its interval has passed, never in
\* between, and no tick steps over it (checkTimer, "set future counter-timer
\* value").
PollOnPeriod ==
  [][\A i \in intervals :
       LET now == since[i] + TickSleep
           due == i * UnitsPerMs
       IN /\ now <= due
          /\ (\E e \in fired' : e.interval = i /\ e.polling) <=> now = due]_vars

\* Every poll is followed by its cutoff when the cutoff interval has passed,
\* and by no other cutoff, and no tick steps over it: the polls and cutoffs of
\* an interval alternate.
CutoffOnTime ==
  [][\A i \in intervals :
       LET now == since[i] + TickSleep
           due == Cutoff(i) * UnitsPerMs
       IN /\ i \in polled /\ since[i] < due => now <= due
          /\ (\E e \in fired' : e.interval = i /\ ~e.polling) <=> i \in polled /\ now = due]_vars

\* Polls and cutoffs alternate and both come on time, for ever (checkTimer).
WheelOnTime == PollOnPeriod /\ CutoffOnTime

\* "interval is in milliseconds ... for following calculation, convert interval
\* to nanoseconds": a tick sleeps for its milliseconds.
SleepsOneTick == TickSleep = tick * UnitsPerMs
=============================================================================
