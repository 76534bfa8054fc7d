----------------------------- MODULE CronSchedule -----------------------------
(***************************************************************************)
(* The five fields of a cron expression, how they are parsed, and the      *)
(* search for the next run, minute by minute, in UTC.  The calendar's      *)
(* sizes are parameters, so that a short one shows what a year does:       *)
(* months of several lengths, leap years, and the horizon of the search.   *)
(*                                                                         *)
(* A token of a field is a range with a step; * is the whole range, and a  *)
(* single value a range of one.                                            *)
(***************************************************************************)
EXTENDS Integers, Sequences, FiniteSets

CONSTANTS
  SecondsPerMinute, MinutesPerHour, HoursPerDay, DaysPerWeek,
  MonthLengths,    \* of all the months there are, one after the other
  MonthsPerYear, LongestMonth,
  HorizonDays,     \* days the search looks ahead: 366
  Expressions,     \* expressions administrators and modules use
  LatestStart,     \* seconds in which a job may be registered
  Delays           \* seconds from a run's minute to the end of its handler

FieldNames == {"minutes", "hours", "daysOfMonth", "months", "daysOfWeek"}
CronToken == [start : Int, end : Int, step : Int]

\* A field whose text is * is a wildcard; */1 is not.
ASSUME CronAssumption ==
  /\ {SecondsPerMinute, MinutesPerHour, HoursPerDay, DaysPerWeek, MonthsPerYear, LongestMonth,
      HorizonDays} \subseteq Nat \ {0}
  /\ MonthLengths \in Seq(1 .. LongestMonth)
  /\ \A e \in Expressions : \A f \in FieldNames :
       /\ e[f].wildcard \in BOOLEAN /\ e[f].tokens \subseteq CronToken
  /\ LatestStart \in Nat /\ Delays \subseteq Nat

VARIABLE schedule  \* an expression, when its next run was computed, and that run

-----------------------------------------------------------------------------
(* parseCronExpression.                                                     *)

LowestIn(f) == IF f \in {"daysOfMonth", "months"} THEN 1 ELSE 0
Highest(f) == CASE f = "minutes" -> MinutesPerHour - 1
                [] f = "hours" -> HoursPerDay - 1
                [] f = "daysOfMonth" -> LongestMonth
                [] f = "months" -> MonthsPerYear
                [] f = "daysOfWeek" -> DaysPerWeek   \* Sunday again

IsSupportedToken(f, token) ==
  /\ token.step > 0 /\ LowestIn(f) <= token.start /\ token.start <= token.end
  /\ token.end <= Highest(f)
IsSupportedCronExpression(e) ==
  \A f \in FieldNames : e[f].tokens # {} /\ \A token \in e[f].tokens : IsSupportedToken(f, token)

Normalized(f, value) == IF f = "daysOfWeek" /\ value = DaysPerWeek THEN 0 ELSE value

\* addToken: from the start of the range by steps; the week's last day becomes
\* its first only then.
Added(f, token) ==
  LET steps == 0 .. (token.end - token.start) \div token.step IN
  {Normalized(f, token.start + n * token.step) : n \in steps}
Parsed(e) == [f \in FieldNames |-> UNION {Added(f, token) : token \in e[f].tokens}]

-----------------------------------------------------------------------------
(* The calendar: minutes and days are counted from the first.               *)

MinutesPerDay == MinutesPerHour * HoursPerDay
DaysBefore == [i \in 1 .. Len(MonthLengths) + 1 |->
                 LET before[j \in 1 .. i] == IF j = 1 THEN 0 ELSE before[j - 1] + MonthLengths[j - 1]
                 IN before[i]]
MonthOf(day) == CHOOSE i \in DOMAIN MonthLengths : DaysBefore[i] <= day /\ day < DaysBefore[i + 1]

ValueAt(f, minute) ==
  LET day == minute \div MinutesPerDay IN
  CASE f = "minutes" -> minute % MinutesPerHour
    [] f = "hours" -> (minute \div MinutesPerHour) % HoursPerDay
    [] f = "daysOfMonth" -> day - DaysBefore[MonthOf(day)] + 1
    [] f = "months" -> ((MonthOf(day) - 1) % MonthsPerYear) + 1
    [] f = "daysOfWeek" -> day % DaysPerWeek

-----------------------------------------------------------------------------
(* computeNextCronRun.                                                      *)

\* matchesCronDay: two fields that are both restricted are alternatives.
MatchesCronDay(e, monthDay, weekDay) ==
  /\ e["daysOfMonth"].wildcard \/ monthDay \/ (weekDay /\ ~e["daysOfWeek"].wildcard)
  /\ e["daysOfWeek"].wildcard \/ weekDay \/ (monthDay /\ ~e["daysOfMonth"].wildcard)

MatchesSchedule(e, minute) ==
  LET matches == [f \in FieldNames |-> ValueAt(f, minute) \in Parsed(e)[f]] IN
  /\ matches["minutes"] /\ matches["hours"] /\ matches["months"]
  /\ MatchesCronDay(e, matches["daysOfMonth"], matches["daysOfWeek"])

\* Mutant: the search starts with the minute it is in.
ThisMinute(from) == from \div SecondsPerMinute

FirstCandidate(from) == (from + SecondsPerMinute) \div SecondsPerMinute
Deadline(from) == from + HorizonDays * MinutesPerDay * SecondsPerMinute

NoRun == -1   \* an error: no run within the horizon

\* The loop, from candidate to candidate.
ComputeNextCronRun(e, from) ==
  LET last == Deadline(from) \div SecondsPerMinute
      search[minute \in FirstCandidate(from) .. last + 1] ==
        IF minute > last THEN NoRun
        ELSE IF MatchesSchedule(e, minute) THEN minute ELSE search[minute + 1]
  IN search[FirstCandidate(from)]

-----------------------------------------------------------------------------
\* A job is registered at some second; each later computation is at the end of
\* a run.
CronInit ==
  \E e \in Expressions, from \in 0 .. LatestStart :
    /\ IsSupportedCronExpression(e)
    /\ schedule = [expression |-> e, from |-> from, next |-> ComputeNextCronRun(e, from)]

\* The calendar ends where a search would leave it.
InCalendar(from) ==
  Deadline(from) \div SecondsPerMinute < MinutesPerDay * DaysBefore[Len(MonthLengths) + 1]

RunAndReschedule(delay) ==
  LET from == schedule.next * SecondsPerMinute + delay IN
  /\ schedule.next # NoRun /\ InCalendar(from)
  /\ schedule' = [schedule EXCEPT !.from = from,
                                  !.next = ComputeNextCronRun(schedule.expression, from)]

CronNext == \E delay \in Delays : RunAndReschedule(delay)

CronSpec == CronInit /\ [][CronNext]_schedule

-----------------------------------------------------------------------------
(* Properties.                                                              *)

\* What an expression means, said of a minute and not of a set of values.
Denotes(f, token, value) ==
  \E v \in token.start .. token.end :
    /\ (v - token.start) % token.step = 0
    /\ v = value \/ (f = "daysOfWeek" /\ v = value + DaysPerWeek)
FieldFires(e, f, minute) == \E token \in e[f].tokens : Denotes(f, token, ValueAt(f, minute))
DayFires(e, minute) ==
  LET restricting == {f \in {"daysOfMonth", "daysOfWeek"} : ~e[f].wildcard} IN
  restricting = {} \/ \E f \in restricting : FieldFires(e, f, minute)
Fires(e, minute) ==
  DayFires(e, minute) /\ \A f \in {"minutes", "hours", "months"} : FieldFires(e, f, minute)

\* The next run is the first minute after the computation at which the
\* expression fires: none is skipped and none repeated, however long the run
\* before it took; and there is none only where none is within the horizon, as
\* with a leap day.
NextRunIsFirst ==
  LET e == schedule.expression
      Later(minute) == minute * SecondsPerMinute > schedule.from
      horizon == {minute \in schedule.from \div SecondsPerMinute
                               .. Deadline(schedule.from) \div SecondsPerMinute : Later(minute)}
  IN
  IF schedule.next = NoRun THEN \A minute \in horizon : ~Fires(e, minute)
  ELSE /\ schedule.next \in horizon /\ Fires(e, schedule.next)
       /\ \A minute \in horizon : minute < schedule.next => ~Fires(e, minute)
=============================================================================
