--------------------------- MODULE MCPlanningChecks ---------------------------
(* The checks of planning on a single request against what they are for;   *)
(* TLC evaluates the assumptions.                                           *)
EXTENDS PlanningFields, DependencySearch
LOCAL INSTANCE SequencesExt

Date(year, month, day) == [year |-> year, month |-> month, day |-> day, plus |-> {}]
AllDay(start, end) == [kind |-> "all_day", start |-> start, end |-> end]
Utc(start, end) == [kind |-> "utc", start |-> start, end |-> end]

\* Days since the beginning of 1898.
DayNumber(d) ==
  LET years[y \in 1898..2100] ==
        IF y = 1898 THEN 0 ELSE years[y - 1] + (IF Leap(y - 1) THEN 366 ELSE 365)
      months[m \in 1..12] == IF m = 1 THEN 0 ELSE months[m - 1] + DaysIn(d.year, m - 1)
  IN years[d.year] + months[d.month] + d.day

\* A calendar repeats after 400 years, which have 146 097 days.
ASSUME CalendarIsGregorian ==
  Cardinality({x \in (1600..1999) \X (0..13) \X (0..32) : DateFits(Date(x[1], x[2], x[3]))}) = 146097

SampleDates ==
  [year : {1900, 1999, 2000}, month : {0, 2, 3, 12, 13}, day : {0, 1, 28, 29, 30, 31, 32}, plus : {{}}]
WrittenWithSigns == [year : {2024}, month : {1, 9}, day : {1, 9}, plus : {{}, {"month"}, {"day"}}]

\* All-day events end after they start, for dates written in digits.
ASSUME AllDayEventsLast ==
  \A d, e \in SampleDates :
    TimingFits(AllDay(d, e)) <=> DateFits(d) /\ DateFits(e) /\ DayNumber(d) < DayNumber(e)

\* With a sign among the digits, the order of the text is not that of the days.
ASSUME SignsMisleadTheOrder ==
  \E d, e \in WrittenWithSigns : TimingFits(AllDay(d, e)) /\ DayNumber(e) < DayNumber(d)

Rules ==
  [frequency : {"daily", "weekly"}, interval : 0..3, count : {{}, {0}, {2}, {3}},
   until : {{}, {1}, {4}, {9}}, weekdays : {<<>>, <<"monday">>, <<"monday", "monday">>}]
Timings == <<Utc(1, 2), Utc(4, 5), AllDay(Date(2000, 2, 28), Date(2000, 2, 29))>>
\* Whether the event takes place for the nth time after its first.
TakesPlace(n, rule, t) ==
  /\ \A c \in rule.count : n < c
  /\ t.kind = "utc" => \A until \in rule.until : t.start + n * rule.interval <= until

\* A recurring event takes place at least once, and ends.
ASSUME RecurrenceEnds ==
  \A rule \in Rules, i \in DOMAIN Timings :
    RecurrenceFits(rule, Timings[i]) =>
      /\ TakesPlace(0, rule, Timings[i])
      /\ ~TakesPlace(IF MaxCount > MaxSpan THEN MaxCount + 1 ELSE MaxSpan + 1, rule, Timings[i])

\* The search ends and decides whether the dependency closes a cycle, whatever the
\* order of the rows.
ASSUME SearchDecidesCycles ==
  LET ends == {x \in Ids \X Ids : x[1] # x[2]}
  IN \A edges \in SeqOf(ends, 4), from, to \in Ids, id \in 1..5 :
       LET rows == [i \in DOMAIN edges |-> [id |-> i, from |-> edges[i][1], to |-> edges[i][2]]]
           row == [id |-> id, from |-> from, to |-> to]
       IN SearchRejects(row, rows) <=>
            MakesCycle(row, Others(row, {rows[i] : i \in DOMAIN rows}))
=============================================================================
