---------------------------- MODULE PlanningFields ----------------------------
(***************************************************************************)
(* What the put methods of planning ask of a request by itself, before the *)
(* lock and the catalog.  Fields by kind:                                  *)
(*   task         progress, start, due (none, or one time)                 *)
(*   event        timing, recurrence (none, or one rule)                   *)
(*   dependency   lag                                                      *)
(* A timing is a pair of UTC times or of dates.  A date is read with       *)
(* parse::<u16>, parse::<u8>, which take a plus sign for a digit, and is   *)
(* compared as text: plus names the parts so written.  Ids, titles, texts  *)
(* and names of time zones are left out.                                   *)
(***************************************************************************)
EXTENDS Integers, Sequences, FiniteSets

CONSTANTS
  MaxLag,       \* one year
  MaxSpan,      \* ten years
  MaxInterval,  \* 365
  MaxCount      \* 10 000

ASSUME FieldBoundAssumption == {MaxLag, MaxSpan, MaxInterval, MaxCount} \subseteq Nat

-----------------------------------------------------------------------------
(* Dates                                                                   *)

Leap(year) == year % 4 = 0 /\ (year % 100 # 0 \/ year % 400 = 0)
DaysIn(year, month) ==
  CASE month \in {1, 3, 5, 7, 8, 10, 12} -> 31
    [] month \in {4, 6, 9, 11} -> 30
    [] month = 2 -> IF Leap(year) THEN 29 ELSE 28
DateFits(d) == d.month \in 1..12 /\ d.day \in 1..DaysIn(d.year, d.month)

\* The order of the characters: a plus sign comes before the digits.
Sign(d, part) == IF part \in d.plus THEN 0 ELSE 1
AsWritten(d) ==
  <<Sign(d, "year"), d.year, Sign(d, "month"), d.month, Sign(d, "day"), d.day>>
WrittenBefore(d, e) ==
  LET a == AsWritten(d)
      b == AsWritten(e)
  IN \E i \in DOMAIN a : a[i] < b[i] /\ \A j \in 1..i - 1 : a[j] = b[j]

-----------------------------------------------------------------------------
(* Events                                                                  *)

\* validate_timing
TimingFits(t) ==
  \/ t.kind = "utc" /\ t.start < t.end
  \/ t.kind = "all_day" /\ DateFits(t.start) /\ DateFits(t.end) /\ WrittenBefore(t.start, t.end)

\* validate_recurrence: bounded by a count or, for UTC times, by an end.
RecurrenceFits(rule, t) ==
  /\ rule.interval \in 1..MaxInterval
  /\ Cardinality(rule.count) + Cardinality(rule.until) = 1
  /\ rule.count \subseteq 1..MaxCount
  /\ \A until \in rule.until : t.kind = "utc" /\ until - t.start \in 0..MaxSpan
  /\ rule.weekdays # <<>> => rule.frequency = "weekly"
  /\ \A i, j \in DOMAIN rule.weekdays : rule.weekdays[i] = rule.weekdays[j] => i = j

-----------------------------------------------------------------------------
FieldsFit(kind, f) ==
  \/ kind = "project"
  \/ kind = "task" /\ f.progress \in 0..100
       /\ \A start \in f.start, due \in f.due : start <= due
  \/ kind = "event" /\ TimingFits(f.timing)
       /\ \A rule \in f.recurrence : RecurrenceFits(rule, f.timing)
  \/ kind = "dependency" /\ f.lag \in (-MaxLag)..MaxLag
=============================================================================
