----------------------------- MODULE CalendarRules -----------------------------
(***************************************************************************)
(* Which days an entry of a Date_List or an Exception_Schedule covers:     *)
(* `CalendarEntryValue::matches` and what it calls, of                     *)
(* `src/property/complex.rs`, and `Calendar::covers`.  The code judges     *)
(* a date by its own numbers alone.  Here the days go by one after another *)
(* and have their dates from a calendar that counts them, and an entry is  *)
(* held to what the days before and after say.                             *)
(***************************************************************************)
EXTENDS Integers, Sequences, FiniteSets

CONSTANTS
  None,
  Years,  \* the years whose days go by
  Ranges  \* a start and an end, days or None

CalendarAssumption ==
  /\ None \notin Nat /\ None \notin Nat \X Nat \X Nat
  /\ \A year \in Years : year \in Nat /\ year >= 1900
  /\ \A range \in Ranges : range[1] \in Nat \cup {None} /\ range[2] \in Nat \cup {None}

ANY == 255
UNSPECIFIED_YEAR == 255
ODD_MONTHS == 13
EVEN_MONTHS == 14
LAST_DAY_OF_MONTH == 32
ODD_DAYS == 33
EVEN_DAYS == 34
LAST_WEEK_OF_MONTH == 6

-----------------------------------------------------------------------------
(* The calendar: days counted from the first of January 1900, a Monday *)

DaysBefore(year) ==
  LET past == year - 1 IN
  (365 * (year - 1900)) + (past \div 4) - (past \div 100) + (past \div 400) - 460

DaysOfYear(year) == DaysBefore(year + 1) - DaysBefore(year)

\* The day of the year on which a month begins, from 0.
BeginsOn(year, month) ==
  <<0, 31, 59, 90, 120, 151, 181, 212, 243, 273, 304, 334>>[month]
    + IF month > 2 THEN DaysOfYear(year) - 365 ELSE 0

\* The clock's date: year, month, day and weekday.
DateOf(day) ==
  LET year == CHOOSE y \in (1899 + (day \div 366))..(1901 + (day \div 365)) :
                DaysBefore(y) <= day /\ day < DaysBefore(y + 1)
      rest == day - DaysBefore(year)
      month == CHOOSE m \in 1..12 :
                 BeginsOn(year, m) <= rest /\ (m < 12 => rest < BeginsOn(year, m + 1))
  IN <<year, month, rest - BeginsOn(year, month) + 1, (day % 7) + 1>>

SameMonth(one, other) ==
  DateOf(one)[1] = DateOf(other)[1] /\ DateOf(one)[2] = DateOf(other)[2]

-----------------------------------------------------------------------------
(* The code's rules *)

\* A mutant of the next: centuries are leap years too.
IsLeapYearJulian(year) == year # UNSPECIFIED_YEAR /\ year % 4 = 0
IsLeapYear(year) ==
  year # UNSPECIFIED_YEAR /\ year % 4 = 0 /\ (year % 100 # 0 \/ year % 400 = 0)

DaysInMonth(year, month) ==
  CASE month \in {1, 3, 5, 7, 8, 10, 12} -> 31
    [] month \in {4, 6, 9, 11} -> 30
    [] month = 2 -> IF IsLeapYear(year) THEN 29 ELSE 28
    [] OTHER -> 0

MonthMatches(pattern, month) ==
  CASE pattern = ANY -> TRUE
    [] pattern = ODD_MONTHS -> month % 2 = 1
    [] pattern = EVEN_MONTHS -> month % 2 = 0
    [] OTHER -> pattern = month

DayMatches(pattern, date) ==
  CASE pattern = ANY -> TRUE
    [] pattern = LAST_DAY_OF_MONTH -> date[3] = DaysInMonth(date[1], date[2])
    [] pattern = ODD_DAYS -> date[3] % 2 = 1
    [] pattern = EVEN_DAYS -> date[3] % 2 = 0
    [] OTHER -> pattern = date[3]

DatePatternMatches(pattern, date) ==
  /\ pattern[1] \in {UNSPECIFIED_YEAR, date[1]}
  /\ MonthMatches(pattern[2], date[2])
  /\ DayMatches(pattern[3], date)
  /\ pattern[4] \in {ANY, date[4]}

WeekMatches(week, date) ==
  CASE week = ANY -> TRUE
    [] week # ANY /\ date[3] \notin 1..31 -> FALSE
    [] week = LAST_WEEK_OF_MONTH /\ date[3] \in 1..31 -> date[3] + 7 > DaysInMonth(date[1], date[2])
    [] OTHER -> week = (date[3] + 6) \div 7

WeekNDayMatches(pattern, date) ==
  /\ MonthMatches(pattern.month, date[2])
  /\ WeekMatches(pattern.week_of_month, date)
  /\ pattern.day_of_week \in {ANY, date[4]}

\* An end of a range that is not a whole date leaves that side open.
CalendarOrdinal(date) ==
  IF date[1] = UNSPECIFIED_YEAR \/ date[2] > 12 \/ date[3] > 31 THEN None
  ELSE <<date[1], date[2], date[3]>>

NotAfter(one, other) ==
  \/ one = None \/ other = None
  \/ one[1] < other[1]
  \/ one[1] = other[1] /\ one[2] < other[2]
  \/ one[1] = other[1] /\ one[2] = other[2] /\ one[3] <= other[3]

Contains(range, date) ==
  /\ CalendarOrdinal(date) # None
  /\ NotAfter(CalendarOrdinal(range.start), CalendarOrdinal(date))
  /\ NotAfter(CalendarOrdinal(date), CalendarOrdinal(range.end))

EntryMatches(entry, date) ==
  CASE entry.kind = "Date" -> DatePatternMatches(entry.date, date)
    [] entry.kind = "DateRange" -> Contains(entry, date)
    [] entry.kind = "WeekNDay" -> WeekNDayMatches(entry, date)

Covers(date_list, date) == \E entry \in date_list : EntryMatches(entry, date)

-----------------------------------------------------------------------------
VARIABLE today

Init == today \in {DaysBefore(year) : year \in Years}
Next == DateOf(today + 1)[1] = DateOf(today)[1] /\ today' = today + 1
Spec == Init /\ [][Next]_today

-----------------------------------------------------------------------------
EveryYear(day) == [kind |-> "Date", date |-> <<UNSPECIFIED_YEAR, ANY, day, ANY>>]
InWeek(week) == [kind |-> "WeekNDay", month |-> ANY, week_of_month |-> week, day_of_week |-> ANY]
Bound(day) == IF day = None THEN <<UNSPECIFIED_YEAR, ANY, ANY, ANY>> ELSE DateOf(day)
Between(range) == [kind |-> "DateRange", start |-> Bound(range[1]), end |-> Bound(range[2])]

\* The entries of a calendar cover the days they name: the last day of a month is the one after
\* which another begins, and its last week the seven days before that; a day is in the week
\* that so many of its weekday came before in its month; each day is odd or even, and a range
\* holds the days from its start to its end, in leap years and at the ends of centuries.
EntriesNameTheirDays ==
  LET date == DateOf(today) IN
  /\ EntryMatches(EveryYear(LAST_DAY_OF_MONTH), date) <=> ~SameMonth(today, today + 1)
  /\ EntryMatches(InWeek(LAST_WEEK_OF_MONTH), date) <=> ~SameMonth(today, today + 7)
  /\ \A week \in 1..5 :
       EntryMatches(InWeek(week), date) <=>
         Cardinality({k \in 1..5 : SameMonth(today, today - (7 * k))}) = week - 1
  /\ Covers({EveryYear(ODD_DAYS)}, date) <=> ~Covers({EveryYear(EVEN_DAYS)}, date)
  /\ Covers({EveryYear(day) : day \in 1..31}, date)
  /\ \A range \in Ranges :
       EntryMatches(Between(range), date) <=>
         /\ range[1] # None => range[1] <= today
         /\ range[2] # None => today <= range[2]

=============================================================================
