------------------------------ MODULE Calendar ------------------------------
(***************************************************************************)
(* The calendar of os/drivers/rtc.c, checked against counting the days one by *)
(* one: date is the day after the day after ... the first of January of some  *)
(* year, dayNo the number rtc_days_from_date gave that first of January, and  *)
(* one more for every day since, and wday the day of the week, as far on.     *)
(***************************************************************************)
EXTENDS Integers

CONSTANT Years   \* the years to go through

RTC_YEAR_MIN == 1980
RTC_YEAR_MAX == 2099
RTC_DAY_MAX == 43829

ASSUME CalendarAssumption == Years \subseteq RTC_YEAR_MIN .. RTC_YEAR_MAX

VARIABLES date, dayNo, wday

calvars == <<date, dayNo, wday>>

\* Mutant: 2000 is no leap year.
leap_year_100(y) == y % 4 = 0 /\ y % 100 # 0

rtc_leap_year(y) == (y % 4 = 0 /\ y % 100 # 0) \/ y % 400 = 0

month_days == <<31, 28, 31, 30, 31, 30, 31, 31, 30, 31, 30, 31>>

rtc_days_in_month(y, m) ==
  IF m \notin 1 .. 12 THEN 0
  ELSE month_days[m] + (IF m = 2 /\ rtc_leap_year(y) THEN 1 ELSE 0)

leaps_before(year) == LET y == year - 1 IN y \div 4 - y \div 100 + y \div 400

DaysBefore(y, month) ==
  LET f[m \in 1 .. 12] == IF m = 1 THEN 0 ELSE f[m - 1] + rtc_days_in_month(y, m - 1)
  IN  f[month]

rtc_days_from_date(t) ==
  IF t.year \notin RTC_YEAR_MIN .. RTC_YEAR_MAX \/ t.day \notin 1 .. rtc_days_in_month(t.year, t.month)
  THEN -1
  ELSE 365 * (t.year - RTC_YEAR_MIN) + leaps_before(t.year) - leaps_before(RTC_YEAR_MIN)
       + DaysBefore(t.year, t.month) + t.day - 1

YearDays(y) == IF rtc_leap_year(y) THEN 366 ELSE 365

rtc_weekday(t) ==
  LET days == rtc_days_from_date(t) IN IF days < 0 THEN -1 ELSE (days + 2) % 7

NoDate == [year |-> 0, month |-> 0, day |-> 0, wday |-> 0]

\* The two loops of rtc_date_from_days, over <<year or month, days that are left>>.
\* (Neither goes past its end: that many days there are not.)
YearLoop(days) ==
  LET turn[p \in (RTC_YEAR_MIN .. RTC_YEAR_MAX) \X (0 .. days)] ==
        IF p[2] >= YearDays(p[1]) /\ p[1] < RTC_YEAR_MAX
        THEN turn[<<p[1] + 1, p[2] - YearDays(p[1])>>] ELSE p
  IN  turn

MonthLoop(y) ==
  LET turn[p \in (1 .. 12) \X (0 .. 366)] ==
        IF p[2] >= rtc_days_in_month(y, p[1]) /\ p[1] < 12
        THEN turn[<<p[1] + 1, p[2] - rtc_days_in_month(y, p[1])>>] ELSE p
  IN  turn

rtc_date_from_days(days) ==
  LET yd == YearLoop(days)[<<RTC_YEAR_MIN, days>>]
      md == MonthLoop(yd[1])[<<1, yd[2]>>]
  IN  IF days > RTC_DAY_MAX THEN NoDate
      ELSE [year |-> yd[1], month |-> md[1], day |-> md[2] + 1, wday |-> (days + 2) % 7]

CalInit ==
  \E y \in Years :
    /\ date = [year |-> y, month |-> 1, day |-> 1]
    /\ dayNo = rtc_days_from_date(date) /\ wday = rtc_weekday(date)

LastDay == date.month = 12 /\ date.day = 31

\* The next day of the same year.
NextDay ==
  /\ ~LastDay
  /\ date' = IF date.day < rtc_days_in_month(date.year, date.month)
             THEN [date EXCEPT !.day = @ + 1]
             ELSE [date EXCEPT !.day = 1, !.month = @ + 1]
  /\ dayNo' = dayNo + 1 /\ wday' = (wday + 1) % 7

CalSpec == CalInit /\ [][NextDay]_calvars
-----------------------------------------------------------------------------
\* The two conversions are inverse to each other and count every day once, also
\* from one year to the next, and the days of the week with them; day 0 is 1980-01-01,
\* "a Tuesday", and the last is RTC_DAY_MAX.
CalendarAgrees ==
  /\ rtc_days_from_date(date) = dayNo /\ rtc_weekday(date) = wday
  /\ rtc_date_from_days(dayNo)
       = [year |-> date.year, month |-> date.month, day |-> date.day, wday |-> wday]
  /\ LastDay => LET next == [year |-> date.year + 1, month |-> 1, day |-> 1]
                IN  rtc_days_from_date(next) =
                      IF date.year = RTC_YEAR_MAX THEN -1 ELSE dayNo + 1
  /\ date = [year |-> 1980, month |-> 1, day |-> 1] => dayNo = 0 /\ wday = 2
  /\ LastDay /\ date.year = RTC_YEAR_MAX => dayNo = RTC_DAY_MAX
=============================================================================
