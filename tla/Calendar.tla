------------------------------ MODULE Calendar ------------------------------
(***************************************************************************)
(* Days, instants and the buckets of the pages (analytics.go).  A day is a *)
(* number, Mondays are the multiples of seven; an instant is a number of   *)
(* hours since midnight UTC of day 0.  A time zone is a fixed offset.      *)
(***************************************************************************)
EXTENDS Integers, FiniteSets, FiniteSetsExt

CONSTANTS
  MonthStarts, \* the first days of the months
  ZoneOffset,  \* BUSINESS_TIMEZONE: hours ahead of UTC
  NoTime       \* NULL, of a timestamp

ASSUME CalendarAssumption ==
  /\ MonthStarts \subseteq Int
  /\ ZoneOffset \in -12..14
  /\ NoTime \notin Int

Period == {"day", "week", "month"}

\* The instant at which a day begins in the zone, and the day of an instant:
\* (at AT TIME ZONE $1)::date.
Midnight(d) == 24 * d - ZoneOffset
DateOf(at) == (at + ZoneOffset) \div 24

\* A date that was read from the database is a midnight in UTC; it is compared
\* with the midnight of a day in the zone.
Before(date, d) == 24 * date < Midnight(d)

Monday(d) == d - (d % 7)

Month(d) == Max({m \in MonthStarts : m <= d})

MonthsBefore(m, n) ==
  LET Index(s) == Cardinality({x \in MonthStarts : x < s})
  IN  CHOOSE s \in MonthStarts : Index(s) = Index(m) - n

BucketStart(period, d) ==
  CASE period = "week"  -> Monday(d)
    [] period = "month" -> Month(d)
    [] period = "day"   -> d

\* The loop of nextBucket from the bucket of a day to the last one that begins
\* before another.
Buckets(period, from, to) == {BucketStart(period, d) : d \in from..to - 1}

\* periodWindows: where the window shown and the one before it begin.
CurrentStart(period, today) ==
  CASE period = "week"  -> Monday(today) - 11 * 7
    [] period = "month" -> MonthsBefore(Month(today), 5)
    [] period = "day"   -> today - 13

PreviousStart(period, today) ==
  CASE period = "week"  -> CurrentStart(period, today) - 12 * 7
    [] period = "month" -> MonthsBefore(CurrentStart(period, today), 6)
    [] period = "day"   -> CurrentStart(period, today) - 14

=============================================================================
