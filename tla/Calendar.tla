------------------------------- MODULE Calendar -------------------------------
(***************************************************************************)
(* NepalCalendar and CalendarService: dates of the Bikram Sambat (BS)      *)
(* calendar and of the Gregorian one.  A Gregorian date is the number of   *)
(* days since 1 Baisakh of the first year; the lengths of the BS months    *)
(* are the table of the library nepali_datetime.  A call reads the clock   *)
(* more than once, and midnight may pass in between.                       *)
(***************************************************************************)
EXTENDS Desk, Integers, Sequences, FiniteSets, SequencesExt

CONSTANTS BsYears,        \* consecutive years of the table
          MonthLengths,   \* for each the lengths of its twelve months
          FirstDay, LastDay   \* the days the clock shows in this instance

Months == 1 .. 12

FirstYear == CHOOSE y \in BsYears : \A z \in BsYears : y <= z
LastYear  == CHOOSE y \in BsYears : \A z \in BsYears : z <= y

BsDate == [year: BsYears, month: Months, day: 1 .. 32]

ASSUME TableAssumption ==
    /\ BsYears \subseteq Int /\ {FirstYear, LastYear} \subseteq BsYears
    /\ BsYears = FirstYear .. LastYear
    /\ MonthLengths \in [BsYears -> [Months -> 29 .. 32]]
    /\ FirstDay \in Int /\ LastDay \in Int

ConvertRequest == [op: {"to_ad"}, date: [year: Int, month: Int, day: Int]]
                  \cup [op: {"to_bs"}, day: Int]
RangeRequest   == [op: {"range"}, first: BsDate, last: BsDate]
YearRequest    == [op: {"months"}, year: BsYears] \cup [op: {"year"}]

VARIABLE today

CalendarInit == today = FirstDay

CalendarTypeOK == today \in FirstDay .. LastDay

Total(lengths) == FoldSeq(LAMBDA a, b : a + b, 0, lengths)

\* nepali_date(year, month, day): refuses a date that is not in the table
IsBsDate(d) == /\ d.year \in BsYears /\ d.month \in Months
               /\ d.day \in 1 .. MonthLengths[d.year][d.month]

\* the Gregorian day of the first of a year
NewYear[y \in BsYears \cup {LastYear + 1}] ==
    IF y = FirstYear THEN 0 ELSE NewYear[y - 1] + Total(MonthLengths[y - 1])

\* to_datetime_date
BsToAd(d) == NewYear[d.year] + Total(SubSeq(MonthLengths[d.year], 1, d.month - 1)) + d.day - 1

\* from_datetime_date: the last month that has begun on that day
AdToBs(n) ==
    LET y == CHOOSE z \in BsYears : NewYear[z] <= n /\ n < NewYear[z + 1]
        first(m) == BsToAd([year |-> y, month |-> m, day |-> 1])
        m == CHOOSE k \in Months : /\ first(k) <= n
                                   /\ n < first(k) + MonthLengths[y][k]
    IN  [year |-> y, month |-> m, day |-> n - first(m) + 1]

InTable(n) == 0 <= n /\ n < NewYear[LastYear + 1]

ASSUME ClockAssumption == FirstDay <= LastDay /\ \A n \in FirstDay .. LastDay : InTable(n)

\* mutant: the search begins at 31
LastDayOfFrom31(y, m) ==
    LET valid == {n \in 29 .. 31 : IsBsDate([year |-> y, month |-> m, day |-> n])}
    IN  IF valid = {} THEN 30 ELSE CHOOSE n \in valid : \A k \in valid : k <= n

\* the days of a month are found by trying 32, 31, 30 and 29
LastDayOf(y, m) ==
    LET valid == {n \in 29 .. 32 : IsBsDate([year |-> y, month |-> m, day |-> n])}
    IN  IF valid = {} THEN 30 ELSE CHOOSE n \in valid : \A k \in valid : k <= n

-----------------------------------------------------------------------------
(* Conversions: no clock. *)

ConvertToAd(s) == /\ At(s, "to_ad", "start")
                  /\ IF IsBsDate(cmd[s].date) THEN Goto(s, "answer", [ad |-> BsToAd(cmd[s].date)])
                                              ELSE Finish(s)
                  /\ UNCHANGED today

ConvertToBs(s) == /\ At(s, "to_bs", "start")
                  /\ IF InTable(cmd[s].day) THEN Goto(s, "answer", [bs |-> AdToBs(cmd[s].day)])
                                            ELSE Finish(s)
                  /\ UNCHANGED today

\* get_bs_date_range: from the first day to the last, one after the other
ListRange(s) ==
    /\ At(s, "range", "start")
    /\ LET c == cmd[s]
       IN  IF IsBsDate(c.first) /\ IsBsDate(c.last)
           THEN Goto(s, "answer", [dates |->
                  [i \in 1 .. BsToAd(c.last) - BsToAd(c.first) + 1 |->
                     AdToBs(BsToAd(c.first) + i - 1)]])
           ELSE Finish(s)
    /\ UNCHANGED today

ListMonths(s) == /\ At(s, "months", "start")
                 /\ Goto(s, "answer", [months |-> [m \in Months |-> LastDayOf(cmd[s].year, m)]])
                 /\ UNCHANGED today

-----------------------------------------------------------------------------
(* get_current_academic_year: the year of today, and a second look at the  *)
(* clock for is_current.                                                   *)

ReadYear(s) ==
    /\ At(s, "year", "start")
    /\ LET y == AdToBs(today).year
       IN  Goto(s, "write", [asked |-> today, year |-> y,
                             first |-> BsToAd([year |-> y, month |-> 1, day |-> 1]),
                             last |-> BsToAd([year |-> y, month |-> 12,
                                              day |-> LastDayOf(y, 12)])])
    /\ UNCHANGED today

\* is_current: looks at the clock again
ReadCurrent(s) ==
    /\ At(s, "year", "write")
    /\ Goto(s, "answer", [current |-> seen[s].first <= today /\ today <= seen[s].last,
                          year |-> seen[s]])
    /\ UNCHANGED today

AnswerDate(s) ==
    /\ \E op \in {"to_ad", "to_bs", "range", "months", "year"} : At(s, op, "answer")
    /\ Finish(s)
    /\ UNCHANGED today

CalendarNext(s) == \/ ConvertToAd(s) \/ ConvertToBs(s) \/ ListRange(s) \/ ListMonths(s)
                   \/ ReadYear(s) \/ ReadCurrent(s) \/ AnswerDate(s)

Midnight == today < LastDay /\ today' = today + 1

-----------------------------------------------------------------------------
(* Properties. *)

\* Each conversion undoes the other, and a date the table does not have is
\* refused, also the last day of a month that is longer in another year.
ConversionsInvert ==
    \A s \in Sessions :
        /\ At(s, "to_ad", "answer") => AdToBs(seen[s].ad) = cmd[s].date
        /\ At(s, "to_bs", "answer") => /\ IsBsDate(seen[s].bs)
                                       /\ BsToAd(seen[s].bs) = cmd[s].day

\* A range has no gap and no day twice, across the ends of months and years.
RangesConsecutive ==
    \A s \in Sessions : At(s, "range", "answer") =>
        \A i \in DOMAIN seen[s].dates \ {1} :
            BsToAd(seen[s].dates[i]) = BsToAd(seen[s].dates[i - 1]) + 1

\* The months found by trying add up to the year, and the academic year ends
\* on the day before the next begins; the answer has the day it was asked on,
\* and denies that the year is current only if it ended during the call.
YearsWhole ==
    \A s \in Sessions :
        /\ At(s, "months", "answer") =>
               Total(seen[s].months) = NewYear[cmd[s].year + 1] - NewYear[cmd[s].year]
        /\ At(s, "year", "answer") =>
               LET y == seen[s].year
               IN  /\ y.first <= y.asked /\ y.asked <= y.last
                   /\ y.last + 1 = NewYear[y.year + 1]
                   /\ ~seen[s].current => y.last < today

\* The answers about dates agree with each other.
CalendarAgrees == ConversionsInvert /\ RangesConsecutive /\ YearsWhole

-----------------------------------------------------------------------------
(* The inductive invariant.                                                *)

\* the academic year a call has found has the day it was asked on; d is a
\* later day, or the same
YearFoundOn(y, d) ==
    /\ y.asked \in Int /\ y.first \in Int /\ y.last \in Int
    /\ y.asked <= d /\ y.first <= y.asked /\ y.asked <= y.last
    /\ y.last + 1 = NewYear[y.year + 1]

YearFound(y) == YearFoundOn(y, today)

CalendarInv ==
    /\ CalendarTypeOK /\ CalendarAgrees
    /\ \A s \in Sessions : /\ At(s, "year", "write") => YearFound(seen[s])
                           /\ At(s, "year", "answer") => YearFound(seen[s].year)
=============================================================================
