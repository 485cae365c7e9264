-------------------------------- MODULE Dates --------------------------------
(***************************************************************************)
(* The calendar of the forecast: common/recurrence.py, date_span.py,        *)
(* date_window.py and schedule.py.  A date is counted in half months: 2 * m  *)
(* is the first day of month m, 2 * m + 1 any later day of it, so that a    *)
(* date knows its month, its year and whether it is a first of a month.     *)
(* Durations are whole months.                                              *)
(***************************************************************************)
EXTENDS Integers, Sequences, FiniteSets

NoDate == -1                       \* an open side of a window, a date that is not set

MonthOf(date)  == date \div 2
YearOf(date)   == date \div 24
FirstOf(month) == 2 * month
LastOf(month)  == 2 * month + 1
YearStart(y)   == 24 * y
YearEnd(y)     == 24 * y + 23

\* Duration.add_to, for a duration of whole months.
AddMonths(date, months) == date + 2 * months

\* DateWindow.covers.
Covers(window, date) == /\ window.start = NoDate \/ window.start <= date
                        /\ window.end = NoDate \/ date <= window.end

Always == [start |-> NoDate, end |-> NoDate]

\* DateSpan.month_index_of and DateSpan.months.
MonthIndexOf(span, date) == MonthOf(date) - MonthOf(span.start)
Months(span) == MonthIndexOf(span, span.end) + 1
InSpan(span, date) == span.start <= date /\ date <= span.end

\* DateSpan.midpoint: where an interval's flows and automatic sales are dated.
Midpoint(span) == (span.start + span.end) \div 2

\* The dates of a recurrence that starts on a date and repeats.
Occurrences(since, every, lo, hi) ==
    {date \in lo .. hi : date >= since /\ (date - since) % (2 * every) = 0}

\* Recurrence.count_in and OneTime.count_in.
CountIn(cadence, lo, hi, since) ==
    IF cadence.every = 0 THEN IF lo <= cadence.on /\ cadence.on <= hi THEN 1 ELSE 0
    ELSE Cardinality(Occurrences(AddMonths(since, cadence.offset), cadence.every, lo, hi))

\* Schedule.at: the first segment whose window covers the date, 0 for none.
SegmentAt(segments, date) ==
    LET covering == {k \in DOMAIN segments : Covers(segments[k].window, date)}
    IN  IF covering = {} THEN 0 ELSE CHOOSE k \in covering : \A m \in covering : k <= m

\* Duration.occurrences_per_year, as a fraction, for a duration of whole months.
OccurrencesPerYear(every) == [num |-> 12, den |-> every]

\* ForecastParameters.period_spans: each calendar year of the frame is sliced from its
\* own start, the last interval of a year clipped to the year or to the horizon.
SpansOf(start, end, every) ==
    LET from(y) == IF start > YearStart(y) THEN start ELSE YearStart(y)
        to(y)   == IF end < YearEnd(y) THEN end ELSE YearEnd(y)
        slice(y, k) ==
            LET cursor == AddMonths(from(y), k * every) IN
            [start |-> cursor,
             end   |-> IF cursor + 2 * every - 1 < to(y) THEN cursor + 2 * every - 1 ELSE to(y)]
        slices(y) == [k \in 1 .. ((to(y) - from(y) + 2 * every) \div (2 * every)) |-> slice(y, k - 1)]
        upTo[y \in YearOf(start) - 1 .. YearOf(end)] ==
            IF y < YearOf(start) THEN <<>> ELSE upTo[y - 1] \o slices(y)
    IN  upTo[YearOf(end)]
=============================================================================
