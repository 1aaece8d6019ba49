----------------------------- MODULE KmaClient -----------------------------
(***************************************************************************)
(* What the client of the weather agency asks for and what it gets         *)
(* (src/app/trips/services/kma_client.py).  A time is a number of minutes, *)
(* a date the number of its day.                                           *)
(***************************************************************************)
EXTENDS Integers, FiniteSets

Hour == 60
Date(at) == at \div (24 * Hour)

SHORT_BASE_HOURS == {2, 5, 8, 11, 14, 17, 20, 23}
SHORT_PUBLISH_DELAY == 15
MID_ISSUE_HOURS == {6, 18}

\* The issues of a day and of the day before it.
Issues(day, hours) == {d * 24 * Hour + h * Hour : d \in {day - 1, day}, h \in hours}

\* The two latest of them.
recent(candidates, limit) ==
    {c \in candidates : c <= limit /\ Cardinality({d \in candidates : c < d /\ d <= limit}) < 2}

short_base_candidates(current) ==
    LET reference == current - SHORT_PUBLISH_DELAY
    IN  recent(Issues(Date(reference), SHORT_BASE_HOURS), reference)

mid_issue_candidates(current) == recent(Issues(Date(current), MID_ISSUE_HOURS), current)
-----------------------------------------------------------------------------
(***************************************************************************)
(* What the agency publishes: hours up to 84 hours on, and dates from the  *)
(* fourth or fifth to the tenth, counted from the date of the issue.       *)
(***************************************************************************)
\* The hours of a date in the short-term forecast of a base time.
HoursOf(base, day) ==
    LET first == base \div Hour + 1 - 24 * day
    IN  (0..23) \cap (first..(first + 83))

\* Mutant: the last field of the forecast is left out.
DatesOfShort(issued) ==
    {Date(issued) + n : n \in (IF issued % (24 * Hour) = 6 * Hour THEN 4 ELSE 5)..9}

\* The dates of the mid-term forecast, whose fields are numbered from the issue.
DatesOf(issued) ==
    {Date(issued) + n : n \in (IF issued % (24 * Hour) = 6 * Hour THEN 4 ELSE 5)..10}
=============================================================================
