----------------------------- MODULE DeadLine -----------------------------
(***************************************************************************)
(* CClientParse: the dates of an account.  Register stores GetDefaultExp,  *)
(* the date one year later, in column EXP; BeyondDeadLine compares it with *)
(* the date of the day, both as numbers written YYYYMMDD.                  *)
(***************************************************************************)
EXTENDS Naturals

CONSTANTS FirstYear, LastYear  \* the years of the dates looked at

ASSUME DeadLineAssumption == FirstYear \in Nat \ {0} /\ LastYear \in Nat

(* GetSystemTime gives a date of the calendar; it is external.             *)
LeapDay(y) == IF (y % 4 = 0 /\ y % 100 # 0) \/ y % 400 = 0 THEN 1 ELSE 0

(* The days of year y before each of its months, and all of them.          *)
DaysBefore(y) ==
  LET l == LeapDay(y)
  IN  <<0, 31, 59 + l, 90 + l, 120 + l, 151 + l, 181 + l, 212 + l, 243 + l, 273 + l,
        304 + l, 334 + l, 365 + l>>

IsDate(date) ==
  /\ date.m \in 1 .. 12
  /\ date.d \in 1 .. DaysBefore(date.y)[date.m + 1] - DaysBefore(date.y)[date.m]

Dates == { date \in [y : FirstYear .. LastYear, m : 1 .. 12, d : 1 .. 31] :
             IsDate(date) }

(* sprintf "%d%02d%02d", then atoi.                                        *)
Number(date) == date.y * 10000 + date.m * 100 + date.d

(* The same month and day of the next year, even if it has no such day.    *)
GetDefaultExp(date) == [date EXCEPT !.y = @ + 1]

(* Mutant: the last day does not count. *)
BeyondOnLastDay(exp, today) == IF Number(exp) > Number(today) THEN "0" ELSE "1"

(* "1" when the account has run out, "0" when it has not.                  *)
Beyond(exp, today) == IF Number(exp) >= Number(today) THEN "0" ELSE "1"

-----------------------------------------------------------------------------
(* The days since some day long ago, counted by the calendar.              *)
LeapDaysBefore(y) == (y - 1) \div 4 - (y - 1) \div 100 + (y - 1) \div 400

DayNumber(date) ==
  365 * date.y + LeapDaysBefore(date.y) + DaysBefore(date.y)[date.m] + date.d

(* An account lasts a year: it is valid on the day of its registration and *)
(* for 365 days after it, and no longer than one day more, which a 29th of *)
(* February between the two makes.                                         *)
AccountLastsAYear ==
  \A date, today \in Dates :
    LET age == DayNumber(today) - DayNumber(date)
    IN  DayNumber(today) >= DayNumber(date) =>
          /\ age <= 365 => Beyond(GetDefaultExp(date), today) = "0"
          /\ age > 366 => Beyond(GetDefaultExp(date), today) = "1"
=============================================================================
