------------------------ MODULE AccountHistoryProofs ------------------------
(***************************************************************************)
(* What holds of accounts as the days go by, for any years, days and       *)
(* clients: an account lasts a year, although dates are compared as        *)
(* numbers and a year after 29 February is no date, and a password is      *)
(* replaced unseen only in the gap between the two queries.                *)
(***************************************************************************)
EXTENDS AccountHistory, ClientParseProofs, Integers

Years == Nat \ {0}

(* One more number divided by n: the quotient grows at the multiples of n. *)
LEMMA NextQuotient ==
  ASSUME NEW x \in Nat
  PROVE  /\ (x + 1) \div 4 = x \div 4 + IF (x + 1) % 4 = 0 THEN 1 ELSE 0
         /\ (x + 1) \div 100 = x \div 100 + IF (x + 1) % 100 = 0 THEN 1 ELSE 0
         /\ (x + 1) \div 400 = x \div 400 + IF (x + 1) % 400 = 0 THEN 1 ELSE 0
<1>1. (x + 1) \div 4 = x \div 4 + IF (x + 1) % 4 = 0 THEN 1 ELSE 0
  OBVIOUS
<1>2. (x + 1) \div 100 = x \div 100 + IF (x + 1) % 100 = 0 THEN 1 ELSE 0
  OBVIOUS
<1>3. (x + 1) \div 400 = x \div 400 + IF (x + 1) % 400 = 0 THEN 1 ELSE 0
  OBVIOUS
<1> QED
  BY <1>1, <1>2, <1>3

(* A year has 365 days, or 366, and never two in a row.                    *)
LEMMA YearLength ==
  ASSUME NEW y \in Years
  PROVE  /\ LeapDay(y) \in {0, 1}
         /\ LeapDay(y) = 1 => LeapDay(y + 1) = 0
         /\ LeapDaysBefore(y) \in Int
         /\ LeapDaysBefore(y + 1) = LeapDaysBefore(y) + LeapDay(y)
<1>1. LeapDay(y) \in {0, 1}
  BY DEF LeapDay
<1>2. LeapDay(y) = 1 => LeapDay(y + 1) = 0
  BY DEF LeapDay, Years
<1>3. /\ y % 100 = 0 => y % 4 = 0
      /\ y % 400 = 0 => y % 100 = 0
  BY DEF Years
<1>4. PICK x \in Nat : y = x + 1 /\ y - 1 = x /\ (y + 1) - 1 = x + 1
  BY DEF Years
<1>5. /\ y \div 4 = x \div 4 + IF y % 4 = 0 THEN 1 ELSE 0
      /\ y \div 100 = x \div 100 + IF y % 100 = 0 THEN 1 ELSE 0
      /\ y \div 400 = x \div 400 + IF y % 400 = 0 THEN 1 ELSE 0
  BY <1>4, NextQuotient
<1>6. LeapDaysBefore(y) = x \div 4 - x \div 100 + x \div 400
  BY <1>4 DEF LeapDaysBefore
<1>7. LeapDaysBefore(y + 1) = y \div 4 - y \div 100 + y \div 400
  BY <1>4 DEF LeapDaysBefore
<1>8. x \div 4 \in Int /\ x \div 100 \in Int /\ x \div 400 \in Int
  OBVIOUS
<1>9. y \div 4 - y \div 100 + y \div 400
        = (x \div 4 - x \div 100 + x \div 400) + LeapDay(y)
  <2>1. PICK a \in Int, b \in Int, c \in Int :
          a = x \div 4 /\ b = x \div 100 /\ c = x \div 400
    BY <1>8
  <2>3. /\ y \div 4 = a + IF y % 4 = 0 THEN 1 ELSE 0
        /\ y \div 100 = b + IF y % 100 = 0 THEN 1 ELSE 0
        /\ y \div 400 = c + IF y % 400 = 0 THEN 1 ELSE 0
    BY <1>5, <2>1
  <2>4. CASE y % 4 # 0
    <3>1. y \div 4 = a /\ y \div 100 = b /\ y \div 400 = c /\ LeapDay(y) = 0
      BY <1>3, <2>3, <2>4 DEF LeapDay
    <3> QED
      BY <2>1, <3>1
  <2>5. CASE y % 4 = 0 /\ y % 100 # 0
    <3>1. y \div 4 = a + 1 /\ y \div 100 = b /\ y \div 400 = c /\ LeapDay(y) = 1
      BY <1>3, <2>3, <2>5 DEF LeapDay
    <3> QED
      BY <2>1, <3>1
  <2>6. CASE y % 100 = 0 /\ y % 400 # 0
    <3>1. y \div 4 = a + 1 /\ y \div 100 = b + 1 /\ y \div 400 = c /\ LeapDay(y) = 0
      BY <1>3, <2>3, <2>6 DEF LeapDay
    <3> QED
      BY <2>1, <3>1
  <2>7. CASE y % 400 = 0
    <3>1. y \div 4 = a + 1 /\ y \div 100 = b + 1 /\ y \div 400 = c + 1 /\ LeapDay(y) = 1
      BY <1>3, <2>3, <2>7 DEF LeapDay
    <3> QED
      BY <2>1, <3>1
  <2> QED
    BY <1>3, <2>4, <2>5, <2>6, <2>7
<1> QED
  BY <1>1, <1>2, <1>6, <1>7, <1>8, <1>9

(* The days before a month, one by one.                                    *)
LEMMA MonthStarts ==
  ASSUME NEW y \in Years, NEW l, l = LeapDay(y), NEW s, s = DaysBefore(y)
  PROVE  /\ s[1] = 0 /\ s[2] = 31 /\ s[3] = 59 + l /\ s[4] = 90 + l /\ s[5] = 120 + l
         /\ s[6] = 151 + l /\ s[7] = 181 + l /\ s[8] = 212 + l /\ s[9] = 243 + l
         /\ s[10] = 273 + l /\ s[11] = 304 + l /\ s[12] = 334 + l /\ s[13] = 365 + l
BY DEF DaysBefore

(* Months follow one another, and start as late as in another year, or a   *)
(* day apart.                                                              *)
LEMMA MonthOrder ==
  ASSUME NEW y \in Years, NEW m \in 1 .. 12, NEW n \in 1 .. 12
  PROVE  /\ DaysBefore(y)[m] \in Nat /\ DaysBefore(y)[m + 1] \in Nat
         /\ DaysBefore(y)[m + 1] <= 365 + LeapDay(y)
         /\ m < n => DaysBefore(y)[m + 1] <= DaysBefore(y)[n]
<1>1. PICK l \in {0, 1} : l = LeapDay(y)
  BY YearLength
<1>2. PICK s : s = DaysBefore(y)
  OBVIOUS
<1>3. /\ s[1] = 0 /\ s[2] = 31 /\ s[3] = 59 + l /\ s[4] = 90 + l /\ s[5] = 120 + l
      /\ s[6] = 151 + l /\ s[7] = 181 + l /\ s[8] = 212 + l /\ s[9] = 243 + l
      /\ s[10] = 273 + l /\ s[11] = 304 + l /\ s[12] = 334 + l /\ s[13] = 365 + l
  BY <1>1, <1>2, MonthStarts
<1> QED
  BY <1>1, <1>2, <1>3

LEMMA OtherYear ==
  ASSUME NEW y \in Years, NEW z \in Years, NEW m \in 1 .. 13
  PROVE  DaysBefore(z)[m] = DaysBefore(y)[m] + IF m > 2 THEN LeapDay(z) - LeapDay(y) ELSE 0
<1>1. LeapDay(y) \in {0, 1} /\ LeapDay(z) \in {0, 1}
  BY YearLength
<1>2. PICK s, t : s = DaysBefore(y) /\ t = DaysBefore(z)
  OBVIOUS
<1>3. PICK l \in {0, 1}, k \in {0, 1} : l = LeapDay(y) /\ k = LeapDay(z)
  BY <1>1
<1>4. /\ s[1] = 0 /\ s[2] = 31 /\ s[3] = 59 + l /\ s[4] = 90 + l /\ s[5] = 120 + l
      /\ s[6] = 151 + l /\ s[7] = 181 + l /\ s[8] = 212 + l /\ s[9] = 243 + l
      /\ s[10] = 273 + l /\ s[11] = 304 + l /\ s[12] = 334 + l /\ s[13] = 365 + l
  BY <1>2, <1>3, MonthStarts
<1>5. /\ t[1] = 0 /\ t[2] = 31 /\ t[3] = 59 + k /\ t[4] = 90 + k /\ t[5] = 120 + k
      /\ t[6] = 151 + k /\ t[7] = 181 + k /\ t[8] = 212 + k /\ t[9] = 243 + k
      /\ t[10] = 273 + k /\ t[11] = 304 + k /\ t[12] = 334 + k /\ t[13] = 365 + k
  BY <1>2, <1>3, MonthStarts
<1> QED
  BY <1>2, <1>3, <1>4, <1>5

(* The days before a year.                                                 *)
DaysBeforeYear(y) == 365 * y + LeapDaysBefore(y)

LEMMA YearOrder ==
  ASSUME NEW y \in Years, NEW z \in Years, y <= z
  PROVE  DaysBeforeYear(y) <= DaysBeforeYear(z)
<1>1. PICK a \in Nat, b \in Nat : a = y - 1 /\ b = z - 1 /\ a <= b
  BY DEF Years
<1>2. a \div 4 \in Nat /\ b \div 4 \in Nat /\ a \div 4 <= b \div 4
  BY <1>1
<1>3. (a \div 100) \in Nat /\ (b \div 100) \in Nat /\ b \div 100 - a \div 100 <= b - a
  BY <1>1
<1>4. (a \div 400) \in Nat /\ (b \div 400) \in Nat /\ a \div 400 <= b \div 400
  BY <1>1
<1>5. /\ DaysBeforeYear(y) = 365 * a + 365 + (a \div 4 - a \div 100 + a \div 400)
      /\ DaysBeforeYear(z) = 365 * b + 365 + (b \div 4 - b \div 100 + b \div 400)
  BY <1>1 DEF DaysBeforeYear, LeapDaysBefore, Years
<1> QED
  BY <1>1, <1>2, <1>3, <1>4, <1>5

-----------------------------------------------------------------------------
(* What the number of a date is made of.                                   *)
LEMMA DateParts ==
  ASSUME NEW date \in Dates
  PROVE  /\ date.y \in Years /\ date.m \in 1 .. 12 /\ date.d \in 1 .. 31
         /\ DaysBefore(date.y)[date.m] + date.d <= DaysBefore(date.y)[date.m + 1]
         /\ DayNumber(date) =
              DaysBeforeYear(date.y) + DaysBefore(date.y)[date.m] + date.d
         /\ DayNumber(date) \in Int /\ DaysBeforeYear(date.y) \in Int
<1>1. date.y \in Years /\ date.m \in 1 .. 12 /\ date.d \in 1 .. 31
  BY DeadLineAssumption DEF Dates, Years
<1>2. /\ DaysBefore(date.y)[date.m] \in Nat /\ DaysBefore(date.y)[date.m + 1] \in Nat
      /\ LeapDaysBefore(date.y) \in Int
  BY <1>1, MonthOrder, YearLength
<1>3. DaysBefore(date.y)[date.m] + date.d <= DaysBefore(date.y)[date.m + 1]
  BY <1>1, <1>2 DEF Dates, IsDate
<1> QED
  BY <1>1, <1>2, <1>3 DEF DayNumber, DaysBeforeYear, Years

(* A date lies within its year.                                            *)
LEMMA WithinYear ==
  ASSUME NEW date \in Dates
  PROVE  /\ DayNumber(date) > DaysBeforeYear(date.y)
         /\ DayNumber(date) <= DaysBeforeYear(date.y + 1)
         /\ DaysBeforeYear(date.y + 1) = DaysBeforeYear(date.y) + 365 + LeapDay(date.y)
<1>1. /\ date.y \in Years /\ date.m \in 1 .. 12 /\ date.d \in 1 .. 31
      /\ DaysBefore(date.y)[date.m] + date.d <= DaysBefore(date.y)[date.m + 1]
      /\ DayNumber(date) = DaysBeforeYear(date.y) + DaysBefore(date.y)[date.m] + date.d
      /\ DaysBeforeYear(date.y) \in Int
  BY DateParts
<1>2. /\ DaysBefore(date.y)[date.m] \in Nat /\ DaysBefore(date.y)[date.m + 1] \in Nat
      /\ DaysBefore(date.y)[date.m + 1] <= 365 + LeapDay(date.y)
  BY <1>1, MonthOrder
<1>3. LeapDay(date.y) \in {0, 1}
  BY <1>1, YearLength
<1>4. DaysBeforeYear(date.y + 1) = DaysBeforeYear(date.y) + 365 + LeapDay(date.y)
  BY <1>1, YearLength DEF DaysBeforeYear, Years
<1> QED
  BY <1>1, <1>2, <1>3, <1>4

(* Comparing the numbers of dates is comparing year, month and day.        *)
After(date, y, m, d) ==
  \/ date.y > y
  \/ date.y = y /\ date.m > m
  \/ date.y = y /\ date.m = m /\ date.d > d

LEMMA NumbersCompareDates ==
  ASSUME NEW date \in Dates, NEW day \in Dates
  PROVE  Beyond(GetDefaultExp(date), day) =
           IF After(day, date.y + 1, date.m, date.d) THEN "1" ELSE "0"
<1>1. /\ date.y \in Nat /\ date.m \in 1 .. 12 /\ date.d \in 1 .. 31
      /\ day.y \in Nat /\ day.m \in 1 .. 12 /\ day.d \in 1 .. 31
  BY DateParts DEF Years
<1>2. GetDefaultExp(date) = [y |-> date.y + 1, m |-> date.m, d |-> date.d]
  BY DEF GetDefaultExp, Dates
<1>3. Number(GetDefaultExp(date)) = (date.y + 1) * 10000 + date.m * 100 + date.d
  BY <1>2 DEF Number
<1>4. PICK y \in Nat, m \in 1 .. 12, d \in 1 .. 31 :
        y = date.y + 1 /\ m = date.m /\ d = date.d
  BY <1>1
<1>5. PICK z \in Nat, n \in 1 .. 12, e \in 1 .. 31 :
        z = day.y /\ n = day.m /\ e = day.d
  BY <1>1
<1>6. PICK a \in Nat, b \in Nat :
        a = y * 10000 + m * 100 + d /\ b = z * 10000 + n * 100 + e
  OBVIOUS
<1>7. Number(GetDefaultExp(date)) = a /\ Number(day) = b
  BY <1>3, <1>4, <1>5, <1>6 DEF Number
<1>8. b > a <=> z > y \/ (z = y /\ n > m) \/ (z = y /\ n = m /\ e > d)
  <2>1. CASE z = y
    BY <1>6, <2>1
  <2>2. CASE z > y
    BY <1>6, <2>2
  <2>3. CASE z < y
    BY <1>6, <2>3
  <2> QED
    BY <2>1, <2>2, <2>3
<1>9. b > a <=> After(day, date.y + 1, date.m, date.d)
  BY <1>4, <1>5, <1>8 DEF After
<1>10. a >= b <=> ~(b > a)
  OBVIOUS
<1> QED
  BY <1>7, <1>9, <1>10 DEF Beyond

(* After the same day of the next year, which 29 February may lack, an     *)
(* account is more than 365 days old.                                      *)
LEMMA OldAfterAYear ==
  ASSUME NEW date \in Dates, NEW day \in Dates, After(day, date.y + 1, date.m, date.d)
  PROVE  DayNumber(day) - DayNumber(date) > 365
<1> DEFINE y == date.y
           z == day.y
<1>1. /\ y \in Years /\ date.m \in 1 .. 12 /\ date.d \in 1 .. 31
      /\ z \in Years /\ day.m \in 1 .. 12 /\ day.d \in 1 .. 31
      /\ y + 1 \in Years /\ y + 2 \in Years
  BY DateParts DEF Years
<1>2. DayNumber(date) \in Int /\ DayNumber(day) \in Int
  BY DateParts
<1>3. LeapDay(y) \in {0, 1} /\ LeapDay(y + 1) \in {0, 1}
  BY <1>1, YearLength
<1>4. CASE z >= y + 2
  <2>1. DaysBeforeYear(y + 2) = DaysBeforeYear(y + 1) + 365 + LeapDay(y + 1)
    BY <1>1, YearLength DEF DaysBeforeYear, Years
  <2>2. DaysBeforeYear(y + 2) <= DaysBeforeYear(z)
    BY <1>1, <1>4, YearOrder
  <2>3. DayNumber(day) > DaysBeforeYear(z) /\ DayNumber(date) <= DaysBeforeYear(y + 1)
    BY WithinYear
  <2>4. /\ DaysBeforeYear(y + 1) \in Int /\ DaysBeforeYear(z) \in Int
        /\ DaysBeforeYear(y + 2) \in Int
    BY <1>1, YearLength DEF DaysBeforeYear, Years
  <2> QED
    BY <1>2, <1>3, <2>1, <2>2, <2>3, <2>4
<1>5. CASE z = y + 1
  <2> DEFINE r(m) == DaysBefore(y)[m]
             t(m) == DaysBefore(y + 1)[m]
  <2>1. DaysBeforeYear(y + 1) = DaysBeforeYear(y) + 365 + LeapDay(y)
    BY WithinYear
  <2>2. /\ DayNumber(date) = DaysBeforeYear(y) + r(date.m) + date.d
        /\ DayNumber(day) = DaysBeforeYear(y + 1) + t(day.m) + day.d
        /\ r(date.m) + date.d <= r(date.m + 1)
        /\ DaysBeforeYear(y) \in Int
    BY <1>5, DateParts
  <2>3. /\ t(date.m) = r(date.m) + IF date.m > 2 THEN LeapDay(y + 1) - LeapDay(y) ELSE 0
        /\ t(date.m + 1) =
             r(date.m + 1) + IF date.m + 1 > 2 THEN LeapDay(y + 1) - LeapDay(y) ELSE 0
    BY <1>1, OtherYear
  <2>4. /\ r(date.m) \in Nat /\ r(date.m + 1) \in Nat /\ t(day.m) \in Nat
        /\ t(date.m) \in Nat /\ t(date.m + 1) \in Nat
        /\ date.m < day.m => t(date.m + 1) <= t(day.m)
    BY <1>1, MonthOrder
  <2>5. CASE day.m = date.m /\ day.d > date.d
    BY <1>1, <1>3, <2>1, <2>2, <2>3, <2>4, <2>5
  <2>6. CASE day.m > date.m
    <3>1. t(date.m + 1) <= t(day.m)
      BY <2>4, <2>6
    <3>2. PICK v \in Int : /\ t(date.m + 1) = r(date.m + 1) + v
                          /\ LeapDay(y) + v \in {0, 1}
      BY <1>3, <2>3
    <3>3. PICK a \in Nat, b \in Nat, c \in Nat, f \in Nat :
            a = r(date.m) /\ b = r(date.m + 1) /\ c = t(day.m) /\ f = t(date.m + 1)
      BY <2>4
    <3>4. PICK g \in Int, k \in {0, 1}, d \in 1 .. 31, e \in 1 .. 31 :
            g = DaysBeforeYear(y) /\ k = LeapDay(y) /\ d = date.d /\ e = day.d
      BY <1>1, <1>3, <2>2
    <3>5. f <= c /\ f = b + v /\ k + v >= 0 /\ a + d <= b
      BY <2>2, <3>1, <3>2, <3>3, <3>4
    <3>6. DayNumber(date) = g + a + d /\ DayNumber(day) = g + 365 + k + c + e
      BY <2>1, <2>2, <3>3, <3>4
    <3>7. (g + 365 + k + c + e) - (g + a + d) > 365
      BY <3>5
    <3> QED
      BY <3>6, <3>7
  <2> QED
    BY <1>1, <1>5, <2>5, <2>6 DEF After, Years
<1> QED
  BY <1>1, <1>4, <1>5 DEF After, Years

(* And until then at most 366.                                             *)
LEMMA YoungWithinAYear ==
  ASSUME NEW date \in Dates, NEW day \in Dates, ~After(day, date.y + 1, date.m, date.d)
  PROVE  DayNumber(day) - DayNumber(date) <= 366
<1> DEFINE y == date.y
           z == day.y
<1>1. /\ y \in Years /\ date.m \in 1 .. 12 /\ date.d \in 1 .. 31
      /\ z \in Years /\ day.m \in 1 .. 12 /\ day.d \in 1 .. 31
      /\ y + 1 \in Years /\ z + 1 \in Years
  BY DateParts DEF Years
<1>2. DayNumber(date) \in Int /\ DayNumber(day) \in Int
  BY DateParts
<1>3. LeapDay(y) \in {0, 1} /\ LeapDay(y + 1) \in {0, 1}
  BY <1>1, YearLength
<1>4. CASE z <= y
  <2>1. /\ DayNumber(day) <= DaysBeforeYear(z + 1)
        /\ DayNumber(date) > DaysBeforeYear(y)
        /\ DaysBeforeYear(y + 1) = DaysBeforeYear(y) + 365 + LeapDay(y)
    BY WithinYear
  <2>2. DaysBeforeYear(z + 1) <= DaysBeforeYear(y + 1)
    BY <1>1, <1>4, YearOrder DEF Years
  <2>3. DaysBeforeYear(y) \in Int /\ DaysBeforeYear(z + 1) \in Int
    BY <1>1, YearLength DEF DaysBeforeYear, Years
  <2> QED
    BY <1>2, <1>3, <2>1, <2>2, <2>3
<1>5. CASE z = y + 1
  <2> DEFINE r(m) == DaysBefore(y)[m]
             t(m) == DaysBefore(y + 1)[m]
  <2>1. DaysBeforeYear(y + 1) = DaysBeforeYear(y) + 365 + LeapDay(y)
    BY WithinYear
  <2>2. /\ DayNumber(date) = DaysBeforeYear(y) + r(date.m) + date.d
        /\ DayNumber(day) = DaysBeforeYear(y + 1) + t(day.m) + day.d
        /\ t(day.m) + day.d <= t(day.m + 1)
        /\ DaysBeforeYear(y) \in Int
    BY <1>5, DateParts
  <2>3. t(date.m) = r(date.m) + IF date.m > 2 THEN LeapDay(y + 1) - LeapDay(y) ELSE 0
    BY <1>1, OtherYear
  <2>4. /\ r(date.m) \in Nat /\ t(date.m) \in Nat
        /\ t(day.m) \in Nat /\ t(day.m + 1) \in Nat
        /\ day.m < date.m => t(day.m + 1) <= t(date.m)
    BY <1>1, MonthOrder
  <2>5. CASE day.m = date.m /\ day.d <= date.d
    BY <1>1, <1>3, <2>1, <2>2, <2>3, <2>4, <2>5
  <2>6. CASE day.m < date.m
    BY <1>1, <1>3, <2>1, <2>2, <2>3, <2>4, <2>6
  <2> QED
    BY <1>1, <1>5, <2>5, <2>6 DEF After, Years
<1> QED
  BY <1>1, <1>4, <1>5 DEF After, Years

-----------------------------------------------------------------------------
(* The calendar: the number of a day is one more than that of the day      *)
(* before it, so that differences of numbers count days.                   *)
NextDay(date) ==
  IF IsDate([date EXCEPT !.d = @ + 1]) THEN [date EXCEPT !.d = @ + 1]
  ELSE IF date.m < 12 THEN [y |-> date.y, m |-> date.m + 1, d |-> 1]
  ELSE [y |-> date.y + 1, m |-> 1, d |-> 1]

LEMMA DaysAreCounted ==
  ASSUME NEW date \in Dates
  PROVE  DayNumber(NextDay(date)) = DayNumber(date) + 1
<1>1. PICK y \in Years, m \in 1 .. 12, d \in 1 .. 31 : date = [y |-> y, m |-> m, d |-> d]
  BY DateParts DEF Dates
<1>2. PICK s : s = DaysBefore(y)
  OBVIOUS
<1>3. /\ s[m] \in Nat /\ s[m + 1] \in Nat /\ s[m] + d <= s[m + 1]
      /\ LeapDaysBefore(y) \in Int /\ LeapDay(y) \in {0, 1}
      /\ DayNumber(date) = 365 * y + LeapDaysBefore(y) + s[m] + d
  BY <1>1, <1>2, DateParts, MonthOrder, YearLength DEF DayNumber
<1>4. CASE s[m] + d < s[m + 1]
  <2>1. NextDay(date) = [y |-> y, m |-> m, d |-> d + 1]
    BY <1>1, <1>2, <1>3, <1>4 DEF NextDay, IsDate
  <2> QED
    BY <1>2, <1>3, <2>1 DEF DayNumber, Years
<1>5. CASE s[m] + d = s[m + 1]
  <2>1. ~IsDate([y |-> y, m |-> m, d |-> d + 1])
    BY <1>2, <1>3, <1>5 DEF IsDate
  <2>2. CASE m < 12
    <3>1. NextDay(date) = [y |-> y, m |-> m + 1, d |-> 1]
      BY <1>1, <2>1, <2>2 DEF NextDay
    <3> QED
      BY <1>2, <1>3, <1>5, <3>1 DEF DayNumber, Years
  <2>3. CASE m = 12
    <3>1. NextDay(date) = [y |-> y + 1, m |-> 1, d |-> 1]
      BY <1>1, <2>1, <2>3 DEF NextDay
    <3>2. DaysBefore(y + 1)[1] = 0 /\ s[13] = 365 + LeapDay(y)
      BY <1>2, MonthStarts DEF Years
    <3>3. LeapDaysBefore(y + 1) = LeapDaysBefore(y) + LeapDay(y)
      BY YearLength
    <3>4. DayNumber(NextDay(date)) = 365 * (y + 1) + LeapDaysBefore(y + 1) + 0 + 1
      BY <3>1, <3>2 DEF DayNumber
    <3> QED
      BY <1>3, <1>5, <2>3, <3>2, <3>3, <3>4 DEF Years
  <2> QED
    BY <2>2, <2>3
<1> QED
  BY <1>3, <1>4, <1>5

(* GetDefaultExp and BeyondDeadLine keep an account valid for a year, as   *)
(* the calendar counts the days, in any years.                             *)
THEOREM YearCorrect == AccountLastsAYear
<1> SUFFICES ASSUME NEW date \in Dates, NEW day \in Dates
             PROVE  /\ DayNumber(day) - DayNumber(date) <= 365 =>
                         Beyond(GetDefaultExp(date), day) = "0"
                    /\ DayNumber(day) - DayNumber(date) > 366 =>
                         Beyond(GetDefaultExp(date), day) = "1"
  BY DEF AccountLastsAYear
<1>1. DayNumber(day) - DayNumber(date) \in Int
  BY DateParts
<1>2. CASE After(day, date.y + 1, date.m, date.d)
  BY <1>1, <1>2, NumbersCompareDates, OldAfterAYear
<1>3. CASE ~After(day, date.y + 1, date.m, date.d)
  BY <1>1, <1>3, NumbersCompareDates, YoungWithinAYear
<1> QED
  BY <1>2, <1>3

-----------------------------------------------------------------------------
(* The rows of table user are as old as their EXP says, and none is from a *)
(* day to come.                                                            *)
BornInv ==
  /\ today \in Days
  /\ \A i \in Ids :
       user[i] # NULL =>
         /\ born[i] \in Days
         /\ exp[i] = GetDefaultExp(born[i])
         /\ DayNumber(born[i]) <= DayNumber(today)

LEMMA InitBorn == HistoryInit => BornInv
<1> QED
  BY DEF HistoryInit, BornInv

LEMMA DayNumberType == ASSUME NEW day \in Days PROVE DayNumber(day) \in Int
<1> QED
  BY DateParts, AccountHistoryAssumption

LEMMA TickBorn ==
  ASSUME BornInv, Tick
  PROVE  BornInv'
<1>1. UNCHANGED <<user, exp, born>>
  BY DEF Tick, vars, db, accounts
<1>2. today' \in Days /\ DayNumber(today') > DayNumber(today)
  BY DEF Tick
<1>3. PICK day \in Days : day = today' /\ DayNumber(day) > DayNumber(today)
  BY <1>2
<1>4. ASSUME NEW i \in Ids, user[i] # NULL
      PROVE  /\ born[i] \in Days
             /\ exp[i] = GetDefaultExp(born[i])
             /\ DayNumber(born[i]) <= DayNumber(day)
  <2>1. /\ born[i] \in Days
        /\ exp[i] = GetDefaultExp(born[i])
        /\ DayNumber(born[i]) <= DayNumber(today)
    BY <1>4 DEF BornInv
  <2>2. DayNumber(born[i]) \in Int /\ DayNumber(today) \in Int /\ DayNumber(day) \in Int
    BY <2>1, DayNumberType DEF BornInv
  <2> QED
    BY <1>3, <2>1, <2>2
<1> QED
  BY <1>1, <1>2, <1>3, <1>4 DEF BornInv

LEMMA StepBorn ==
  ASSUME BornInv, NEW c \in Clients, Step(c)
  PROVE  BornInv'
<1>1. today' = today /\ today \in Days /\ DayNumber(today) \in Int
  BY DayNumberType DEF Step, BornInv
<1>2. ASSUME NEW i \in Ids, user'[i] # NULL
      PROVE  /\ born'[i] \in Days
             /\ exp'[i] = GetDefaultExp(born'[i])
             /\ DayNumber(born'[i]) <= DayNumber(today)
  <2>1. CASE user[i] = NULL
    <3>1. i \in Inserted
      BY <1>2, <2>1 DEF Inserted
    <3>2. born'[i] = today /\ exp'[i] = GetDefaultExp(today)
      BY <3>1 DEF Step, Enter
    <3> QED
      BY <1>1, <3>2
  <2>2. CASE user[i] # NULL
    <3>1. i \notin Inserted
      BY <2>2 DEF Inserted
    <3>2. born'[i] = born[i] /\ exp'[i] = exp[i]
      BY <3>1 DEF Step, Enter
    <3> QED
      BY <2>2, <3>2 DEF BornInv
  <2> QED
    BY <2>1, <2>2
<1>3. UNCHANGED today
  BY DEF Step
<1> QED
  BY <1>1, <1>2, <1>3 DEF BornInv

LEMMA BornStep == BornInv /\ [HistoryNext]_history => BornInv'
<1>1. BornInv /\ UNCHANGED history => BornInv'
  BY DEF BornInv, history, vars, db, accounts
<1> QED
  BY <1>1, TickBorn, StepBorn DEF HistoryNext

(* A fetched row answers as an account of its age is to be answered.       *)
LEMMA Judgement ==
  ASSUME BornInv, NEW i \in Ids, user[i] # NULL, NEW result,
         result = Beyond(exp[i], today)
  PROVE  /\ Age(i) <= 365 => result = "0"
         /\ Age(i) > 366 => result = "1"
<1>1. /\ born[i] \in Dates /\ today \in Dates
      /\ exp[i] = GetDefaultExp(born[i])
      /\ DayNumber(today) >= DayNumber(born[i])
  <2>1. /\ born[i] \in Days /\ today \in Days
        /\ exp[i] = GetDefaultExp(born[i])
        /\ DayNumber(born[i]) <= DayNumber(today)
    BY DEF BornInv
  <2>2. DayNumber(born[i]) \in Int /\ DayNumber(today) \in Int
    BY <2>1, DayNumberType
  <2> QED
    BY <2>1, <2>2, AccountHistoryAssumption
<1>2. result = Beyond(GetDefaultExp(born[i]), today)
  BY <1>1
<1> QED
  BY <1>1, <1>2, YearCorrect DEF AccountLastsAYear, Age

(* A step here is a step of the clients, or none.                          *)
LEMMA HistoryInvariance == HistorySpec => []IInv
<1>1. HistoryInit => IInv
  BY InitIInv DEF HistoryInit
<1>2. [HistoryNext]_history => [Next]_vars
  BY DEF HistoryNext, Tick, Step, Next, history
<1> QED
  BY <1>1, <1>2, StepIInv, PTL DEF HistorySpec

(* BeyondDeadLine finds an account valid for a year after its day of       *)
(* registration, whatever the clients do and on whichever days.            *)
THEOREM DeadLineCorrect == HistorySpec => DeadLineIsAYear
<1> DEFINE Told ==
      \A c \in Clients :
        Judges(c) =>
          \E i \in Named(m_userName[c]) :
            /\ Age(i) <= 365 => m_strResult'[c] = "0"
            /\ Age(i) > 366 => m_strResult'[c] = "1"
<1>1. IInv /\ BornInv /\ [HistoryNext]_history => [Told]_history
  <2> SUFFICES ASSUME IInv, BornInv, HistoryNext, NEW c \in Clients, Judges(c)
               PROVE  \E i \in Named(m_userName[c]) :
                        /\ Age(i) <= 365 => m_strResult'[c] = "0"
                        /\ Age(i) > 366 => m_strResult'[c] = "1"
    OBVIOUS
  <2>1. pc[c] = "query" /\ pc'[c] = "recycle"
    BY DEF Judges, At
  <2>2. ~Tick
    BY <2>1 DEF Tick, vars
  <2>3. PICK d \in Clients : Step(d)
    BY <2>2 DEF HistoryNext
  <2>4. (Run(d) \/ Handle(d)) /\ Judge(d)
    BY <2>3 DEF Step
  <2>5. d = c
    BY <2>1, <2>4, OtherClients DEF IInv
  <2>6. PICK i \in Named(m_userName[c]) : m_strResult'[c] = Beyond(exp[i], today)
    BY <2>4, <2>5 DEF Judge
  <2>7. i \in Ids /\ user[i] # NULL
    BY <2>6 DEF Named
  <2>8. /\ Age(i) <= 365 => m_strResult'[c] = "0"
        /\ Age(i) > 366 => m_strResult'[c] = "1"
    BY <2>6, <2>7, Judgement
  <2> QED
    BY <2>6, <2>8
<1> QED
  BY <1>1, InitBorn, BornStep, HistoryInvariance, PTL DEF HistorySpec, DeadLineIsAYear

-----------------------------------------------------------------------------
(* A client that is about to change a password has named the one that its  *)
(* user, the only one of that name, has at this moment, or has had until   *)
(* another client replaced it.                                             *)
ChangeAt(c) ==
  pc[c] = "change" =>
    /\ req[c].type = "reset"
    /\ overtaken[c] \/ \E i \in Named(req[c].userName) : user[i].pass = req[c].passWord

OneRowPerName ==
  \A i, j \in Ids :
    user[i] # NULL /\ user[j] # NULL /\ user[i].name = user[j].name => i = j

ChangeInv == OneRowPerName /\ \A c \in Clients : ChangeAt(c)

(* Only the comparison leads to the change.                                *)
LEMMA WhoChanges ==
  ASSUME TypeOK, NEW c \in Clients, Run(c) \/ Handle(c), pc'[c] = "change"
  PROVE  ResetSelectPassword(c)
<1> USE DEF TypeOK, goto, Continue, Finish, Answer
<1>1. ~Run(c)
  BY DEF Run
<1>2. ~(GetFree(c) \/ ReturnEarly(c) \/ Recycle(c) \/ GetReturnValue(c))
  BY DEF GetFree, ReturnEarly, Recycle, GetReturnValue
<1>3. ~(LoginSelectName(c) \/ LoginSelectPassword(c) \/ RemoveLoginState(c)
        \/ UpdateLoginState(c))
  BY DEF LoginSelectName, LoginSelectPassword, RemoveLoginState, UpdateLoginState
<1>4. ~(RegisterSelectName(c) \/ RegisterSelectSaler(c) \/ RegisterInsert(c)
        \/ RegisterInsertBlocks(c))
  BY DEF RegisterSelectName, RegisterSelectSaler, RegisterInsert, RegisterInsertBlocks
<1>5. ~(ResetUpdate(c) \/ GetUserLevel(c) \/ BeyondDeadLine(c) \/ GetFunctionPermission(c))
  BY DEF ResetUpdate, GetUserLevel, BeyondDeadLine, GetFunctionPermission
<1> QED
  BY <1>1, <1>2, <1>3, <1>4, <1>5 DEF Handle

LEMMA InsertRows ==
  ASSUME TypeOK, OneRowPerName, UniqueName, NEW c \in Clients, RegisterInsert(c)
  PROVE  OneRowPerName'
<1>1. CASE UNCHANGED user
  BY <1>1 DEF OneRowPerName
<1>2. CASE ~UNCHANGED user
  <2>1. Named(req[c].userName) = {}
    BY <1>2 DEF RegisterInsert
  <2>2. PICK i \in Ids : /\ user[i] = NULL
                        /\ user' = [user EXCEPT ![i] = [name |-> req[c].userName,
                                                        pass |-> req[c].passWord]]
    BY <1>2 DEF RegisterInsert
  <2>3. user'[i].name = req[c].userName /\ \A j \in Ids \ {i} : user'[j] = user[j]
    BY <2>2 DEF TypeOK
  <2> QED
    BY <2>1, <2>2, <2>3 DEF OneRowPerName, Named
<1> QED
  BY <1>1, <1>2

LEMMA RowsStep ==
  ASSUME NamesAreUnique, IInv, OneRowPerName, NEW c \in Clients, Run(c) \/ Handle(c)
  PROVE  OneRowPerName'
<1>1. CASE UNCHANGED user
  BY <1>1 DEF OneRowPerName
<1>2. CASE RegisterInsert(c)
  BY <1>2, InsertRows DEF IInv, NamesAreUnique
<1>3. CASE ResetUpdate(c)
  BY <1>3, ChangedRows DEF IInv, InPlace, OneRowPerName
<1> QED
  BY <1>1, <1>2, <1>3, UserWriters

LEMMA ChangeStep ==
  ASSUME IInv, ChangeInv, NEW c \in Clients, Step(c), NEW d \in Clients
  PROVE  ChangeAt(d)'
<1>1. (Run(c) \/ Handle(c)) /\ Overtake(c)
  BY DEF Step
<1> SUFFICES ASSUME pc'[d] = "change"
             PROVE  /\ req'[d].type = "reset"
                    /\ \/ overtaken'[d]
                       \/ \E i \in Named(req[d].userName)' : user'[i].pass = req'[d].passWord
  BY DEF ChangeAt
<1>2. CASE d = c
  <2>1. ResetSelectPassword(c)
    BY <1>1, <1>2, WhoChanges DEF IInv
  <2>2. PICK i \in Named(req[c].userName) : user[i].pass = req[c].passWord
    BY <1>2, <2>1 DEF ResetSelectPassword, Finish, goto, IInv, TypeOK
  <2>3. UNCHANGED <<user, req>> /\ req[c].type = "reset"
    BY <2>1 DEF ResetSelectPassword, At, db
  <2> QED
    BY <1>2, <2>2, <2>3 DEF Named
<1>3. CASE d # c
  <2>1. pc[d] = "change" /\ req'[d] = req[d]
    BY <1>1, <1>3, OtherClients DEF IInv
  <2>2. req[d].type = "reset"
    BY <2>1 DEF ChangeInv, ChangeAt
  <2>3. CASE overtaken[d] \/ Changed(req[d].userName) # {}
    BY <1>1, <1>3, <2>1, <2>2, <2>3 DEF Overtake
  <2>4. CASE ~overtaken[d] /\ Changed(req[d].userName) = {}
    <3>1. PICK i \in Named(req[d].userName) : user[i].pass = req[d].passWord
      BY <2>1, <2>4 DEF ChangeInv, ChangeAt
    <3>2. user'[i] = user[i]
      BY <2>4, <3>1 DEF Changed
    <3>3. i \in Named(req[d].userName)' /\ user'[i].pass = req'[d].passWord
      BY <2>1, <3>1, <3>2 DEF Named
    <3> QED
      BY <2>1, <2>2, <3>3
  <2> QED
    BY <2>3, <2>4
<1> QED
  BY <1>2, <1>3

(* If a name is one account, ResetPassWord replaces the password it has    *)
(* compared, or one that another client put in its place after that: that  *)
(* gap is the only way past the comparison.                                *)
THEOREM ChangeCorrect == ASSUME NamesAreUnique PROVE HistorySpec => ReplacedUnlessOvertaken
<1> DEFINE Known ==
      \A c \in Clients : \A i \in Ids :
        pc[c] = "change" /\ pc'[c] = "recycle" /\ user'[i] # user[i] =>
          user[i].pass = req[c].passWord \/ overtaken[c]
<1>1. HistoryInit => ChangeInv
  BY DEF HistoryInit, Init, ChangeInv, OneRowPerName, ChangeAt, NamesAreUnique
<1>2. IInv /\ ChangeInv /\ [HistoryNext]_history => ChangeInv'
  <2>1. ChangeInv /\ UNCHANGED <<vars, overtaken>> => ChangeInv'
    BY DEF ChangeInv, OneRowPerName, ChangeAt, Named, vars, db
  <2>2. ASSUME IInv, ChangeInv, NEW c \in Clients, Step(c) PROVE ChangeInv'
    <3>1. OneRowPerName'
      BY <2>2, RowsStep DEF ChangeInv, Step
    <3>2. \A d \in Clients : ChangeAt(d)'
      BY <2>2, ChangeStep
    <3> QED
      BY <3>1, <3>2 DEF ChangeInv
  <2> QED
    BY <2>1, <2>2 DEF HistoryNext, Tick, history
<1>3. IInv /\ ChangeInv /\ [HistoryNext]_history => [Known]_history
  <2> SUFFICES ASSUME IInv, ChangeInv, HistoryNext, NEW c \in Clients, NEW i \in Ids,
                      pc[c] = "change", pc'[c] = "recycle", user'[i] # user[i],
                      ~overtaken[c]
               PROVE  user[i].pass = req[c].passWord
    OBVIOUS
  <2>1. ~Tick
    BY DEF Tick, vars
  <2>2. PICK d \in Clients : Run(d) \/ Handle(d)
    BY <2>1 DEF HistoryNext, Step
  <2>3. d = c
    BY <2>2, OtherClients DEF IInv
  <2>4. req[c].type = "reset" /\ RequestAt(c) /\ TypeOK
    BY DEF ChangeInv, ChangeAt, IInv, InPlace
  <2>5. ResetUpdate(c)
    BY <2>2, <2>3, <2>4, UserWriters DEF RegisterInsert, At
  <2>6. i \in Named(req[c].userName)
    BY <2>4, <2>5, ChangedRows
  <2>7. PICK j \in Named(req[c].userName) : user[j].pass = req[c].passWord
    BY DEF ChangeInv, ChangeAt
  <2>8. i = j
    BY <2>6, <2>7 DEF ChangeInv, OneRowPerName, Named
  <2> QED
    BY <2>7, <2>8
<1> QED
  BY <1>1, <1>2, <1>3, HistoryInvariance, PTL DEF HistorySpec, ReplacedUnlessOvertaken
=============================================================================
