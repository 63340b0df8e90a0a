---------------------------- MODULE DatesProofs ----------------------------
(***************************************************************************)
(* The day of a row, for every header date and time: the two conversions   *)
(* of the calendar are inverse to each other on the years that are         *)
(* plausible, and what is on no calendar is marked.                        *)
(*                                                                         *)
(* The years of the conversions start in March: month mp of such a year    *)
(* is 0 for March and 11 for February, and its days are counted from 0.    *)
(***************************************************************************)
EXTENDS Dates, TLAPS

-----------------------------------------------------------------------------
(* Arithmetic.                                                             *)
Jump(year) == IF Leap(year) THEN 1 ELSE 0

(* 400 years have 146097 days.                                             *)
LEMMA EraYears ==
  ASSUME NEW y \in Nat
  PROVE  146097 * (y \div 400) + 365 * (y % 400) + (y % 400) \div 4 - (y % 400) \div 100
           = 365 * y + y \div 4 - y \div 100 + y \div 400
OBVIOUS

LEMMA LeapStep ==
  ASSUME NEW y \in Nat, y > 0
  PROVE  LeapsBefore(y + 1) = LeapsBefore(y) + Jump(y)
BY DEF LeapsBefore, Jump, Leap

LEMMA Divisions ==
  ASSUME NEW k \in Int, NEW w \in Nat
  PROVE  /\ w < 365 => (365 * k + w) \div 365 = k
         /\ w < 1460 => (1460 * k + w) \div 1460 = k
         /\ w < 36524 => (36524 * k + w) \div 36524 = k
         /\ w < 146096 => w \div 146096 = 0
         /\ w < 146097 => (146097 * k + w) \div 146097 = k /\ (146097 * k + w) % 146097 = w
OBVIOUS

(* The days of the first years of an era, and the year back from the day.  *)
DaysOfYears(yoe) == yoe * 365 + yoe \div 4 - yoe \div 100
YearOfDay(doe) == (doe - doe \div 1460 + doe \div 36524 - doe \div 146096) \div 365
DayInEra(yoe, doy) == DaysOfYears(yoe) + doy

LEMMA YearParts ==
  ASSUME NEW yoe \in Nat, yoe < 400
  PROVE  \E c \in 0..3, q \in 0..24, r \in 0..3 :
           /\ yoe = 100 * c + 4 * q + r
           /\ yoe \div 4 = 25 * c + q /\ yoe \div 100 = c
           /\ (yoe + 1) % 4 = 0 <=> r = 3
           /\ (yoe + 1) % 100 = 0 <=> (r = 3 /\ q = 24)
           /\ (yoe + 1) % 400 = 0 <=> (r = 3 /\ q = 24 /\ c = 3)
<1> DEFINE c == yoe \div 100
           q == (yoe % 100) \div 4
           r == yoe % 4
<1>1. c \in 0..3 /\ q \in 0..24 /\ r \in 0..3
  OBVIOUS
<1>2. yoe = 100 * c + 4 * q + r
  OBVIOUS
<1> HIDE DEF c, q, r
<1>3. yoe \div 4 = 25 * c + q /\ yoe \div 100 = c
  BY <1>1, <1>2
<1>4. (yoe + 1) % 4 = 0 <=> r = 3
  BY <1>1, <1>2
<1>5. (yoe + 1) % 100 = 0 <=> (r = 3 /\ q = 24)
  BY <1>1, <1>2
<1>6. (yoe + 1) % 400 = 0 <=> (r = 3 /\ q = 24 /\ c = 3)
  BY <1>1, <1>2
<1> QED
  BY <1>1, <1>2, <1>3, <1>4, <1>5, <1>6

LEMMA LeapOfEra ==
  ASSUME NEW y \in Nat
  PROVE  /\ y % 400 \in Nat /\ y % 400 < 400
         /\ Leap(y + 1) <=> \/ ((y % 400) + 1) % 4 = 0 /\ ((y % 400) + 1) % 100 # 0
                            \/ ((y % 400) + 1) % 400 = 0
<1>1. y % 400 \in Nat /\ y % 400 < 400
  OBVIOUS
<1>2. /\ (y + 1) % 4 = ((y % 400) + 1) % 4
      /\ (y + 1) % 100 = ((y % 400) + 1) % 100
      /\ (y + 1) % 400 = ((y % 400) + 1) % 400
  OBVIOUS
<1> QED
  BY <1>1, <1>2 DEF Leap

-----------------------------------------------------------------------------
(* The days before each month.                                             *)
LEMMA Through ==
  ASSUME NEW year
  PROVE  /\ DaysThrough(year, 0) = 0  /\ DaysThrough(year, 1) = 31
         /\ DaysThrough(year, 2) = 59 + Jump(year)
         /\ DaysThrough(year, 3) = 90 + Jump(year)
         /\ DaysThrough(year, 4) = 120 + Jump(year)
         /\ DaysThrough(year, 5) = 151 + Jump(year)
         /\ DaysThrough(year, 6) = 181 + Jump(year)
         /\ DaysThrough(year, 7) = 212 + Jump(year)
         /\ DaysThrough(year, 8) = 243 + Jump(year)
         /\ DaysThrough(year, 9) = 273 + Jump(year)
         /\ DaysThrough(year, 10) = 304 + Jump(year)
         /\ DaysThrough(year, 11) = 334 + Jump(year)
         /\ DaysThrough(year, 12) = 365 + Jump(year)
         /\ Jump(year) \in {0, 1}
BY DEF DaysThrough, Jump

(* The month a day of the year lies in.                                    *)
InMonth(year, yday, m) ==
  yday <= DaysThrough(year, m) /\ (m = 1 \/ yday > DaysThrough(year, m - 1))

LEMMA MonthFound ==
  ASSUME NEW year, NEW yday \in Int, yday <= DaysThrough(year, 12)
  PROVE  \E m \in 1..12 :
           /\ InMonth(year, yday, m)
           /\ YdayToMd(year, yday) = [month |-> m, day |-> yday - DaysThrough(year, m - 1)]
<1>1. \E m \in 1..12 : InMonth(year, yday, m)
  <2>1. \/ InMonth(year, yday, 1) \/ InMonth(year, yday, 2) \/ InMonth(year, yday, 3)
        \/ InMonth(year, yday, 4) \/ InMonth(year, yday, 5) \/ InMonth(year, yday, 6)
        \/ InMonth(year, yday, 7) \/ InMonth(year, yday, 8) \/ InMonth(year, yday, 9)
        \/ InMonth(year, yday, 10) \/ InMonth(year, yday, 11) \/ InMonth(year, yday, 12)
    BY Through DEF InMonth
  <2> QED
    BY <2>1
<1> DEFINE m == CHOOSE m \in 1..12 : InMonth(year, yday, m)
<1>2. m \in 1..12 /\ InMonth(year, yday, m)
  BY <1>1
<1>3. YdayToMd(year, yday) = [month |-> m, day |-> yday - DaysThrough(year, m - 1)]
  BY DEF YdayToMd, InMonth
<1> HIDE DEF m
<1> QED
  BY <1>2, <1>3

(* The year that starts in March: its year, month and first day of a month.*)
MarchYearOf(year, m) == IF m <= 2 THEN year - 1 ELSE year
MarchMonth(m) == IF m > 2 THEN m - 3 ELSE m + 9
MonthOf(mp) == IF mp < 10 THEN mp + 3 ELSE mp - 9
MonthStart(mp) == (153 * mp + 2) \div 5
MonthOfDay(doy) == (5 * doy + 2) \div 153

(* Where the day lies in the year that starts in March.                    *)
LEMMA MarchYear ==
  ASSUME NEW year, NEW yday \in Nat, yday >= 1, NEW m \in 1..12, InMonth(year, yday, m),
         NEW mp, mp = MarchMonth(m), NEW day, day = yday - DaysThrough(year, m - 1),
         NEW doy, doy = MonthStart(mp) + day - 1
  PROVE  /\ doy = IF m > 2 THEN yday - 60 - Jump(year) ELSE yday + 305
         /\ doy \in Nat /\ doy <= 365 /\ (doy = 365 => m = 2 /\ Jump(year) = 1)
         /\ MonthOfDay(doy) = mp
         /\ day \in 1..31
<1>0. Jump(year) \in {0, 1}
  BY Through
<1>1. CASE m = 1
  <2>1. /\ mp = 10 /\ day = yday - 0 /\ yday <= 31
    BY <1>0, <1>1, Through DEF InMonth, MarchMonth
  <2> QED
    BY <1>0, <1>1, <2>1 DEF MonthStart, MonthOfDay
<1>2. CASE m = 2
  <2>1. /\ mp = 11 /\ day = yday - 31 /\ yday <= 59 + Jump(year) /\ day >= 1
    BY <1>0, <1>2, Through DEF InMonth, MarchMonth
  <2> QED
    BY <1>0, <1>2, <2>1 DEF MonthStart, MonthOfDay
<1>3. CASE m = 3
  <2>1. /\ mp = 0 /\ day = yday - (59 + Jump(year)) /\ yday <= 90 + Jump(year) /\ day >= 1
    BY <1>0, <1>3, Through DEF InMonth, MarchMonth
  <2> QED
    BY <1>0, <1>3, <2>1 DEF MonthStart, MonthOfDay
<1>4. CASE m = 4
  <2>1. /\ mp = 1 /\ day = yday - (90 + Jump(year)) /\ yday <= 120 + Jump(year) /\ day >= 1
    BY <1>0, <1>4, Through DEF InMonth, MarchMonth
  <2> QED
    BY <1>0, <1>4, <2>1 DEF MonthStart, MonthOfDay
<1>5. CASE m = 5
  <2>1. /\ mp = 2 /\ day = yday - (120 + Jump(year)) /\ yday <= 151 + Jump(year) /\ day >= 1
    BY <1>0, <1>5, Through DEF InMonth, MarchMonth
  <2> QED
    BY <1>0, <1>5, <2>1 DEF MonthStart, MonthOfDay
<1>6. CASE m = 6
  <2>1. /\ mp = 3 /\ day = yday - (151 + Jump(year)) /\ yday <= 181 + Jump(year) /\ day >= 1
    BY <1>0, <1>6, Through DEF InMonth, MarchMonth
  <2> QED
    BY <1>0, <1>6, <2>1 DEF MonthStart, MonthOfDay
<1>7. CASE m = 7
  <2>1. /\ mp = 4 /\ day = yday - (181 + Jump(year)) /\ yday <= 212 + Jump(year) /\ day >= 1
    BY <1>0, <1>7, Through DEF InMonth, MarchMonth
  <2> QED
    BY <1>0, <1>7, <2>1 DEF MonthStart, MonthOfDay
<1>8. CASE m = 8
  <2>1. /\ mp = 5 /\ day = yday - (212 + Jump(year)) /\ yday <= 243 + Jump(year) /\ day >= 1
    BY <1>0, <1>8, Through DEF InMonth, MarchMonth
  <2> QED
    BY <1>0, <1>8, <2>1 DEF MonthStart, MonthOfDay
<1>9. CASE m = 9
  <2>1. /\ mp = 6 /\ day = yday - (243 + Jump(year)) /\ yday <= 273 + Jump(year) /\ day >= 1
    BY <1>0, <1>9, Through DEF InMonth, MarchMonth
  <2> QED
    BY <1>0, <1>9, <2>1 DEF MonthStart, MonthOfDay
<1>10. CASE m = 10
  <2>1. /\ mp = 7 /\ day = yday - (273 + Jump(year)) /\ yday <= 304 + Jump(year) /\ day >= 1
    BY <1>0, <1>10, Through DEF InMonth, MarchMonth
  <2> QED
    BY <1>0, <1>10, <2>1 DEF MonthStart, MonthOfDay
<1>11. CASE m = 11
  <2>1. /\ mp = 8 /\ day = yday - (304 + Jump(year)) /\ yday <= 334 + Jump(year) /\ day >= 1
    BY <1>0, <1>11, Through DEF InMonth, MarchMonth
  <2> QED
    BY <1>0, <1>11, <2>1 DEF MonthStart, MonthOfDay
<1>12. CASE m = 12
  <2>1. /\ mp = 9 /\ day = yday - (334 + Jump(year)) /\ yday <= 365 + Jump(year) /\ day >= 1
    BY <1>0, <1>12, Through DEF InMonth, MarchMonth
  <2> QED
    BY <1>0, <1>12, <2>1 DEF MonthStart, MonthOfDay
<1> QED
  BY <1>1, <1>2, <1>3, <1>4, <1>5, <1>6, <1>7, <1>8, <1>9, <1>10, <1>11, <1>12

(* A day in the year yoe of an era, the year starting in March.            *)
LEMMA DayOfEra ==
  ASSUME NEW yoe \in Nat, yoe < 400, NEW doy \in Nat, doy <= 365,
         doy = 365 => \/ (yoe + 1) % 4 = 0 /\ (yoe + 1) % 100 # 0
                      \/ (yoe + 1) % 400 = 0
  PROVE  /\ DayInEra(yoe, doy) \in Nat /\ DayInEra(yoe, doy) < 146097
         /\ YearOfDay(DayInEra(yoe, doy)) = yoe
<1>0. PICK doe : doe = DayInEra(yoe, doy)
  OBVIOUS
<1>1. PICK c \in 0..3, q \in 0..24, r \in 0..3 :
        /\ yoe = 100 * c + 4 * q + r
        /\ yoe \div 4 = 25 * c + q /\ yoe \div 100 = c
        /\ (yoe + 1) % 4 = 0 <=> r = 3
        /\ (yoe + 1) % 100 = 0 <=> (r = 3 /\ q = 24)
        /\ (yoe + 1) % 400 = 0 <=> (r = 3 /\ q = 24 /\ c = 3)
  BY YearParts
<1>2. doy = 365 => r = 3 /\ (q # 24 \/ c = 3)
  BY <1>1
<1>3. DaysOfYears(yoe) = yoe * 365 + (25 * c + q) - c
  BY <1>1 DEF DaysOfYears
<1>4. doe = 36524 * c + 1461 * q + 365 * r + doy /\ doe \in Int
  BY <1>0, <1>1, <1>3 DEF DayInEra
<1>5. PICK w \in Nat : w = 24 * c + q + 365 * r + doy
  OBVIOUS
<1>6. PICK b \in {0, 1} : b = IF w >= 1460 THEN 1 ELSE 0
  OBVIOUS
<1>7. doy - b \in Nat /\ doy - b < 365
  BY <1>2, <1>5, <1>6
<1>8. doe >= 0 /\ doe < 146097
  BY <1>2, <1>4
<1>9. doe \div 1460 = 25 * c + q + b
  <2>1. doe = 1460 * (25 * c + q + b) + (w - 1460 * b)
    BY <1>4, <1>5, <1>6
  <2>2. w - 1460 * b \in Nat /\ w - 1460 * b < 1460
    BY <1>5, <1>6
  <2> QED
    BY <2>1, <2>2, Divisions
<1>10. doe \div 36524 - doe \div 146096 = c
  <2>1. CASE c = 3 /\ q = 24 /\ r = 3 /\ doy = 365
    BY <1>4, <2>1
  <2>2. CASE ~(c = 3 /\ q = 24 /\ r = 3 /\ doy = 365)
    <3>1. 1461 * q + 365 * r + doy \in Nat /\ 1461 * q + 365 * r + doy < 36524
      BY <1>2, <2>2
    <3>2. doe = 36524 * c + (1461 * q + 365 * r + doy)
      BY <1>4
    <3>3. doe \div 36524 = c
      BY <3>1, <3>2, Divisions
    <3>4. doe \in Nat /\ doe < 146096
      BY <3>1, <3>2
    <3>5. doe \div 146096 = 0
      BY <3>4, Divisions
    <3> QED
      BY <3>3, <3>5
  <2> QED
    BY <2>1, <2>2
<1>11. doe - doe \div 1460 + doe \div 36524 - doe \div 146096
        = 365 * (100 * c + 4 * q + r) + (doy - b)
  BY <1>4, <1>6, <1>9, <1>10
<1>12. PICK k \in Int : k = 100 * c + 4 * q + r
  OBVIOUS
<1>13. PICK u \in Nat : u = doy - b
  BY <1>7
<1>14. (365 * k + u) \div 365 = k
  BY <1>7, <1>13, Divisions
<1>15. doe - doe \div 1460 + doe \div 36524 - doe \div 146096 = 365 * k + u
  BY <1>11, <1>12, <1>13
<1>16. YearOfDay(doe) = k
  BY <1>14, <1>15 DEF YearOfDay
<1>17. k = yoe
  BY <1>1, <1>12
<1>18. doe \in Nat /\ doe < 146097
  BY <1>4, <1>8
<1> QED
  BY <1>0, <1>16, <1>17, <1>18

(* The number of day doy of year y, and the year and the day back from it. *)
MarchDay(y, doy) == (y \div 400) * 146097 + DayInEra(y % 400, doy)
DayBack(doe) == doe - (365 * YearOfDay(doe) + YearOfDay(doe) \div 4 - YearOfDay(doe) \div 100)

(* The two conversions, one quantity after the other.                      *)
LEMMA CountedInMarchYears ==
  ASSUME NEW year \in Int, NEW m \in 1..12, NEW day \in Int
  PROVE  DaysFromCivil([year |-> year, month |-> m, day |-> day])
           = MarchDay(MarchYearOf(year, m), MonthStart(MarchMonth(m)) + day - 1) - 719468
BY DEF DaysFromCivil, MarchDay, DayInEra, DaysOfYears, MarchYearOf, MarchMonth, MonthStart

CivilOf(y, doy, mp) ==
  [year  |-> y + (IF MonthOf(mp) <= 2 THEN 1 ELSE 0),
   month |-> MonthOf(mp),
   day   |-> doy - MonthStart(mp) + 1]

LEMMA BackFromMarchYears ==
  ASSUME NEW days, NEW z, days + 719468 = z
  PROVE  CivilFromDays(days) =
           CivilOf(YearOfDay(z % 146097) + (z \div 146097) * 400, DayBack(z % 146097),
                   MonthOfDay(DayBack(z % 146097)))
BY DEF CivilFromDays, CivilOf, YearOfDay, DayBack, MonthOfDay, MonthOf, MonthStart

LEMMA ThereAndBack ==
  ASSUME NEW y \in Nat, NEW doy \in Nat, doy <= 365, doy = 365 => Jump(y + 1) = 1
  PROVE  /\ MarchDay(y, doy) \in Int
         /\ CivilFromDays(MarchDay(y, doy) - 719468) = CivilOf(y, doy, MonthOfDay(doy))
<1>1. y % 400 \in Nat /\ y % 400 < 400 /\ y \div 400 \in Int /\ (y % 400) + (y \div 400) * 400 = y
  OBVIOUS
<1>2. doy = 365 => \/ ((y % 400) + 1) % 4 = 0 /\ ((y % 400) + 1) % 100 # 0
                   \/ ((y % 400) + 1) % 400 = 0
  BY LeapOfEra DEF Jump
<1>3. PICK o \in Nat, e \in Int : o = y % 400 /\ e = y \div 400
  BY <1>1
<1>4. PICK doe : doe = DayInEra(o, doy)
  OBVIOUS
<1>5. doe \in Nat /\ doe < 146097 /\ YearOfDay(doe) = o
  BY <1>1, <1>2, <1>3, <1>4, DayOfEra
<1>6. MarchDay(y, doy) = e * 146097 + doe
  BY <1>3, <1>4 DEF MarchDay
<1>7. e * 146097 + doe = 146097 * e + doe
  BY <1>5
<1>8. (146097 * e + doe) \div 146097 = e /\ (146097 * e + doe) % 146097 = doe
  BY <1>5, Divisions
<1>9. MarchDay(y, doy) \div 146097 = e /\ MarchDay(y, doy) % 146097 = doe
  BY <1>6, <1>7, <1>8
<1>10. MarchDay(y, doy) \in Int
  BY <1>5, <1>6
<1>11. DayBack(doe) = doy
  <2>1. DayBack(doe) = doe - (365 * o + o \div 4 - o \div 100)
    BY <1>5 DEF DayBack
  <2>2. doe = o * 365 + o \div 4 - o \div 100 + doy
    BY <1>4 DEF DayInEra, DaysOfYears
  <2>3. 365 * o + o \div 4 - o \div 100 \in Int
    OBVIOUS
  <2> QED
    BY <2>1, <2>2, <2>3
<1>12. PICK z \in Int : z = MarchDay(y, doy)
  BY <1>10
<1>13. z \div 146097 = e /\ z % 146097 = doe
  BY <1>9, <1>12
<1>14. CivilFromDays(z - 719468)
         = CivilOf(YearOfDay(doe) + e * 400, DayBack(doe), MonthOfDay(DayBack(doe)))
  <2>1. z - 719468 + 719468 = z
    OBVIOUS
  <2> QED
    BY <1>13, <2>1, BackFromMarchYears
<1>15. o + e * 400 = y
  BY <1>1, <1>3
<1> QED
  BY <1>5, <1>10, <1>11, <1>12, <1>14, <1>15

(* The number counts the days of all years before it.                      *)
LEMMA MarchDayCounts ==
  ASSUME NEW y \in Nat, NEW doy \in Int
  PROVE  MarchDay(y, doy) = 365 * y + LeapsBefore(y + 1) + doy
<1>1. 146097 * (y \div 400) + 365 * (y % 400) + (y % 400) \div 4 - (y % 400) \div 100
        = 365 * y + y \div 4 - y \div 100 + y \div 400
  BY EraYears
<1>2. LeapsBefore(y + 1) = y \div 4 - y \div 100 + y \div 400
  <2>1. y + 1 - 1 = y
    OBVIOUS
  <2> QED
    BY <2>1 DEF LeapsBefore
<1>3. MarchDay(y, doy) = (y \div 400) * 146097
        + ((y % 400) * 365 + (y % 400) \div 4 - (y % 400) \div 100 + doy)
  BY DEF MarchDay, DayInEra, DaysOfYears
<1>4. (y \div 400) * 146097 + ((y % 400) * 365 + (y % 400) \div 4 - (y % 400) \div 100 + doy)
        = 146097 * (y \div 400) + 365 * (y % 400) + (y % 400) \div 4 - (y % 400) \div 100 + doy
  OBVIOUS
<1>5. MarchDay(y, doy) = 365 * y + y \div 4 - y \div 100 + y \div 400 + doy
  BY <1>1, <1>3, <1>4
<1>6. 365 * y + y \div 4 - y \div 100 + y \div 400 + doy
        = 365 * y + (y \div 4 - y \div 100 + y \div 400) + doy
  OBVIOUS
<1> QED
  BY <1>2, <1>5, <1>6

-----------------------------------------------------------------------------
(* The days of the calendar.                                               *)
LEMMA DayNumbers ==
  ASSUME NEW year \in Nat, year >= 1970, NEW yday \in Nat, yday >= 1
  PROVE  /\ DayNumber(year, yday) \in Nat
         /\ DayNumber(year, yday) = 365 * year + LeapsBefore(year) + yday - 719528
         /\ LeapsBefore(year) \in Int
<1>1. LeapsBefore(1970) = 477
  BY DEF LeapsBefore
<1>2. LeapsBefore(year) \in Int /\ LeapsBefore(year) >= 477
  BY DEF LeapsBefore
<1>3. DayNumber(year, yday) = 365 * year + LeapsBefore(year) + yday - 719528
  BY <1>1, <1>2 DEF DayNumber
<1> QED
  BY <1>2, <1>3

(* A day of the year is in a month, has its number, and is the date        *)
(* computed back from the number.                                          *)
IsPlaced(year, yday, m, day) ==
  /\ YdayToMd(year, yday) = [month |-> m, day |-> day]
  /\ DaysFromCivil([year |-> year, month |-> m, day |-> day]) = DayNumber(year, yday)
  /\ CivilFromDays(DayNumber(year, yday)) = [year |-> year, month |-> m, day |-> day]

LEMMA CalendarDay ==
  ASSUME NEW year \in Nat, year >= 1970, year <= 9999,
         NEW yday \in Nat, yday >= 1, yday <= YearLength(year)
  PROVE  \E m \in 1..12, day \in 1..31 : IsPlaced(year, yday, m, day)
<1>1. YearLength(year) = 365 + Jump(year) /\ Jump(year) \in {0, 1}
  BY DEF YearLength, Jump
<1>2. yday <= DaysThrough(year, 12)
  BY <1>1, Through
<1>3. PICK m \in 1..12 :
        /\ InMonth(year, yday, m)
        /\ YdayToMd(year, yday) = [month |-> m, day |-> yday - DaysThrough(year, m - 1)]
  BY <1>2, MonthFound
<1>4. PICK mp : mp = MarchMonth(m)
  OBVIOUS
<1>5. PICK day : day = yday - DaysThrough(year, m - 1)
  OBVIOUS
<1>6. PICK doy : doy = MonthStart(mp) + day - 1
  OBVIOUS
<1>7. PICK y : y = MarchYearOf(year, m)
  OBVIOUS
<1>8. /\ doy = IF m > 2 THEN yday - 60 - Jump(year) ELSE yday + 305
      /\ doy \in Nat /\ doy <= 365 /\ (doy = 365 => m = 2 /\ Jump(year) = 1)
      /\ MonthOfDay(doy) = mp
      /\ day \in 1..31
  BY <1>3, <1>4, <1>5, <1>6, MarchYear
<1>9. y \in Nat /\ (m <= 2 => y + 1 = year) /\ (m > 2 => y = year)
  BY <1>7 DEF MarchYearOf
<1>10. doy = 365 => Jump(y + 1) = 1
  BY <1>8, <1>9
<1>11. PICK z : z = MarchDay(y, doy)
  OBVIOUS
<1>12. z \in Int /\ CivilFromDays(z - 719468) = CivilOf(y, doy, mp)
  <2>1. doy \in Nat /\ doy <= 365 /\ MonthOfDay(doy) = mp
    BY <1>8
  <2>2. y \in Nat
    BY <1>9
  <2> QED
    BY <1>10, <1>11, <2>1, <2>2, ThereAndBack
<1>13. z = 365 * y + LeapsBefore(y + 1) + doy
  BY <1>8, <1>9, <1>11, MarchDayCounts
<1>14. DaysFromCivil([year |-> year, month |-> m, day |-> day]) = z - 719468
  BY <1>4, <1>6, <1>7, <1>8, <1>11, CountedInMarchYears
<1>15. z - 719468 = DayNumber(year, yday)
  <2>1. /\ DayNumber(year, yday) = 365 * year + LeapsBefore(year) + yday - 719528
        /\ LeapsBefore(year) \in Int
    BY DayNumbers
  <2>2. CASE m > 2
    <3>1. y = year /\ LeapsBefore(year + 1) = LeapsBefore(year) + Jump(year)
      BY <1>9, <2>2, LeapStep
    <3>2. z = 365 * year + LeapsBefore(year + 1) + doy
      BY <1>13, <3>1
    <3> QED
      BY <1>1, <1>8, <2>1, <2>2, <3>1, <3>2
  <2>3. CASE ~(m > 2)
    <3>1. y = year - 1 /\ y + 1 = year
      BY <1>9, <2>3
    <3>2. z = 365 * (year - 1) + LeapsBefore(year) + doy
      BY <1>13, <3>1
    <3> QED
      BY <1>8, <2>1, <2>3, <3>2
  <2> QED
    BY <2>2, <2>3
<1>16. CivilFromDays(z - 719468) = [year |-> year, month |-> m, day |-> day]
  <2>1. MonthOf(mp) = m
    BY <1>4 DEF MonthOf, MarchMonth
  <2>2. y + (IF m <= 2 THEN 1 ELSE 0) = year
    BY <1>9
  <2>3. MonthStart(mp) \in Int
    BY <1>4 DEF MonthStart, MarchMonth
  <2>4. doy - MonthStart(mp) + 1 = day
    BY <1>6, <1>8, <2>3
  <2>5. CivilOf(y, doy, mp)
          = [year  |-> y + (IF m <= 2 THEN 1 ELSE 0),
             month |-> m, day |-> doy - MonthStart(mp) + 1]
    BY <2>1 DEF CivilOf
  <2> QED
    BY <1>12, <2>2, <2>4, <2>5
<1>17. day \in 1..31 /\ YdayToMd(year, yday) = [month |-> m, day |-> day]
  BY <1>3, <1>5, <1>8
<1>18. /\ DaysFromCivil([year |-> year, month |-> m, day |-> day]) = DayNumber(year, yday)
       /\ CivilFromDays(DayNumber(year, yday)) = [year |-> year, month |-> m, day |-> day]
  BY <1>14, <1>15, <1>16
<1> USE <1>17
<1> WITNESS m \in 1..12, day \in 1..31
<1> QED
  BY <1>17, <1>18 DEF IsPlaced

-----------------------------------------------------------------------------
(* A header date.                                                          *)
LEMMA Divided ==
  ASSUME NEW n \in Int
  PROVE  /\ Quot(n, 1000) \in Int /\ Rem(n, 1000) \in Int
         /\ n >= 0 => /\ Quot(n, 1000) = n \div 1000 /\ Rem(n, 1000) = n % 1000
                      /\ n \div 1000 \in Nat /\ n % 1000 \in Nat
         /\ n <= 0 => Quot(n, 1000) <= 0
<1>1. CASE n >= 0
  BY <1>1 DEF Quot, Rem
<1>2. CASE n < 0
  <2>1. (-n) \div 1000 \in Nat
    BY <1>2
  <2>2. Quot(n, 1000) = -((-n) \div 1000) /\ Rem(n, 1000) = n - 1000 * Quot(n, 1000)
    BY <1>2 DEF Quot, Rem
  <2> QED
    BY <1>2, <2>1, <2>2
<1> QED
  BY <1>1, <1>2

LEMMA Decoded ==
  ASSUME NEW n
  PROVE  DecodeDate(n) = [year  |-> Quot(n, 1000),
                          month |-> YdayToMd(Quot(n, 1000), Rem(n, 1000)).month,
                          day   |-> YdayToMd(Quot(n, 1000), Rem(n, 1000)).day]
BY DEF DecodeDate

LEMMA PackedInt ==
  ASSUME NEW p \in [1..8 -> 0..15]
  PROVE  PackedToInt(p) \in Int
<1>1. /\ p[1] \in Int /\ p[2] \in Int /\ p[3] \in Int /\ p[4] \in Int
      /\ p[5] \in Int /\ p[6] \in Int /\ p[7] \in Int
  OBVIOUS
<1> QED
  BY <1>1 DEF PackedToInt

LEMMA PackedNibbles ==
  ASSUME NEW n \in Int
  PROVE  Packed(n) \in [1..8 -> 0..15]
<1>1. \A k \in Int : k % 10 \in 0..15
  OBVIOUS
<1>2. PICK a, b, c, d, e, g \in Int :
        /\ a = n \div 1000000 /\ b = n \div 100000 /\ c = n \div 10000
        /\ d = n \div 1000 /\ e = n \div 100 /\ g = n \div 10
  OBVIOUS
<1>3. Packed(n) = <<a % 10, b % 10, c % 10, d % 10, e % 10, g % 10, n % 10, 12>>
  BY <1>2 DEF Packed
<1>4. \A t, u, v, w, x, y, z \in 0..15 : <<t, u, v, w, x, y, z, 12>> \in [1..8 -> 0..15]
  OBVIOUS
<1>5. /\ a % 10 \in 0..15 /\ b % 10 \in 0..15 /\ c % 10 \in 0..15 /\ d % 10 \in 0..15
      /\ e % 10 \in 0..15 /\ g % 10 \in 0..15 /\ n % 10 \in 0..15
  BY <1>1
<1>6. <<a % 10, b % 10, c % 10, d % 10, e % 10, g % 10, n % 10, 12>> \in [1..8 -> 0..15]
  BY <1>4, <1>5, Zenon
<1> QED
  BY <1>3, <1>6

(* The day 0 of a year is no day, a day behind it is December 31.          *)
LEMMA DayZero ==
  ASSUME NEW year
  PROVE  YdayToMd(year, 0).day = 0
<1>1. 0 <= DaysThrough(year, 12)
  BY Through
<1>2. PICK m \in 1..12 :
        /\ InMonth(year, 0, m)
        /\ YdayToMd(year, 0) = [month |-> m, day |-> 0 - DaysThrough(year, m - 1)]
  BY <1>1, MonthFound
<1>3. m = 1
  <2>1. \A k \in 1..11 : DaysThrough(year, k) \in Int /\ DaysThrough(year, k) > 0
    BY Through
  <2>2. m = 1 \/ m - 1 \in 1..11
    OBVIOUS
  <2>3. m = 1 \/ 0 > DaysThrough(year, m - 1)
    BY <1>2 DEF InMonth
  <2> QED
    BY <2>1, <2>2, <2>3
<1>4. m - 1 = 0 /\ DaysThrough(year, 0) = 0
  BY <1>3, Through
<1>5. 0 - DaysThrough(year, m - 1) = 0
  BY <1>4
<1> QED
  BY <1>2, <1>5

LEMMA LastDay ==
  ASSUME NEW year \in Nat
  PROVE  /\ YearLength(year) \in Nat /\ YearLength(year) = DaysThrough(year, 12)
         /\ YdayToMd(year, YearLength(year)) = [month |-> 12, day |-> 31]
<1>1. /\ YearLength(year) \in Nat /\ YearLength(year) = DaysThrough(year, 12)
      /\ YearLength(year) = 365 + Jump(year)
  BY Through DEF YearLength, Jump
<1>2. PICK m \in 1..12 :
        /\ InMonth(year, YearLength(year), m)
        /\ YdayToMd(year, YearLength(year))
             = [month |-> m, day |-> YearLength(year) - DaysThrough(year, m - 1)]
  BY <1>1, MonthFound
<1>3. m = 12
  <2>1. \A k \in 1..11 : DaysThrough(year, k) < 365 + Jump(year)
    BY Through
  <2>2. m \in 1..11 => InMonth(year, YearLength(year), m)
                         /\ DaysThrough(year, m) < YearLength(year)
    BY <1>1, <1>2, <2>1
  <2>3. m \in 1..11 => DaysThrough(year, m) \in Int
    BY Through
  <2> QED
    BY <1>1, <2>2, <2>3 DEF InMonth
<1>4. YearLength(year) - DaysThrough(year, 11) = 31
  BY <1>1, Through
<1>5. m - 1 = 11
  BY <1>3
<1> QED
  BY <1>1, <1>2, <1>3, <1>4, <1>5

LEMMA BehindTheYear ==
  ASSUME NEW year \in Nat, NEW yday \in Nat, yday > YearLength(year)
  PROVE  YdayToMd(year, yday) = [month |-> 12, day |-> 31]
<1>1. ~(yday <= DaysThrough(year, 12))
  BY LastDay
<1> QED
  BY <1>1 DEF YdayToMd

(* A time put together again from its hours, minutes and seconds.          *)
LEMMA TimeParts ==
  ASSUME NEW raw \in Nat
  PROVE  (((((raw \div 100) \div 3600) * 60) + (((raw \div 100) \div 60) % 60)) * 60
             + ((raw \div 100) % 60)) * 100 + (raw % 100) = raw
<1>1. PICK t \in Nat : t = raw \div 100
  OBVIOUS
<1>2. PICK u \in Nat : u = t \div 60
  OBVIOUS
<1>3. t * 100 + (raw % 100) = raw
  BY <1>1
<1>4. u * 60 + (t % 60) = t
  BY <1>2
<1>5. (u \div 60) * 60 + (u % 60) = u
  OBVIOUS
<1>6. t \div 3600 = u \div 60
  BY <1>2
<1>7. ((t \div 3600) * 60 + (u % 60)) * 60 + (t % 60) = t
  BY <1>4, <1>5, <1>6
<1> QED
  BY <1>1, <1>2, <1>3, <1>7

LEMMA DayIsInt ==
  ASSUME NEW d, d.year \in Int, Plausible(d)
  PROVE  DaysFromCivil(d) \in Int
<1>1. d.month \in Int /\ d.day \in Int
  BY DEF Plausible
<1> QED
  BY <1>1 DEF DaysFromCivil

(* What is stored for a date that is not plausible, and for one that is.   *)
LEMMA Unplaced ==
  ASSUME NEW dt, NEW tm, ~Plausible(DecodeDate(PackedToInt(dt)))
  PROVE  StoredUnder(dt, tm) = [key |-> NoDay, ts |-> NoDay, dir |-> NoDay]
BY DEF StoredUnder, EpochDays, EpochTime, Directory

LEMMA Placed ==
  ASSUME NEW dt, NEW tm, NEW d, d = DecodeDate(PackedToInt(dt)), Plausible(d),
         NEW n \in Nat, DaysFromCivil(d) = n
  PROVE  /\ StoredUnder(dt, tm).key = n
         /\ StoredUnder(dt, tm).dir = CivilFromDays(n)
<1>1. n # NoDay
  BY HeadersAssumption
<1> QED
  BY <1>1 DEF StoredUnder, EpochDays, Directory

-----------------------------------------------------------------------------
(* The rows of one header.                                                 *)
LEMMA CalendarHeader ==
  ASSUME NEW dt \in [1..8 -> 0..15], NEW tm, OnCalendar(dt)
  PROVE  /\ StoredUnder(dt, tm).key = DayNumber(YearOf(dt), DayOf(dt))
         /\ StoredUnder(dt, tm).dir.year = YearOf(dt)
         /\ StoredUnder(dt, tm).dir = DecodeDate(PackedToInt(dt))
<1>1. PICK n \in Int : n = PackedToInt(dt)
  BY PackedInt
<1>2. PICK year \in Nat, yday \in Nat :
        /\ year = n \div 1000 /\ yday = n % 1000
        /\ year = Quot(n, 1000) /\ yday = Rem(n, 1000)
  <2>1. n > 0
    BY <1>1 DEF OnCalendar
  <2> QED
    BY <2>1, Divided
<1>3. year >= 1970 /\ year <= 9999 /\ yday >= 1 /\ yday <= YearLength(year)
  <2>1. year \in 1970..9999 /\ yday \in 1..YearLength(year)
    BY <1>1, <1>2 DEF OnCalendar, YearOf, DayOf
  <2>2. YearLength(year) \in Int
    BY DEF YearLength
  <2> QED
    BY <2>1, <2>2, SMTT(30)
<1>p. PICK m \in 1..12, day \in 1..31 : IsPlaced(year, yday, m, day)
  BY <1>3, CalendarDay
<1>4. /\ YdayToMd(year, yday) = [month |-> m, day |-> day]
      /\ DaysFromCivil([year |-> year, month |-> m, day |-> day]) = DayNumber(year, yday)
      /\ CivilFromDays(DayNumber(year, yday)) = [year |-> year, month |-> m, day |-> day]
  BY <1>p DEF IsPlaced
<1>5. PICK d : d = [year |-> year, month |-> m, day |-> day]
  OBVIOUS
<1>6. DecodeDate(n) = d
  BY <1>2, <1>4, <1>5, Decoded
<1>7. Plausible(d)
  BY <1>3, <1>5 DEF Plausible
<1>8. DayNumber(year, yday) \in Nat
  BY <1>3, DayNumbers
<1>9. /\ StoredUnder(dt, tm).key = DayNumber(year, yday)
      /\ StoredUnder(dt, tm).dir = CivilFromDays(DayNumber(year, yday))
  BY <1>1, <1>4, <1>5, <1>6, <1>7, <1>8, Placed
<1>10. YearOf(dt) = year /\ DayOf(dt) = yday
  BY <1>1, <1>2 DEF YearOf, DayOf
<1> QED
  BY <1>1, <1>4, <1>5, <1>6, <1>9, <1>10

LEMMA OtherHeader ==
  ASSUME NEW dt \in [1..8 -> 0..15], NEW tm, ~OnCalendar(dt)
  PROVE  \/ StoredUnder(dt, tm) = [key |-> NoDay, ts |-> NoDay, dir |-> NoDay]
         \/ StoredUnder(dt, tm).dir = [year |-> YearOf(dt), month |-> 12, day |-> 31]
<1>1. PICK n \in Int : n = PackedToInt(dt)
  BY PackedInt
<1>2. PICK year \in Int, yday \in Int : year = Quot(n, 1000) /\ yday = Rem(n, 1000)
  BY Divided
<1>3. PICK d : d = DecodeDate(n)
  OBVIOUS
<1>4. d = [year |-> year, month |-> YdayToMd(year, yday).month,
           day |-> YdayToMd(year, yday).day]
  BY <1>2, <1>3, Decoded
<1>5. CASE ~Plausible(d)
  BY <1>1, <1>3, <1>5, Unplaced
<1>6. CASE Plausible(d)
  <2>1. year \in Nat /\ year >= 1970 /\ year <= 9999 /\ YdayToMd(year, yday).day # 0
    BY <1>4, <1>6 DEF Plausible
  <2>2. /\ n > 0 /\ year = n \div 1000 /\ yday = n % 1000 /\ yday \in Nat
    BY <1>2, <2>1, Divided
  <2>3. yday # 0
    BY <2>1, DayZero
  <2>4. YearLength(year) \in Nat
    BY <2>1, LastDay
  <2>5. yday > YearLength(year)
    <3>1. SUFFICES ASSUME ~(yday > YearLength(year)) PROVE FALSE
      OBVIOUS
    <3>2. year \in 1970..9999 /\ yday \in 1..YearLength(year)
      BY <2>1, <2>2, <2>3, <2>4, <3>1
    <3> QED
      BY <1>1, <2>2, <3>2 DEF OnCalendar, YearOf, DayOf
  <2>6. d = [year |-> year, month |-> 12, day |-> 31]
    BY <1>4, <2>1, <2>2, <2>5, BehindTheYear
  <2>7. /\ DaysFromCivil(d) = DayNumber(year, YearLength(year))
        /\ CivilFromDays(DayNumber(year, YearLength(year))) = d
        /\ DayNumber(year, YearLength(year)) \in Nat
    <3>1. YearLength(year) >= 1
      BY DEF YearLength
    <3>2. YdayToMd(year, YearLength(year)) = [month |-> 12, day |-> 31]
      BY <2>1, LastDay
    <3>3. PICK len \in Nat : len = YearLength(year)
      BY <2>4
    <3>4. PICK m \in 1..12, day \in 1..31 : IsPlaced(year, len, m, day)
      BY <2>1, <3>1, <3>3, CalendarDay
    <3>5. m = 12 /\ day = 31
      BY <3>2, <3>3, <3>4 DEF IsPlaced
    <3>6. DayNumber(year, len) \in Nat
      BY <2>1, <3>1, <3>3, DayNumbers
    <3> QED
      BY <2>6, <3>3, <3>4, <3>5, <3>6 DEF IsPlaced
  <2>8. StoredUnder(dt, tm).dir = d
    BY <1>1, <1>3, <1>6, <2>7, Placed
  <2> QED
    BY <1>1, <2>2, <2>6, <2>8 DEF YearOf
<1> QED
  BY <1>5, <1>6

LEMMA HeaderTime ==
  ASSUME NEW dt \in [1..8 -> 0..15], NEW tm \in Nat, tm < 8640000,
          StoredUnder(dt, tm).key # NoDay
  PROVE  StoredUnder(dt, tm).ts = [day |-> StoredUnder(dt, tm).key, hund |-> tm]
<1>1. PICK d : d = DecodeDate(PackedToInt(dt))
  OBVIOUS
<1>2. Plausible(d)
  BY <1>1 DEF StoredUnder, EpochDays
<1>3. PICK k \in Int : k = DaysFromCivil(d)
  <2>1. d.year \in Int
    BY <1>1, PackedInt, Divided, Decoded, SMTT(30)
  <2> QED
    BY <1>2, <2>1, DayIsInt
<1>4. PICK t : t = DecodeTime(tm)
  OBVIOUS
<1>5. ((t.hour * 60 + t.min) * 60 + t.sec) * 100 + t.hund = tm
  <2>1. /\ t.hour = (tm \div 100) \div 3600 /\ t.min = ((tm \div 100) \div 60) % 60
        /\ t.sec = (tm \div 100) % 60 /\ t.hund = tm % 100
    BY <1>4 DEF DecodeTime
  <2> QED
    BY <2>1, TimeParts
<1>6. EpochTime(d, t) = [day |-> k + tm \div 8640000, hund |-> tm % 8640000]
  BY <1>2, <1>3, <1>5 DEF EpochTime
<1>7. tm \div 8640000 = 0 /\ tm % 8640000 = tm
  OBVIOUS
<1>8. EpochTime(d, t) = [day |-> k, hund |-> tm]
  BY <1>6, <1>7
<1>9. StoredUnder(dt, tm).key = k /\ StoredUnder(dt, tm).ts = EpochTime(d, t)
  BY <1>1, <1>2, <1>3, <1>4 DEF StoredUnder, EpochDays
<1> QED
  BY <1>8, <1>9

-----------------------------------------------------------------------------
(* The stream: whatever the headers, a row is stored under its header.     *)
DatesInv ==
  /\ date \in [1..8 -> 0..15]
  /\ time \in Nat
  /\ row = StoredUnder(date, time)

LEMMA FollowingDate ==
  ASSUME NEW dt \in [1..8 -> 0..15]
  PROVE  Following(dt) \in [1..8 -> 0..15]
<1>1. PackedToInt(dt) \in Int
  BY PackedInt
<1>2. PackedToInt(dt) + 1 \in Int /\ 1000 * (YearOf(dt) + 1) + 1 \in Int
  BY <1>1 DEF YearOf
<1>3. Packed(PackedToInt(dt) + 1) \in [1..8 -> 0..15]
  BY <1>2, PackedNibbles
<1>4. Packed(1000 * (YearOf(dt) + 1) + 1) \in [1..8 -> 0..15]
  BY <1>2, PackedNibbles
<1> QED
  BY <1>3, <1>4 DEF Following

(* Every behaviour of the stream keeps a row under the header it came with.*)
THEOREM RowsFollowHeaders == DatesSpec => []DatesInv
<1>1. DatesInit => DatesInv
  BY HeadersAssumption DEF DatesInit, DatesInv
<1>2. DatesInv /\ [NextDay]_dvars => DatesInv'
  <2> SUFFICES ASSUME DatesInv, [NextDay]_dvars
               PROVE  DatesInv'
    OBVIOUS
  <2>1. CASE NextDay
    <3>1. date' \in [1..8 -> 0..15]
      BY <2>1, FollowingDate DEF NextDay, DatesInv
    <3>2. time' \in Nat
      BY <2>1, HeadersAssumption DEF NextDay
    <3> QED
      BY <2>1, <3>1, <3>2 DEF NextDay, DatesInv
  <2>2. CASE UNCHANGED dvars
    BY <2>2 DEF dvars, DatesInv
  <2> QED
    BY <2>1, <2>2
<1> QED
  BY <1>1, <1>2, PTL DEF DatesSpec

(* Every day of the calendar from 1970 to 9999 is partitioned under its    *)
(* own number, and the directory computed back from the number is the date *)
(* of the header.                                                          *)
THEOREM DaysAreFiled == DatesSpec => []FiledUnderItsDay
<1>1. DatesInv => FiledUnderItsDay
  BY CalendarHeader DEF DatesInv, FiledUnderItsDay
<1> QED
  BY <1>1, RowsFollowHeaders, PTL

(* Whatever the nibbles of a header date, it has no day unless it is on    *)
(* the calendar or behind the end of a year, then the last day of its year.*)
THEOREM BadDatesAreMarked == DatesSpec => []OffCalendarIsMarked
<1>1. DatesInv => OffCalendarIsMarked
  BY OtherHeader DEF DatesInv, OffCalendarIsMarked
<1> QED
  BY <1>1, RowsFollowHeaders, PTL

(* The timestamp of a row lies in the day it is partitioned under, at the  *)
(* time of its header, for every time below 24 hours.                      *)
THEOREM TimesAreInTheirDays == DatesSpec => []TimeInItsDay
<1>1. DatesInv => TimeInItsDay
  BY HeaderTime DEF DatesInv, TimeInItsDay
<1> QED
  BY <1>1, RowsFollowHeaders, PTL

=============================================================================
