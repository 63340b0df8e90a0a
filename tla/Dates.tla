------------------------------- MODULE Dates -------------------------------
(***************************************************************************)
(* From the date of a record header to the day, the timestamp and the      *)
(* directory its rows are stored under (vendor/mf_records/mf_types.h,      *)
(* src/sinks/time_convert.h, make_path of partitioned_table.h).            *)
(*                                                                         *)
(* A header date is 4 bytes of packed decimal YYYYDDD: seven digits and a  *)
(* sign, kept here as 8 nibbles.  The day is computed twice, from the      *)
(* digits for the columns and the partition key, and back from the key for *)
(* the directory and the name of the file.                                 *)
(*                                                                         *)
(* TLC's integers have 32 bits: a timestamp is kept as its day and the     *)
(* hundredths of a second since midnight.                                  *)
(***************************************************************************)
EXTENDS Integers, Sequences

CONSTANTS
  HeaderDates,   \* the header dates that occur: 8 nibbles each
  HeaderTimes,   \* the header times that occur: hundredths since midnight
  NoDay          \* std::nullopt, and kNoDate in a partition key

(* A raw time is unsigned; kNoDate is negative, and no day before 1970 is  *)
(* a key.                                                                  *)
ASSUME HeadersAssumption ==
  /\ HeaderDates \subseteq [1..8 -> 0..15]
  /\ HeaderTimes \subseteq Nat
  /\ NoDay \notin Nat

VARIABLES
  date, time,   \* of the header of the record at hand
  row           \* what its rows are stored under

dvars == <<date, time, row>>

(***************************************************************************)
(* mf_types.h.                                                             *)
(***************************************************************************)

(* packed_to_int64(): the nibbles are not checked to be digits.            *)
PackedToInt(p) ==
  LET n == 1000000 * p[1] + 100000 * p[2] + 10000 * p[3] + 1000 * p[4]
             + 100 * p[5] + 10 * p[6] + p[7] IN
  IF p[8] \in {11, 13} THEN -n ELSE n

(* Division and remainder of C: towards zero.                              *)
Quot(a, b) == IF a >= 0 THEN a \div b ELSE -((-a) \div b)
Rem(a, b)  == a - b * Quot(a, b)

Leap(year) == (year % 4 = 0 /\ year % 100 # 0) \/ year % 400 = 0

(* The days of the first m months.                                         *)
DaysThrough(year, m) ==
  LET through == <<31, 59, 90, 120, 151, 181, 212, 243, 273, 304, 334, 365>> IN
  (IF m = 0 THEN 0 ELSE through[m]) + IF m >= 2 /\ Leap(year) THEN 1 ELSE 0

(* Mutant of YdayToMd: a day behind the year ends in January.              *)
YdayToMdWraps(year, yday) ==
  LET m == IF yday > DaysThrough(year, 12) THEN 1
           ELSE CHOOSE m \in 1..12 : /\ yday <= DaysThrough(year, m)
                                     /\ m = 1 \/ yday > DaysThrough(year, m - 1)
  IN [month |-> m, day |-> (yday - DaysThrough(year, m - 1)) % 32]

(* yday_to_md(): a day behind the end of the year is December 31, one      *)
(* before its start stays in January with its number.                      *)
YdayToMd(year, yday) ==
  IF yday <= DaysThrough(year, 12)
    THEN LET m == CHOOSE m \in 1..12 : /\ yday <= DaysThrough(year, m)
                                       /\ m = 1 \/ yday > DaysThrough(year, m - 1)
         IN [month |-> m, day |-> yday - DaysThrough(year, m - 1)]
    ELSE [month |-> 12, day |-> 31]

(* decode_mf_date().                                                       *)
DecodeDate(n) ==
  LET year == Quot(n, 1000)  yday == Rem(n, 1000)  md == YdayToMd(year, yday)
  IN [year |-> year, month |-> md.month, day |-> md.day]

Plausible(d) ==
  /\ d.year \in 1970..9999
  /\ d.month \in 1..12
  /\ d.day \in 1..31

(* days_from_civil(): the year starts in March, the era in a multiple of   *)
(* 400 years.  Its callers ask Plausible first, so no year is negative.    *)
DaysFromCivil(d) ==
  LET y   == IF d.month <= 2 THEN d.year - 1 ELSE d.year
      yoe == y % 400
      doy == (153 * (IF d.month > 2 THEN d.month - 3 ELSE d.month + 9) + 2) \div 5
               + d.day - 1
      doe == yoe * 365 + yoe \div 4 - yoe \div 100 + doy
  IN (y \div 400) * 146097 + doe - 719468

(* Mutant of CivilFromDays: the last day of an era is not corrected.       *)
CivilFromDaysNoEra(days) ==
  LET z   == days + 719468
      doe == z % 146097
      yoe == (doe - doe \div 1460 + doe \div 36524) \div 365
      doy == doe - (365 * yoe + yoe \div 4 - yoe \div 100)
      mp  == (5 * doy + 2) \div 153
      m   == IF mp < 10 THEN mp + 3 ELSE mp - 9
  IN [year  |-> yoe + (z \div 146097) * 400 + (IF m <= 2 THEN 1 ELSE 0),
      month |-> m,
      day   |-> doy - (153 * mp + 2) \div 5 + 1]

(* civil_from_days().                                                      *)
CivilFromDays(days) ==
  LET z   == days + 719468
      doe == z % 146097
      yoe == (doe - doe \div 1460 + doe \div 36524 - doe \div 146096) \div 365
      doy == doe - (365 * yoe + yoe \div 4 - yoe \div 100)
      mp  == (5 * doy + 2) \div 153
      m   == IF mp < 10 THEN mp + 3 ELSE mp - 9
  IN [year  |-> yoe + (z \div 146097) * 400 + (IF m <= 2 THEN 1 ELSE 0),
      month |-> m,
      day   |-> doy - (153 * mp + 2) \div 5 + 1]

(* decode_mf_time(); a raw time of 24 hours or more keeps its hours.       *)
DecodeTime(raw) ==
  LET total == raw \div 100 IN
  [hund |-> raw % 100, sec |-> total % 60,
   min  |-> (total \div 60) % 60, hour |-> total \div 3600]

(***************************************************************************)
(* time_convert.h.                                                         *)
(***************************************************************************)

(* date_to_epoch_days().                                                   *)
EpochDays(d) == IF Plausible(d) THEN DaysFromCivil(d) ELSE NoDay

(* Mutant of EpochTime: the hours wrap at noon.                            *)
EpochTimeHalf(d, t) ==
  IF ~Plausible(d) THEN NoDay ELSE
  LET ofDay == (((t.hour % 12) * 60 + t.min) * 60 + t.sec) * 100 + t.hund IN
  [day |-> DaysFromCivil(d) + ofDay \div 8640000, hund |-> ofDay % 8640000]

(* datetime_to_epoch_us(), in hundredths.                                  *)
EpochTime(d, t) ==
  IF ~Plausible(d) THEN NoDay ELSE
  LET ofDay == ((t.hour * 60 + t.min) * 60 + t.sec) * 100 + t.hund IN
  [day |-> DaysFromCivil(d) + ofDay \div 8640000, hund |-> ofDay % 8640000]

(* The directories and the file date of make_path().                       *)
Directory(day) == IF day = NoDay THEN NoDay ELSE CivilFromDays(day)

(* partition_day(), the two columns of append_n() and the path, for one    *)
(* header.                                                                 *)
StoredUnder(dt, tm) ==
  LET d == DecodeDate(PackedToInt(dt)) IN
  [key |-> EpochDays(d), ts |-> EpochTime(d, DecodeTime(tm)), dir |-> Directory(EpochDays(d))]

(***************************************************************************)
(* A stream of records: one of any header comes first, and a record of the *)
(* next day may follow a record of a day of the calendar.                  *)
(***************************************************************************)

YearOf(dt) == PackedToInt(dt) \div 1000
DayOf(dt)  == PackedToInt(dt) % 1000

YearLength(year) == IF Leap(year) THEN 366 ELSE 365

(* The header date is a day of the calendar.                               *)
OnCalendar(dt) ==
  PackedToInt(dt) > 0 /\ YearOf(dt) \in 1970..9999 /\ DayOf(dt) \in 1..YearLength(YearOf(dt))

(* What int64_to_packed() would write, the sign being C.                   *)
Packed(n) ==
  << (n \div 1000000) % 10, (n \div 100000) % 10, (n \div 10000) % 10,
     (n \div 1000) % 10, (n \div 100) % 10, (n \div 10) % 10, n % 10, 12 >>

Following(dt) ==
  IF DayOf(dt) < YearLength(YearOf(dt)) THEN Packed(PackedToInt(dt) + 1)
                                        ELSE Packed(1000 * (YearOf(dt) + 1) + 1)

DatesInit ==
  /\ date \in HeaderDates
  /\ time \in HeaderTimes
  /\ row = StoredUnder(date, time)

NextDay ==
  /\ OnCalendar(date)
  /\ date' = Following(date)
  /\ time' \in HeaderTimes
  /\ row' = StoredUnder(date', time')

DatesSpec == DatesInit /\ [][NextDay]_dvars

(***************************************************************************)
(* Properties.                                                             *)
(***************************************************************************)

(* The days from 1970-01-01 to day yday of a year, counting leap years.    *)
LeapsBefore(year) ==
  LET y == year - 1 IN y \div 4 - y \div 100 + y \div 400
DayNumber(year, yday) ==
  365 * (year - 1970) + LeapsBefore(year) - LeapsBefore(1970) + yday - 1

(* A day of the calendar is partitioned under its own number, and the      *)
(* directory and the file name, computed back from that number, are the    *)
(* date of the header: the two conversions are inverse to each other.      *)
FiledUnderItsDay ==
  OnCalendar(date) =>
    /\ row.key = DayNumber(YearOf(date), DayOf(date))
    /\ row.dir.year = YearOf(date)
    /\ row.dir = DecodeDate(PackedToInt(date))

(* A header date outside the calendar has no day, or it is counted on the  *)
(* last day of its own year: it never lands on another day.                *)
OffCalendarIsMarked ==
  ~OnCalendar(date) =>
    \/ row = [key |-> NoDay, ts |-> NoDay, dir |-> NoDay]
    \/ row.dir = [year |-> YearOf(date), month |-> 12, day |-> 31]

(* The timestamp column and the partition agree: the timestamp of a row    *)
(* lies in the day of its directory, at the time of the header.            *)
TimeInItsDay ==
  row.key # NoDay /\ time < 8640000 => row.ts = [day |-> row.key, hund |-> time]
=============================================================================
