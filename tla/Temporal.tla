------------------------------ MODULE Temporal ------------------------------
(* Dates, times and durations: how the functions of the query language      *)
(* build, select, shift, compare and truncate them.                         *)
(*                                                                          *)
(* Time is counted in ticks.  A second has Kilo milliseconds of Kilo        *)
(* microseconds of Kilo ticks, where the code has 1000 at each level.  A    *)
(* user's map is a function from the field names it gives; a text is the    *)
(* fields it spells.  The calendar library knows the years up to MaxYear,   *)
(* beyond which the code counts days itself.                                *)
EXTENDS Integers, Sequences, SequencesExt

CONSTANTS
  Kilo,     \* the step from one sub-second unit to the next
  MaxYear,  \* the last year the calendar library represents
  Forward,  \* the day at 02:00 of which the named zone goes from +1h to +2h
  Backward  \* the day at 03:00 of which it goes back

Milli  == Kilo * Kilo
Second == Kilo * Milli
Minute == 60 * Second
Hour   == 60 * Minute
Day    == 24 * Hour
DaySeconds == 86400

Abs(n) == IF n < 0 THEN -n ELSE n
Lower(a, b) == IF a < b THEN a ELSE b
Upper(a, b) == IF a < b THEN b ELSE a
Trunc(a, b) == IF a < 0 THEN -((-a) \div b) ELSE a \div b  \* division toward zero
Rem(a, b)   == a - b * Trunc(a, b)
Round(a, b) == IF a < 0 THEN -((2 * (-a) + b) \div (2 * b)) ELSE (2 * a + b) \div (2 * b)

-----------------------------------------------------------------------------
(* The calendar library.                                                   *)

is_leap(y) == (y % 4 = 0 /\ y % 100 # 0) \/ y % 400 = 0
days_in_month(y, m) ==
  CASE m \in {1, 3, 5, 7, 8, 10, 12} -> 31
    [] m = 2 -> IF is_leap(y) THEN 29 ELSE 28
    [] OTHER -> 30

Ymd(y, m, d) == [y |-> y, m |-> m, d |-> d]
NoDate == Ymd(0, 0, 0)

from_ymd_opt(y, m, d) ==
  IF Abs(y) <= MaxYear /\ m \in 1 .. 12 /\ d \in 1 .. days_in_month(y, m) THEN Ymd(y, m, d) ELSE NoDate

MonthStarts(y) ==
  [m \in 1 .. 13 |-> <<0, 31, 59, 90, 120, 151, 181, 212, 243, 273, 304, 334, 365>>[m]
                     + IF m > 2 /\ is_leap(y) THEN 1 ELSE 0]
YearStart(y) == 365 * (y - 1970) + (y - 1) \div 4 - (y - 1) \div 100 + (y - 1) \div 400 - 477

Ordinal(date)   == MonthStarts(date.y)[date.m] + date.d
DayNumber(date) == YearStart(date.y) + Ordinal(date) - 1

FromOrdinal(y, o) ==
  LET of(starts) == CHOOSE date \in {Ymd(y, m, o - starts[m]) : m \in 1 .. 12} :
                      starts[date.m] < o /\ o <= starts[date.m + 1]
  IN  of(MonthStarts(y))

from_yo_opt(y, o) == IF o \in 1 .. MonthStarts(y)[13] THEN FromOrdinal(y, o) ELSE NoDate

DateOf(n) ==
  LET near == IF n < 0 THEN (1969 + n \div 365) .. (1971 + n \div 366) ELSE (1969 + n \div 366) .. (1971 + n \div 365)
      in(y) == FromOrdinal(y, n - YearStart(y) + 1)
  IN  in(CHOOSE y \in near : YearStart(y) <= n /\ n < YearStart(y + 1))

Plus(date, days) == DateOf(DayNumber(date) + days)
Weekday(date) == ((DayNumber(date) + 3) % 7) + 1

\* The Monday of the week that holds the fourth of January.
WeekOne(y) == LET fourth == Ymd(y, 1, 4) IN DayNumber(fourth) - Weekday(fourth) + 1

iso_week(date) ==
  LET weeks(n, y) == [year |-> y, week |-> (n - WeekOne(y)) \div 7 + 1]
      of(n) == weeks(n, CHOOSE y \in (date.y - 1) .. (date.y + 1) : WeekOne(y) <= n /\ n < WeekOne(y + 1))
  IN  of(DayNumber(date))

from_isoywd_opt(y, week, day) ==
  IF week >= 1 /\ WeekOne(y) + 7 * (week - 1) < WeekOne(y + 1)
  THEN DateOf(WeekOne(y) + 7 * (week - 1) + day - 1) ELSE NoDate

-----------------------------------------------------------------------------
(* Dates.                                                                  *)

Gives(map, keys) == keys \subseteq DOMAIN map
Field(map, k, default) == IF k \in DOMAIN map THEN map[k] ELSE default

day_of_quarter(date) == DayNumber(date) - DayNumber(Ymd(date.y, 3 * ((date.m - 1) \div 3) + 1, 1)) + 1

DateFields(date) ==
  LET of(iso) ==
        [year |-> date.y, month |-> date.m, day |-> date.d, quarter |-> (date.m - 1) \div 3 + 1,
         dayOfWeek |-> Weekday(date), dayOfQuarter |-> day_of_quarter(date), ordinalDay |-> Ordinal(date),
         week |-> iso.week, weekYear |-> iso.year, epochDays |-> DayNumber(date)]
  IN  of(iso_week(date))

num_to_weekday(n) == IF n \in 1 .. 7 THEN n ELSE 0

WeekDate(y, week, day) ==
  IF num_to_weekday(day) = 0 THEN NoDate ELSE from_isoywd_opt(y, week, num_to_weekday(day))
QuarterDate(y, quarter, day) ==
  LET start == from_ymd_opt(y, 3 * (quarter - 1) + 1, 1)
  IN  IF start = NoDate THEN NoDate ELSE Plus(start, day - 1)

naive_date_from_map(map) ==
  CASE Gives(map, {"year", "month", "day"}) -> from_ymd_opt(map.year, map.month, map.day)
    [] Gives(map, {"year", "ordinalDay"}) -> from_yo_opt(map.year, map.ordinalDay)
    [] Gives(map, {"year", "week"}) -> WeekDate(map.year, map.week, Field(map, "dayOfWeek", 1))
    [] Gives(map, {"year", "quarter"}) -> QuarterDate(map.year, map.quarter, Field(map, "dayOfQuarter", 1))
    [] Gives(map, {"year"}) -> from_ymd_opt(map.year, Field(map, "month", 1), Field(map, "day", 1))
    [] OTHER -> NoDate

\* The fields a selection keeps are those of the kind of date it overrides.
apply_date_overrides(base, map) ==
  LET year == Field(map, "year", base.y)
  IN  CASE Gives(map, {"week"}) ->
             WeekDate(Field(map, "year", iso_week(base).year), map.week, Field(map, "dayOfWeek", Weekday(base)))
        [] Gives(map, {"quarter"}) ->
             QuarterDate(year, map.quarter, Field(map, "dayOfQuarter", day_of_quarter(base)))
        [] Gives(map, {"ordinalDay"}) -> from_yo_opt(year, map.ordinalDay)
        [] OTHER -> from_ymd_opt(year, Field(map, "month", base.m), Field(map, "day", base.d))

\* A text spells a date in one of these shapes, told apart by its length, its
\* dashes and its W.
DateShapes ==
  [Y |-> {"year"}, YM |-> {"year", "month"}, YMD |-> {"year", "month", "day"},
   YW |-> {"year", "week"}, YWD |-> {"year", "week", "dayOfWeek"}, YO |-> {"year", "ordinalDay"}]

naive_date_from_str(text) ==
  CASE text.shape \in {"Y", "YM", "YMD"} ->
         from_ymd_opt(text.f.year, Field(text.f, "month", 1), Field(text.f, "day", 1))
    [] text.shape \in {"YW", "YWD"} -> from_isoywd_opt(text.f.year, text.f.week, Field(text.f, "dayOfWeek", 1))
    [] text.shape = "YO" -> from_yo_opt(text.f.year, text.f.ordinalDay)
    [] OTHER -> NoDate

-----------------------------------------------------------------------------
(* Dates beyond the library.                                               *)

is_leap_civil(y) == is_leap(y)
days_in_month_civil(y, m) == days_in_month(y, m)

days_from_civil(year, m, d) ==
  LET y   == IF m <= 2 THEN year - 1 ELSE year
      era == Trunc(IF y >= 0 THEN y ELSE y - 399, 400)
      yoe == y - 400 * era
      doy == (153 * ((m + 9) % 12) + 2) \div 5 + d - 1
      doe == yoe * 365 + yoe \div 4 - yoe \div 100 + doy
  IN  146097 * era + doe - 719468

CivilFields(date) ==
  LET n == days_from_civil(date.y, date.m, date.d)
      ordinal == n - days_from_civil(date.y, 1, 1) + 1
  IN  [year |-> date.y, month |-> date.m, day |-> date.d, quarter |-> (date.m - 1) \div 3 + 1,
       dayOfWeek |-> ((Rem(n, 7) + 10) % 7) + 1,
       dayOfQuarter |-> n - days_from_civil(date.y, 3 * ((date.m - 1) \div 3) + 1, 1) + 1,
       ordinalDay |-> ordinal, week |-> (ordinal + 6) \div 7, weekYear |-> date.y, epochDays |-> n]

parse_civil_datetime(text) ==
  IF /\ text.shape = "YMD" /\ text.f.month \in 1 .. 12
     /\ text.f.day \in 1 .. days_in_month_civil(text.f.year, text.f.month)
  THEN Ymd(text.f.year, text.f.month, text.f.day) ELSE NoDate

-----------------------------------------------------------------------------
(* Times of day.                                                           *)

NoTime == -1

from_hms_nano_opt(h, m, s, ns) ==
  IF h \in 0 .. 23 /\ m \in 0 .. 59 /\ s \in 0 .. 59 /\ ns \in 0 .. (Second - 1)
  THEN h * Hour + m * Minute + s * Second + ns ELSE NoTime

TimeFields(t) == [hour |-> t \div Hour, minute |-> (t % Hour) \div Minute, second |-> (t % Minute) \div Second]
SubSecond(t) == t % Second

SubFields(map) == Field(map, "nanosecond", 0) + Kilo * Field(map, "microsecond", 0) + Milli * Field(map, "millisecond", 0)

obj_to_naive_time_checked(map) ==
  from_hms_nano_opt(Field(map, "hour", 0), Field(map, "minute", 0), Field(map, "second", 0), SubFields(map))

\* A field below the second replaces its own part of the sub-second.
apply_time_field_overrides(t, map) ==
  LET f    == TimeFields(t)
      base == SubSecond(t)
      sub  == IF DOMAIN map \cap {"millisecond", "microsecond", "nanosecond"} = {} THEN base
              ELSE Milli * Field(map, "millisecond", base \div Milli)
                   + Kilo * Field(map, "microsecond", (base \div Kilo) % Kilo)
                   + Field(map, "nanosecond", base % Kilo)
      got  == from_hms_nano_opt(Field(map, "hour", f.hour), Field(map, "minute", f.minute),
                                Field(map, "second", f.second), sub)
  IN  IF got = NoTime THEN t ELSE got

validate_time_override_ranges(map) ==
  \A k \in DOMAIN map :
    LET limit == [hour |-> 24, minute |-> 60, second |-> 60,
                  millisecond |-> Kilo, microsecond |-> Milli, nanosecond |-> Second]
    IN  k \in DOMAIN limit => map[k] \in 0 .. (limit[k] - 1)

truncate_time(t, unit) ==
  LET grain == [hour |-> Hour, minute |-> Minute, second |-> Second, millisecond |-> Milli,
                microsecond |-> Kilo, nanosecond |-> 1]
  IN  t - (t % Field(grain, unit, Day))

-----------------------------------------------------------------------------
(* Zones: a number of seconds, a name, or a number with a name behind it.   *)

NoZone == [name |-> "", num |-> FALSE, off |-> 0]
Offset(secs) == [name |-> "", num |-> TRUE, off |-> secs]
Named(name) == [name |-> name, num |-> FALSE, off |-> 0]
Utc == Offset(0)

\* The minutes of an offset that has seconds do not parse.
tz_offset_seconds(zone) ==
  IF ~zone.num THEN 0
  ELSE IF zone.off % 60 = 0 THEN zone.off
  ELSE (IF zone.off < 0 THEN -1 ELSE 1) * (Abs(zone.off) \div 3600) * 3600

normalize_tz(sign, h, m) ==
  IF h > 18 \/ m > 59 THEN NoZone ELSE Offset(sign * (3600 * h + 60 * m))

\* The offset of the named zone at a wall clock: the first of two at the hour
\* that happens twice, none at the hour that does not happen.
offset_from_local_datetime(day, t) ==
  CASE day < Forward \/ (day = Forward /\ t < 2 * Hour) -> 3600
    [] day = Forward /\ t < 3 * Hour -> 0
    [] day < Backward \/ (day = Backward /\ t < 3 * Hour) -> 7200
    [] OTHER -> 3600

IsKnownZone(name) == name = "zone"

resolve_zone(day, t, zone) ==
  IF IsKnownZone(zone.name) THEN [off |-> offset_from_local_datetime(day, t), zone |-> Named(zone.name)]
  ELSE LET off == IF zone.num THEN zone.off ELSE 0 IN [off |-> off, zone |-> Offset(off)]

-----------------------------------------------------------------------------
(* Values.                                                                 *)

Value(ty, date, t, zone, off) == [ty |-> ty, date |-> date, t |-> t, zone |-> zone, off |-> off]
Bad == Value("error", NoDate, 0, NoZone, 0)
NoValue == Value("", NoDate, 0, NoZone, 0)

HasDate(v) == v.ty \in {"Date", "LocalDateTime", "DateTime"}
HasTime(v) == v.ty \in {"LocalTime", "Time"}

date_to_obj(date) == IF date = NoDate THEN Bad ELSE Value("Date", date, 0, NoZone, 0)

time_to_obj(t, zone, ty) ==
  LET given == IF ty = "Time" /\ zone = NoZone THEN Utc ELSE zone
      kept  == IF given.num THEN Offset(given.off) ELSE given
  IN  Value(ty, NoDate, t, kept, tz_offset_seconds(kept))

datetime_to_obj(date, t, zone, ty) ==
  LET given == IF ty = "DateTime" /\ zone = NoZone THEN Utc ELSE zone
      res   == resolve_zone(DayNumber(date), t, given)
  IN  IF given = NoZone THEN Value(ty, date, t, NoZone, 0) ELSE Value(ty, date, t, res.zone, res.off)

\* A day and a tick, with the ticks carried into days.
Carry(day, t) == <<day + t \div Day, t % Day>>
Before(p, q) == p[1] < q[1] \/ (p[1] = q[1] /\ p[2] < q[2])

\* What values of one type are ordered by.
SortKey(v) ==
  CASE v.ty \in {"Time", "LocalTime"} -> <<0, (v.t - v.off * Second) % Day>>
    [] OTHER -> Carry(DayNumber(v.date), v.t - v.off * Second)

obj_to_naive_date(v) == from_ymd_opt(v.date.y, Upper(v.date.m, 1), Upper(v.date.d, 1))
OffsetField(v) == IF v.zone = NoZone THEN NoZone ELSE IF v.ty = "Time" THEN v.zone ELSE Offset(v.off)

\* A user's map: its fields, the values it selects from and the zone it gives.
Map(f, date, time, datetime, tz) == [f |-> f, date |-> date, time |-> time, datetime |-> datetime, tz |-> tz]

\* A zone over a zoned source moves the wall clock, over a local one names it.
select_time_from_map(map) ==
  LET selected == map.time # NoValue
      base == IF selected THEN map.time.t ELSE obj_to_naive_time_checked(map.f)
      zone == IF selected THEN OffsetField(map.time) ELSE map.tz
      t    == IF base = NoTime THEN NoTime ELSE apply_time_field_overrides(base, map.f)
      both == selected /\ map.tz # NoZone /\ zone # NoZone
      shift == IF both THEN tz_offset_seconds(map.tz) - tz_offset_seconds(zone) ELSE 0
  IN  [t |-> IF t = NoTime THEN NoTime ELSE (t + shift * Second) % Day,
       zone |-> IF selected /\ map.tz # NoZone THEN map.tz ELSE zone]

MovedToZone(date, t, zone, tz) ==
  LET shift(n) == IF tz # NoZone /\ zone # NoZone
                  THEN resolve_zone(n, t, tz).off - resolve_zone(n, t, zone).off ELSE 0
      moved(n) == Carry(n, t + shift(n) * Second)
      at(m)    == [date |-> DateOf(m[1]), t |-> m[2], zone |-> IF tz # NoZone THEN tz ELSE zone]
  IN  IF date = NoDate \/ t = NoTime THEN [date |-> NoDate, t |-> NoTime, zone |-> NoZone]
      ELSE at(moved(DayNumber(date)))

select_datetime_from_map(map) ==
  LET from  == IF map.date # NoValue THEN map.date ELSE map.datetime
      clock == IF map.time # NoValue THEN map.time ELSE map.datetime
      date  == IF from = NoValue THEN naive_date_from_map(map.f)
               ELSE apply_date_overrides(obj_to_naive_date(from), map.f)
      t     == IF clock = NoValue THEN obj_to_naive_time_checked(map.f)
               ELSE IF validate_time_override_ranges(map.f) THEN apply_time_field_overrides(clock.t, map.f)
               ELSE NoTime
  IN  MovedToZone(date, t, clock.zone, map.tz)

\* The constructors, from a value of another type, a map or a text.
make_date(arg) ==
  CASE arg.by = "value" -> date_to_obj(obj_to_naive_date(arg.value))
    [] arg.by = "map" ->
         date_to_obj(IF arg.map.date = NoValue THEN naive_date_from_map(arg.map.f)
                     ELSE apply_date_overrides(obj_to_naive_date(arg.map.date), arg.map.f))
    [] arg.by = "text" ->
         LET date == naive_date_from_str(arg.text) IN
         date_to_obj(IF date = NoDate THEN parse_civil_datetime(arg.text) ELSE date)

TimeOf(sel, ty) == IF sel.t = NoTime THEN Bad ELSE time_to_obj(sel.t, IF ty = "Time" THEN sel.zone ELSE NoZone, ty)
make_time(arg, ty) ==
  CASE arg.by = "value" -> TimeOf([t |-> arg.value.t, zone |-> OffsetField(arg.value)], ty)
    [] arg.by = "map"   -> TimeOf(select_time_from_map(arg.map), ty)
    [] arg.by = "text"  -> TimeOf([t |-> arg.text.t, zone |-> arg.text.zone], ty)
make_localtime(arg) == make_time(arg, "LocalTime")

DateTimeOf(sel, ty) ==
  IF sel.date = NoDate THEN Bad
  ELSE datetime_to_obj(sel.date, sel.t, IF ty = "DateTime" THEN sel.zone ELSE NoZone, ty)
make_datetime(arg, ty) ==
  CASE arg.by = "value" ->
         DateTimeOf([date |-> obj_to_naive_date(arg.value), t |-> arg.value.t, zone |-> arg.value.zone], ty)
    [] arg.by = "map" -> DateTimeOf(select_datetime_from_map(arg.map), ty)
    [] arg.by = "text" ->
         LET date == naive_date_from_str(arg.text)
             civil == parse_civil_datetime(arg.text)
         IN  IF date = NoDate /\ ty = "LocalDateTime" /\ civil # NoDate
             THEN Value(ty, civil, arg.text.t, NoZone, 0)
             ELSE DateTimeOf([date |-> date, t |-> arg.text.t, zone |-> arg.text.zone], ty)
make_localdatetime(arg) == make_datetime(arg, "LocalDateTime")

-----------------------------------------------------------------------------
(* Durations: months, days, and seconds with a sub-second never negative.   *)

duration_obj(months, days, secs, ns) ==
  LET total == secs * Second + ns
  IN  [months |-> months, days |-> days, seconds |-> total \div Second, ns |-> total % Second]

Ticks(dur) == dur.seconds * Second + dur.ns
Negated(dur) == duration_obj(-dur.months, -dur.days, -dur.seconds, -dur.ns)

\* The text of a duration: its parts that are not zero, the time as one
\* quantity of one sign.
format_duration(dur) ==
  LET mag  == Abs(Ticks(dur))
      sgn  == IF Ticks(dur) < 0 THEN -1 ELSE 1
      all  == <<<<"Y", Trunc(dur.months, 12)>>, <<"M", Rem(dur.months, 12)>>, <<"D", dur.days>>,
                <<"h", sgn * (mag \div Hour)>>, <<"m", sgn * ((mag % Hour) \div Minute)>>,
                <<"s", sgn * (mag % Minute)>>>>
  IN  SelectSeq(all, LAMBDA part : part[2] # 0)

\* Fractions are counted in parts of Den; a fractional month is passed on to
\* the days by the mean length of a month and a fractional day to the seconds.
AVG_SECONDS_PER_MONTH == 2629746

Cascade(months, days, ticks, Den) ==
  LET m == Trunc(months, Den)
      d == days * DaySeconds + (months - m * Den) * AVG_SECONDS_PER_MONTH
      whole == Trunc(d, DaySeconds * Den)
  IN  [months |-> m, days |-> whole, ticks |-> ticks + (d - whole * DaySeconds * Den) * Second, den |-> Den]

FromTicks(c, total) == duration_obj(c.months, c.days, Trunc(total, Second), Rem(total, Second))

parse_iso_duration(parts, Den) ==
  LET size == [Y |-> 12, M |-> 1, W |-> 7, D |-> 1, h |-> Hour, m |-> Minute, s |-> 1]
      of(units) == FoldLeft(LAMBDA n, p : IF p[1] \in units THEN n + size[p[1]] * p[2] ELSE n, 0, parts)
      c == Cascade(of({"Y", "M"}), of({"W", "D"}), of({"h", "m", "s"}), Den)
  IN  FromTicks(c, Round(c.ticks, Den))

make_duration(map, Den) ==
  LET f(k) == Field(map, k, 0)
      c == Cascade(12 * f("years") + f("months"), 7 * f("weeks") + f("days"),
                   Hour * f("hours") + Minute * f("minutes") + Second * f("seconds"), Den)
  IN  FromTicks(c, Round(c.ticks, Den) + Trunc(Milli * f("milliseconds"), Den)
                   + Trunc(Kilo * f("microseconds"), Den) + Trunc(f("nanoseconds"), Den))

scale_duration(dur, num, den) ==
  LET c == Cascade(dur.months * num, dur.days * num, Ticks(dur) * num, den)
  IN  FromTicks(c, Trunc(c.ticks, den))

DurationPlus(l, r) == duration_obj(l.months + r.months, l.days + r.days, l.seconds + r.seconds, l.ns + r.ns)
DurationMinus(l, r) == duration_obj(l.months - r.months, l.days - r.days, l.seconds - r.seconds, l.ns - r.ns)

temporal_arithmetic(l, r) == duration_obj(0, DayNumber(obj_to_naive_date(l)) - DayNumber(obj_to_naive_date(r)), 0, 0)

\* The day is held to the length of the month it falls in.
add_months_days(date, months, days) ==
  LET total == date.y * 12 + date.m - 1 + months
      y == Trunc(total, 12)
      m == Rem(total, 12) + 1
      at == from_ymd_opt(y, m, Lower(date.d, days_in_month(y, m)))
  IN  Plus(IF at = NoDate THEN date ELSE at, days)

temporal_arithmetic_date_duration(v, dur, sign) ==
  CASE v.ty = "Date" ->
         date_to_obj(add_months_days(v.date, sign * dur.months,
                                     sign * dur.days + Trunc(sign * dur.seconds, DaySeconds)))
    [] HasTime(v) -> time_to_obj((v.t + sign * Ticks(dur)) % Day, v.zone, v.ty)
    [] OTHER ->
         LET date  == add_months_days(v.date, sign * dur.months, sign * dur.days)
             at(moved) == datetime_to_obj(DateOf(moved[1]), moved[2], v.zone, v.ty)
         IN  at(Carry(DayNumber(date), v.t + sign * Ticks(dur)))

-----------------------------------------------------------------------------
(* The time between two values.                                            *)

\* The difference if a month shorter than the day counted as not reached.
MonthDiffUnclamped(from, to) ==
  LET months == (12 * to.y + to.m) - (12 * from.y + from.m)
  IN  IF months >= 0 /\ to.d < from.d THEN months - 1
      ELSE IF months < 0 /\ to.d > from.d THEN months + 1
      ELSE months

\* Whole months, one fewer where the day of the month is not reached.
MonthDiff(from, to) ==
  LET months == (12 * to.y + to.m) - (12 * from.y + from.m)
      clamped == Lower(from.d, days_in_month(to.y, to.m))
  IN  IF months >= 0 /\ to.d < clamped THEN months - 1
      ELSE IF months < 0 /\ to.d > clamped THEN months + 1
      ELSE months
calendar_month_diff(from, to) == MonthDiff(from, to)
civil_month_diff(from, to) == MonthDiff(from, to)

\* A time of day that is not reached borrows a day, and a day that is not
\* there a month.
FullDiff(whole, days, ft, tt) ==
  LET short  == tt < ft
      borrow == short /\ days[whole] < 1
      months == IF borrow THEN whole - 1 ELSE whole
  IN  [months |-> months, days |-> days[months] - (IF short THEN 1 ELSE 0),
       ticks |-> IF short THEN tt + Day - ft ELSE tt - ft]

Signed(diff, sign) ==
  duration_obj(sign * diff.months, sign * diff.days,
               sign * (diff.ticks \div Second), sign * (diff.ticks % Second))

calendar_full_diff(a, at, b, bt) ==
  LET days(from, to, whole) ==
        [m \in {whole - 1, whole} |-> DayNumber(to) - DayNumber(add_months_days(from, m, 0))]
      diff(from, ft, to, tt, sign) ==
        LET of(whole) == Signed(FullDiff(whole, days(from, to, whole), ft, tt), sign) IN of(MonthDiff(from, to))
  IN  IF Before(<<DayNumber(b), bt>>, <<DayNumber(a), at>>)
      THEN diff(b, bt, a, at, -1) ELSE diff(a, at, b, bt, 1)

duration_between_civil(a, b, name) ==
  LET day(date) == days_from_civil(date.y, date.m, date.d)
      held(date, y, m) == days_from_civil(y, m, Lower(date.d, days_in_month_civil(y, m)))
      after(date, months) == held(date, (date.y * 12 + date.m - 1 + months) \div 12, ((date.m - 1 + months) % 12) + 1)
      days(from, to, whole) == [months \in {whole - 1, whole} |-> day(to) - after(from, months)]
      full(from, to, sign) ==
        LET of(whole) == Signed(FullDiff(whole, days(from.date, to.date, whole), from.t, to.t), sign)
        IN  of(civil_month_diff(from.date, to.date))
      gapped(gap) == IF name = "indays" THEN duration_obj(0, gap[1], 0, 0)
                     ELSE duration_obj(0, 0, DaySeconds * gap[1] + gap[2] \div Second, gap[2] % Second)
  IN  CASE name = "inmonths" -> duration_obj(civil_month_diff(a.date, b.date), 0, 0, 0)
        [] name \in {"indays", "inseconds"} -> gapped(Carry(day(b.date) - day(a.date), b.t - a.t))
        [] OTHER -> IF Before(<<day(b.date), b.t>>, <<day(a.date), a.t>>) THEN full(b, a, -1) ELSE full(a, b, 1)

is_extreme_date_obj(v) == HasDate(v) /\ obj_to_naive_date(v) = NoDate
operand_offset_seconds(v) == v.off
IsZoned(v) == v.ty \in {"Time", "DateTime"}

\* A local operand takes the zone of a zoned one, at its own wall clock.
EffectiveOffset(v, other, day) ==
  IF IsZoned(v) THEN operand_offset_seconds(v)
  ELSE IF IsZoned(other) THEN resolve_zone(day, v.t, other.zone).off
  ELSE 0

temporal_duration_between(a, b, name) ==
  LET own(v) == IF HasDate(v) THEN DayNumber(v.date) ELSE 0
      day(v) == IF HasTime(a) \/ HasTime(b)
                THEN IF HasDate(a) THEN own(a) ELSE own(b) ELSE own(v)
      ahead == EffectiveOffset(a, b, day(a)) - EffectiveOffset(b, a, day(b))
      timed(diff) == IF name \in {"inmonths", "indays"} THEN duration_obj(0, 0, 0, 0)
                     ELSE duration_obj(0, 0, Trunc(diff, Second), Rem(diff, Second))
      months(full) == IF name = "inmonths" THEN duration_obj(full.months, 0, 0, 0) ELSE full
      gapped(gap) ==
        IF name = "indays" THEN duration_obj(0, IF gap[1] < 0 /\ gap[2] > 0 THEN gap[1] + 1 ELSE gap[1], 0, 0)
        ELSE duration_obj(0, 0, DaySeconds * gap[1] + gap[2] \div Second, gap[2] % Second)
      dated(moved) ==
        IF name \in {"indays", "inseconds"} THEN gapped(Carry(moved[1] - own(a), moved[2] - a.t))
        ELSE months(calendar_full_diff(a.date, a.t, DateOf(moved[1]), moved[2]))
  IN  CASE HasDate(a) /\ HasDate(b) /\ (is_extreme_date_obj(a) \/ is_extreme_date_obj(b)) ->
             duration_between_civil(a, b, name)
        [] HasTime(a) \/ HasTime(b) -> timed(b.t - a.t + ahead * Second)
        [] OTHER -> dated(Carry(own(b), b.t + ahead * Second))

-----------------------------------------------------------------------------
(* Truncation.                                                             *)

TruncatedDate(date, unit, weekday) ==
  LET years == [millennium |-> 1000, century |-> 100, decade |-> 10, year |-> 1]
  IN  CASE unit \in DOMAIN years -> Ymd(Trunc(date.y, years[unit]) * years[unit], 1, 1)
        [] unit = "quarter"  -> Ymd(date.y, 3 * ((date.m - 1) \div 3) + 1, 1)
        [] unit = "month"    -> Ymd(date.y, date.m, 1)
        [] unit = "weekyear" -> DateOf(WeekOne(iso_week(date).year))
        [] unit = "week"     -> Plus(date, weekday - Weekday(date))
        [] OTHER -> date

TimeUnits == {"hour", "minute", "second", "millisecond", "microsecond", "nanosecond"}

temporal_truncate(ty, unit, v, map, tz) ==
  LET weekday == num_to_weekday(Field(map, "dayOfWeek", 1))
      f     == IF unit = "week" THEN [k \in DOMAIN map \ {"dayOfWeek"} |-> map[k]] ELSE map
      over(cut) == IF unit \in TimeUnits \/ DOMAIN f = {} THEN cut ELSE apply_date_overrides(cut, f)
      t     == apply_time_field_overrides(truncate_time(v.t, unit), map)
      zone  == CASE ty \notin {"Time", "DateTime"} -> NoZone
                 [] tz # NoZone -> tz
                 [] v.zone # NoZone -> v.zone
                 [] OTHER -> Utc
      of(date) ==
        CASE HasTime(v) -> time_to_obj(t, zone, IF ty \in {"Time", "LocalTime"} THEN ty ELSE v.ty)
          [] ty = "Date" \/ date = NoDate -> date_to_obj(date)
          [] ty \in {"Time", "LocalTime"} -> time_to_obj(t, zone, ty)
          [] OTHER -> datetime_to_obj(date, t, zone, ty)
  IN  of(over(TruncatedDate(v.date, unit, IF weekday = 0 THEN 1 ELSE weekday)))

=============================================================================
