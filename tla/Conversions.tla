---------------------------- MODULE Conversions -----------------------------
(***************************************************************************)
(* Points in time and the types of texts: ISO8601, CivilTime, UnixTime and *)
(* Human.  A UnixTime counts microseconds modulo 2^64; it is written here  *)
(* as [days, ms, us], where a negative number of days stands for a count   *)
(* that has wrapped.  Text is as in Bytes; "now", the long names of units  *)
(* and the other words that the code only compares are single characters.  *)
(***************************************************************************)
EXTENDS Bytes, FiniteSets, TLC

NoTime == [days |-> 0, ms |-> -1, us |-> 0]   \* None<UnixTime>()

MsPerDay == 86400000
UnixTime(days, ms, us) ==
  LET m == ms + (us \div 1000)
  IN [days |-> days + (m \div MsPerDay), ms |-> m % MsPerDay, us |-> us % 1000]

-----------------------------------------------------------------------------
(* ISO8601 *)
IsLeapYear(year) == (year % 4 = 0 /\ year % 100 # 0) \/ year % 400 = 0
DaysInMonth(year, month) ==
  IF month = 2 THEN 28 + (IF IsLeapYear(year) THEN 1 ELSE 0)
  ELSE 31 - (((month - 1) % 7) % 2)

CivilTime == [year |-> 0, month |-> 0, day |-> 0, hour |-> 0, minute |-> 0, second |-> 0,
              millisecond |-> 0, offset |-> 0]
NoCivil == [CivilTime EXCEPT !.year = -1]

(* Are there n digits at p, and what do they say?  The text ends in a NUL, *)
(* which is no digit, so that no digits are found behind its end.          *)
DigitsAt(text, p, n) ==
  /\ p + n - 1 <= Len(text)
  /\ \A i \in p..(p + n - 1) : IsDigit(text[i])
NumberAt(text, p, n) == Number(SubSeq(text, p, p + n - 1))
IsAt(text, p, cs) == p <= Len(text) /\ text[p] \in cs

UpperT == 84
LowerZ == 122
UpperZ == 90

(* parseTimeOffset(): whatever follows the minutes is ignored. *)
ParseTimeOffset(text, p, date) ==
  LET sign == IF text[p] = Plus THEN 1 ELSE -1
      hour == NumberAt(text, p + 1, 2)
      minute == NumberAt(text, p + 4, 2)
  IN CASE p = Len(text) /\ IsAt(text, p, {LowerZ, UpperZ}) -> date
       [] /\ IsAt(text, p, {Plus, Minus})
          /\ DigitsAt(text, p + 1, 2)
          /\ IsAt(text, p + 3, {Colon})
          /\ DigitsAt(text, p + 4, 2)
          /\ hour <= 24 /\ minute <= 59 ->
            [date EXCEPT !.offset = sign * (3600 * hour + 60 * minute)]
       [] OTHER -> NoCivil

(* parseSecondFrac() *)
ParseSecondFrac(text, p, date) ==
  LET len == Len(LeadingDigits(SubSeq(text, p + 1, Len(text))))
      millis == NumberAt(text, p + 1, len) * (CASE len = 1 -> 100 [] len = 2 -> 10 [] OTHER -> 1)
  IN IF ~IsAt(text, p, {Dot}) \/ len \notin 1..3 THEN NoCivil
     ELSE ParseTimeOffset(text, p + 1 + len, [date EXCEPT !.millisecond = millis])

ParseSecond(text, p, date) ==
  LET d == [date EXCEPT !.second = NumberAt(text, p + 1, 2)]
      frac == ParseSecondFrac(text, p + 3, d)
  IN IF ~(IsAt(text, p, {Colon}) /\ DigitsAt(text, p + 1, 2) /\ d.second <= 59) THEN NoCivil
     ELSE IF frac # NoCivil THEN frac
     ELSE ParseTimeOffset(text, p + 3, d)

ParseMinute(text, p, date) ==
  LET d == [date EXCEPT !.minute = NumberAt(text, p + 1, 2)]
  IN IF ~(IsAt(text, p, {Colon}) /\ DigitsAt(text, p + 1, 2) /\ d.minute <= 59) THEN NoCivil
     ELSE ParseSecond(text, p + 3, d)

ParseHour(text, p, date) ==
  LET d == [date EXCEPT !.hour = NumberAt(text, p + 1, 2)]
  IN IF ~(IsAt(text, p, {UpperT, LowerT}) /\ DigitsAt(text, p + 1, 2) /\ d.hour <= 24)
     THEN NoCivil
     ELSE ParseMinute(text, p + 3, d)

(* parseDay(): it compares with the days of the month whose number is the  *)
(* day, so that every day up to the 31st is good in every month.           *)
ParseDay(text, p, date) ==
  LET d == [date EXCEPT !.day = NumberAt(text, p + 1, 2)]
  IN IF \/ ~(IsAt(text, p, {Minus}) /\ DigitsAt(text, p + 1, 2))
        \/ d.day \notin 1..DaysInMonth(date.year, d.day)
     THEN NoCivil
     ELSE IF p + 3 <= Len(text) THEN ParseHour(text, p + 3, d)
     ELSE d

ParseMonth(text, p, date) ==
  LET d == [date EXCEPT !.month = NumberAt(text, p + 1, 2)]
  IN IF ~(IsAt(text, p, {Minus}) /\ DigitsAt(text, p + 1, 2) /\ d.month \in 1..12) THEN NoCivil
     ELSE IF p + 3 <= Len(text) THEN ParseDay(text, p + 3, d)
     ELSE d

(* ISO8601::parse(), with parseYear() *)
ParseISO8601(text) ==
  LET d == [CivilTime EXCEPT !.year = NumberAt(text, 1, 4)]
  IN IF ~DigitsAt(text, 1, 4) THEN NoCivil
     ELSE IF Len(text) > 4 THEN ParseMonth(text, 5, d)
     ELSE d

(* UnixTime::UnixTime(CivilTime): a date without a day is the day before   *)
(* the month begins.                                                       *)
SumOver(f) == FoldLeft(LAMBDA s, x : s + x, 0, f)
FromCivil(c) ==
  UnixTime((c.day - 1)
             + 365 * (IF c.year > 1970 THEN c.year - 1970 ELSE 0)
             + Cardinality({y \in 1970..(c.year - 1) : IsLeapYear(y)})
             + SumOver([i \in 1..(c.month - 1) |-> DaysInMonth(c.year, i)]),
           1000 * (3600 * c.hour + 60 * c.minute + c.second - c.offset) + c.millisecond, 0)
-----------------------------------------------------------------------------
(* Human *)
NowWord == 259
UnitWords(u) == (260 + 10 * u)..(264 + 10 * u)
SecondUnit == {<<115>>} \cup {<<w>> : w \in UnitWords(0)}   \* "s", "sec", "secs", ...
MinuteUnit == {<<109>>} \cup {<<w>> : w \in UnitWords(1)}
HourUnit == {<<104>>} \cup {<<w>> : w \in UnitWords(2)}
DayUnit == {<<100>>} \cup {<<w>> : w \in UnitWords(3)}
WeekUnit == {<<119>>} \cup {<<w>> : w \in UnitWords(4)}
YearUnit == {<<121>>} \cup {<<w>> : w \in UnitWords(5)}

(* parseDuration(): the duration as days and milliseconds *)
ParseDuration(text) ==
  LET digits == LeadingDigits(text)
      n == Number(digits)
      suffix == SubSeq(text, Len(digits) + 1, Len(text))
      D(days, ms) == [days |-> days, ms |-> ms, us |-> 0]
  IN CASE suffix \in SecondUnit -> D(0, 1000 * n)
       [] suffix \in MinuteUnit -> D(0, 60000 * n)
       [] suffix \in HourUnit -> D(0, 3600000 * n)
       [] suffix \in DayUnit -> D(n, 0)
       [] suffix \in WeekUnit -> D(7 * n, 0)
       [] suffix \in YearUnit -> D(365 * n, 0)
       [] OTHER -> NoTime

(* A number of microseconds as a UnixTime, digit by digit *)
MicrosOf(digits) ==
  FoldLeft(LAMBDA t, d : UnixTime(10 * t.days, 10 * t.ms, 10 * t.us + d - Zero),
           UnixTime(0, 0, 0), digits)
Zeros(n) == [i \in 1..n |-> Zero]
Significant(digits) == SubSeq(digits, FirstOf(digits, 1, (Zero + 1)..Nine), Len(digits))

(* The raw timestamp: seconds below 3 * 10^10, milliseconds below          *)
(* 3 * 10^13, else microseconds; the bounds themselves are refused.        *)
RawTime(text) ==
  LET n == Significant(text)
      Below(zeros) == Len(n) < zeros + 1 \/ (Len(n) = zeros + 1 /\ n[1] < Zero + 3)
      Bound(zeros) == n = <<Zero + 3>> \o Zeros(zeros)
  IN CASE Bound(10) \/ Bound(13) -> NoTime
       [] Below(10) -> MicrosOf(n \o Zeros(6))
       [] Below(13) -> MicrosOf(n \o Zeros(3))
       [] OTHER -> MicrosOf(n)

IsDigitString(text) == \A i \in 1..Len(text) : IsDigit(text[i])

(* parseTime().  An empty text is a digit string that std::stoull() does   *)
(* not take.                                                               *)
ParseTime(text, now) ==
  LET offset == ParseDuration(Tail(text))
      civil == ParseISO8601(text)
      raw == RawTime(text)
  IN CASE text = <<NowWord>> -> now
       [] Len(text) > 1 /\ text[1] = Minus /\ IsDigit(text[2]) /\ offset # NoTime ->
            UnixTime(now.days - offset.days, now.ms - offset.ms, now.us)
       [] text # <<>> /\ IsDigitString(text) /\ raw # NoTime -> raw
       [] civil # NoCivil -> FromCivil(civil)
       [] OTHER -> NoTime

(* parseBoolean(), isNullOrEmpty() *)
YesTexts == {<<LowerT, 114, 117, 101>>, <<84, 82, 85, 69>>, <<121, 101, 115>>, <<89, 69, 83>>}
NoTexts == {<<102, 97, 108, 115, 101>>, <<70, 65, 76, 83, 69>>, <<LowerN, 111>>, <<78, 79>>}
ParseBoolean(text) ==
  CASE text \in YesTexts -> "true" [] text \in NoTexts -> "false" [] OTHER -> "none"
IsNullOrEmpty(text) ==
  text \in {<<>>, <<LowerN, 117, 108, 108>>, <<78, 85, 76, 76>>}

(* StringUtil::isNumber(): its first loop refuses the point that it would  *)
(* skip behind it, and the empty text is a number.                         *)
IsNumber(text) ==
  LET from == IF text # <<>> /\ text[1] = Minus THEN 2 ELSE 1
  IN \A i \in from..Len(text) : IsDigit(text[i])

(* UTF8::isValidUTF8(): it is content with the first ASCII character, and  *)
(* a byte that starts no character makes it loop for ever.                 *)
SequenceLength(c) ==
  CASE c < 128 \/ c > 255 -> 1
    [] c \in 192..223 -> 2
    [] c \in 224..239 -> 3
    [] c \in 240..247 -> 4
    [] c \in 248..251 -> 5
    [] c \in 252..253 -> 6
    [] OTHER -> 0
RECURSIVE IsValidUTF8(_, _)
IsValidUTF8(text, p) ==
  LET n == SequenceLength(text[p])
  IN CASE p > Len(text) -> "valid"
       [] n = 1 -> "valid"
       [] n = 0 -> "loops"
       [] p + n - 1 > Len(text) -> "invalid"
       [] OTHER -> IsValidUTF8(text, p + n)

(* A HumanDataType; the nullable form of a type is a type of its own. *)
Type(base) == [base |-> base, nullable |-> FALSE]
Nullable(base) == [base |-> base, nullable |-> TRUE]
UNKNOWN == Type("UNKNOWN")
TEXT == Type("TEXT")
BINARY == Type("BINARY")
NULL_OR_EMPTY == Type("NULL_OR_EMPTY")
NumberTypes == <<"UNSIGNED_INTEGER", "SIGNED_INTEGER", "FLOAT">>
Rank(base) == CHOOSE i \in 1..3 : NumberTypes[i] = base

(* detectDataType() *)
DetectDataType(text, now) ==
  LET utf8 == IsValidUTF8(text, 1)
  IN CASE IsNumber(text) ->
            Type(IF FirstOf(text, 1, {Dot, Comma}) <= Len(text) THEN "FLOAT"
                 ELSE IF text # <<>> /\ text[1] = Minus THEN "SIGNED_INTEGER"
                 ELSE "UNSIGNED_INTEGER")
       [] IsNullOrEmpty(text) -> NULL_OR_EMPTY
       [] ParseBoolean(text) # "none" -> Type("BOOLEAN")
       [] ParseTime(text, now) # NoTime -> Type("DATETIME")
       [] utf8 = "valid" -> TEXT
       [] utf8 = "invalid" -> BINARY
       [] OTHER -> Type("LOOPS")

(* Two types of numbers: the wider one, nullable if the column is *)
Widen(base, prev) ==
  [prev EXCEPT !.base = NumberTypes[IF Rank(base) > Rank(prev.base) THEN Rank(base)
                                    ELSE Rank(prev.base)]]

(* detectDataTypeSeries(), for a value of the type *)
DetectDataTypeSeries(type, prev) ==
  LET IsNumberType(t) == t.base \in {NumberTypes[i] : i \in 1..3}
  IN CASE prev = BINARY -> prev
       [] type = prev \/ prev = UNKNOWN -> type
       [] type \in {TEXT, BINARY, Type("LOOPS")} -> type
       [] type = NULL_OR_EMPTY -> IF prev = TEXT THEN TEXT ELSE Nullable(prev.base)
       [] prev = NULL_OR_EMPTY -> Nullable(type.base)
       [] IsNumberType(type) /\ IsNumberType(prev) -> Widen(type.base, prev)
       [] prev = Nullable(type.base) -> prev
       [] OTHER -> TEXT

-----------------------------------------------------------------------------
(***************************************************************************)
(* A calendar runs day by day next to the number of days since 1970, and   *)
(* every day is written in the forms that Human::parseTime() takes.        *)
(***************************************************************************)

CONSTANTS
  FirstDays,   \* the days at which the calendar may start, [year, month, day, count]
  MaxDays,     \* how many days it runs
  Clocks       \* times of a day, [text, ms]: the text behind the date, and the
               \*   milliseconds since midnight UTC that it stands for

VARIABLES
  today,       \* [year, month, day]
  count,       \* the days since 1970-01-01
  left         \* the days that the calendar still runs

calendarVars == <<today, count, left>>

(* The Gregorian calendar, as it is taught *)
MonthLength(year, month) ==
  CASE month \in {4, 6, 9, 11} -> 30
    [] month # 2 -> 31
    [] year \in {1900, 2100, 2200} -> 28
    [] year % 4 = 0 -> 29
    [] OTHER -> 28

CalendarInit ==
  /\ \E d \in FirstDays :
       /\ today = [year |-> d.year, month |-> d.month, day |-> d.day]
       /\ count = d.count
  /\ left = MaxDays

NextDay ==
  /\ left > 0
  /\ left' = left - 1
  /\ count' = count + 1
  /\ today' = CASE today.day < MonthLength(today.year, today.month) ->
                     [today EXCEPT !.day = @ + 1]
                [] today.month < 12 -> [today EXCEPT !.day = 1, !.month = @ + 1]
                [] OTHER -> [year |-> today.year + 1, month |-> 1, day |-> 1]

TwoDigits(n) == <<Zero + (n \div 10), Zero + (n % 10)>>
DateText(d) ==
  Decimal(d.year) \o <<Minus>> \o TwoDigits(d.month) \o <<Minus>> \o TwoDigits(d.day)

(* A date, with a time of the day and the offset of a time zone or         *)
(* without, is the instant that the calendar says; the number of its       *)
(* seconds, of its milliseconds and of its microseconds since 1970 is the  *)
(* same instant (Human::parseTime, UnixTime::UnixTime), for the years in   *)
(* which its rule for raw timestamps can tell them apart.                  *)
DatesRight ==
  LET instant == UnixTime(count, 0, 0)
      now == UnixTime(0, 0, 0)
      Raw(zeros) == ParseTime(Decimal(count * 864) \o Zeros(zeros), now)
      weekAgo == ParseTime(<<Minus, Zero + 7, 100>>, instant)
  IN /\ ParseTime(DateText(today), now) = instant
     /\ \A c \in Clocks :
          ParseTime(DateText(today) \o c.text, now) = UnixTime(count, c.ms, 0)
     /\ Raw(2) = instant
     /\ count > 347 => Raw(5) = instant /\ Raw(8) = instant
     /\ weekAgo = UnixTime(count - 7, 0, 0)

-----------------------------------------------------------------------------
(***************************************************************************)
(* UTF8 and Base64, as loops over their input: a string of code points is  *)
(* encoded one by one and decoded again by the loop of                     *)
(* StringUtil::convertUTF8To16(), and bytes are encoded in groups of three *)
(* and decoded in groups of four.                                          *)
(***************************************************************************)

CONSTANTS
  CodePoints,    \* the strings of code points to encode
  Binaries       \* the byte strings to encode

VARIABLES
  form,          \* "utf8" or "base64"
  phase,         \* "encode", "decode", "done", "raised"
  plain,         \* the string
  taken,         \* how much of it has been encoded
  coded,         \* the bytes or characters that it is encoded to
  cur,           \* how many of these have been decoded
  back           \* what they are decoded to

codecVars == <<form, phase, plain, taken, coded, cur, back>>

Pow2 == <<2, 4, 8, 16, 32, 64, 128, 256, 512, 1024, 2048, 4096, 8192, 16384, 32768, 65536,
          131072, 262144, 524288, 1048576, 2097152>>
Shift(n, bits) == IF bits = 0 THEN n ELSE n \div Pow2[bits]
Continued(n, bits) == 128 + (Shift(n, bits) % 64)

(* encodeCodepoint(), for the code points below 2^21 that there are *)
EncodeCodepoint(c) ==
  CASE c < 128 -> <<c>>
    [] c < 2048 -> <<192 + (Shift(c, 6) % 32), Continued(c, 0)>>
    [] c < 65536 -> <<224 + (Shift(c, 12) % 16), Continued(c, 6), Continued(c, 0)>>
    [] OTHER -> <<240 + (Shift(c, 18) % 8), Continued(c, 12), Continued(c, 6), Continued(c, 0)>>

(* nextCodepoint() at p: [v, pos]; 0 at the end, and -1 if it raises *)
NextCodepoint(text, p) ==
  LET b == text[p]
      Low(i) == text[p + i] % 64
  IN CASE p > Len(text) -> [v |-> 0, pos |-> p]
       [] b < 128 -> [v |-> b, pos |-> p + 1]
       [] b \in 192..223 /\ p + 1 <= Len(text) -> [v |-> (b % 32) * 64 + Low(1), pos |-> p + 2]
       [] b \in 224..239 /\ p + 2 <= Len(text) ->
            [v |-> (b % 16) * 4096 + Low(1) * 64 + Low(2), pos |-> p + 3]
       [] b \in 240..247 /\ p + 3 <= Len(text) ->
            [v |-> (b % 8) * 262144 + Low(1) * 4096 + Low(2) * 64 + Low(3), pos |-> p + 4]
       [] OTHER -> [v |-> -1, pos |-> p]

(* Base64; a character of the alphabet is its index, the padding is 64.    *)
Padding == 64

(* Mutant of Quad: the second character loses the high bits of a byte. *)
QuadClipped(a, b, c) == <<a \div 4, (a % 4) * 16, (b % 16) * 4 + (c \div 64), c % 64>>

(* Three bytes as four characters *)
Quad(a, b, c) == <<a \div 4, (a % 4) * 16 + (b \div 16), (b % 16) * 4 + (c \div 64), c % 64>>

(* encode() from byte i on: as long as three bytes are left, else the rest *)
EncodeGroup(data, i) ==
  LET n == Len(data) - i + 1
      quad == Quad(data[i], IF n > 1 THEN data[i + 1] ELSE 0, IF n > 2 THEN data[i + 2] ELSE 0)
  IN [j \in 1..4 |-> IF j <= n + 1 THEN quad[j] ELSE Padding]

(* decode() from character i on, where the text ends at its first padding *)
DecodeGroup(text, i) ==
  LET n == (FirstOf(text, 1, {Padding}) - 1) - i + 1
      bytes == <<text[i] * 4 + (text[i + 1] \div 16),
                 ((text[i + 1] % 16) * 16) + (text[i + 2] \div 4),
                 ((text[i + 2] % 4) * 64) + text[i + 3]>>
  IN [j \in 1..((IF n > 4 THEN 4 ELSE n) - 1) |-> bytes[j]]
-----------------------------------------------------------------------------
CodecInit ==
  /\ \/ form = "utf8" /\ plain \in CodePoints
     \/ form = "base64" /\ plain \in Binaries
  /\ phase = "encode" /\ taken = 0 /\ coded = <<>> /\ cur = 0 /\ back = <<>>

EncodeNext ==
  /\ phase = "encode"
  /\ IF taken >= Len(plain) THEN phase' = "decode" /\ UNCHANGED <<taken, coded>>
     ELSE /\ coded' = coded \o (IF form = "utf8" THEN EncodeCodepoint(plain[taken + 1])
                                ELSE EncodeGroup(plain, taken + 1))
          /\ taken' = taken + (IF form = "utf8" THEN 1 ELSE 3)
          /\ UNCHANGED phase
  /\ UNCHANGED <<form, plain, cur, back>>

(* A code point 0 ends the string, as its end does. *)
DecodeUTF8 ==
  /\ phase = "decode" /\ form = "utf8"
  /\ \E r \in {NextCodepoint(coded, cur + 1)} :
       /\ cur' = r.pos - 1
       /\ back' = IF r.v > 0 THEN Append(back, r.v) ELSE back
       /\ phase' = CASE r.v > 0 -> phase [] r.v = 0 -> "done" [] OTHER -> "raised"
  /\ UNCHANGED <<form, plain, taken, coded>>

DecodeBase64 ==
  /\ phase = "decode" /\ form = "base64"
  /\ IF cur >= FirstOf(coded, 1, {Padding}) - 1 THEN phase' = "done" /\ UNCHANGED <<cur, back>>
     ELSE cur' = cur + 4 /\ back' = back \o DecodeGroup(coded, cur + 1) /\ UNCHANGED phase
  /\ UNCHANGED <<form, plain, taken, coded>>

CodecNext == EncodeNext \/ DecodeUTF8 \/ DecodeBase64
-----------------------------------------------------------------------------
(* What has been decoded is always the beginning of what was encoded, and  *)
(* at the end it is all of it, or all before a code point 0 (UTF8, Base64).*)
CodecsInverse ==
  /\ phase # "raised"
  /\ IsPrefix(back, plain)
  /\ phase = "done" => Len(back) = Len(plain) \/ plain[Len(back) + 1] = 0
=============================================================================
