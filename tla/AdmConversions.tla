--------------------------- MODULE AdmConversions ---------------------------
(***************************************************************************)
(* The conversions of os that work at the edges of their types: a D32U to  *)
(* text and back (adm_D32Utoa, adm_atoD32U), text to an unsigned long      *)
(* (adm_strtoul), and seconds since 1970 to a date                         *)
(* (adm_time_from_timestamp).  A behaviour is one call, or a number that   *)
(* is printed and parsed again; a step is one pass of a loop.              *)
(*                                                                         *)
(* A character is its value as a digit of base 36, without regard to case, *)
(* or one of three codes beyond; a text ends where the NUL is.  White      *)
(* space before the number, which only adm_strtoul skips, is left out.     *)
(***************************************************************************)
EXTENDS Integers, Sequences

CONSTANTS
  Width,      \* hexadecimal digits of an unsigned number: 8 in a D32U
  Number,     \* the numbers that are printed
  Text,       \* the texts that are parsed
  Radix,      \* the radices adm_strtoul is called with; a radix is a D8U
  YearValues, \* values of the D16U that counts the years: 65536
  Timestamp   \* the seconds that are converted, as <<days, seconds of the day>>

\* How many numbers n hexadecimal digits can write.
HexValues[n \in 0 .. Width] == IF n = 0 THEN 1 ELSE 16 * HexValues[n - 1]

SECOND_OF_DAY == 86400

MaxUnsigned == HexValues[Width] - 1

ASSUME ConversionsAssumption ==
  /\ Width \in Nat \ {0}
  /\ Number \subseteq 0 .. MaxUnsigned
  /\ Radix \subseteq 0 .. 255
  /\ YearValues \in Nat /\ YearValues > 1970
  /\ Timestamp \subseteq Nat \X (0 .. SECOND_OF_DAY - 1)

X == 33   \* 'x' as a digit
Plus  == 36
Minus == 37
NUL   == 39
Character == 0 .. 38   \* 38: any other character

ASSUME TextAssumption == Text \subseteq Seq(Character)

VARIABLES
  pc,     \* the loop that is running
  call,   \* what was asked for: function, number (or days), radix (or seconds)
  text,   \* the text that is parsed, or that was printed
  at,     \* the place of the next character
  val,    \* myVal, acc; what is left of the value or of the days
  count,  \* digitsParsed; any; the number of digits to print
  base, neg,
  ok,     \* *outIsSuccess
  year, month,
  time    \* hour, minute, second

date == <<year, month, time>>
vars == <<pc, call, text, at, val, count, base, neg, ok, date>>

Init ==
  /\ pc = "idle" /\ call = [fn |-> "none", number |-> 0, with |-> 0]
  /\ text = <<>> /\ at = 1 /\ val = 0 /\ count = 0 /\ base = 10 /\ neg = FALSE
  /\ ok = FALSE /\ year = 1970 /\ month = 1 /\ time = <<0, 0, 0>>

Char(i) == IF i \in DOMAIN text THEN text[i] ELSE NUL
Radix10or16(radix) == IF radix = 16 THEN 16 ELSE 10

\* val * base + c would exceed the type.
Overflows(c) ==
  \/ val > MaxUnsigned \div base
  \/ val = MaxUnsigned \div base /\ c > MaxUnsigned % base

-----------------------------------------------------------------------------
(* adm_D32Utoa *)

Utoa(v, radix) ==
  /\ pc' = "count"
  /\ call' = [fn |-> "utoa", number |-> v, with |-> radix]
  /\ val' = v /\ base' = Radix10or16(radix)
  /\ UNCHANGED <<text, at, count, neg, ok, date>>

\* Faulty: the loop looks before it counts.
CountDigitFirstLooks ==
  /\ pc = "count"
  /\ IF val = 0
     THEN pc' = "write" /\ val' = call.number /\ count' = count
     ELSE pc' = pc /\ val' = val \div base /\ count' = count + 1
  /\ UNCHANGED <<call, text, at, base, neg, ok, date>>

CountDigit ==
  /\ pc = "count"
  /\ count' = count + 1
  /\ IF val \div base = 0
     THEN pc' = "write" /\ val' = call.number
     ELSE pc' = pc /\ val' = val \div base
  /\ UNCHANGED <<call, text, at, base, neg, ok, date>>

\* The digits are written from the last to the first.
WriteDigit ==
  /\ pc = "write" /\ count > 0
  /\ text' = <<val % base>> \o text
  /\ val' = val \div base /\ count' = count - 1
  /\ UNCHANGED <<pc, call, at, base, neg, ok, date>>

Printed ==
  /\ pc = "write" /\ count = 0
  /\ pc' = "printed"
  /\ UNCHANGED <<call, text, at, val, count, base, neg, ok, date>>

-----------------------------------------------------------------------------
(* adm_atoD32U *)

\* A radix other than 10 is taken for 16, with or without 0x in front.
BeginAtou(s, radix) ==
  LET b == IF radix = 10 THEN 10 ELSE 16 IN
  /\ pc' = "atou" /\ text' = s /\ base' = b
  /\ at' = IF b = 16 /\ Len(s) > 1 /\ s[1] = 0 /\ s[2] = X THEN 3 ELSE 1
  /\ val' = 0 /\ count' = 0
  /\ UNCHANGED <<neg, ok, date>>

Atou(s, radix) ==
  /\ BeginAtou(s, radix)
  /\ call' = [fn |-> "atou", number |-> 0, with |-> radix]

\* The text that adm_D32Utoa wrote is parsed again.
AtouPrinted ==
  /\ pc = "printed" /\ BeginAtou(text, Radix10or16(call.with))
  /\ call' = [call EXCEPT !.fn = "again"]

\* Faulty: the last digit is not looked at when the value is at the limit.
TakesLimit(c) ==
  IF base = 10 THEN c < 10 /\ val <= MaxUnsigned \div 10
  ELSE c < 16 /\ count < Width

\* Another digit is taken: the value will still fit, or, in base 16, the text
\* has no more digits than the type.
Takes(c) ==
  IF base = 10
  THEN c < 10 /\ ~ Overflows(c)
  ELSE c < 16 /\ count < Width

AtouDigit ==
  /\ pc = "atou" /\ Takes(Char(at))
  /\ val' = val * base + Char(at)
  /\ at' = at + 1 /\ count' = count + 1
  /\ UNCHANGED <<pc, call, text, base, neg, ok, date>>

\* Success only at the end of the text, and after a digit.
AtouEnds ==
  /\ pc = "atou" /\ ~ Takes(Char(at))
  /\ pc' = "done"
  /\ ok' = (count > 0 /\ Char(at) = NUL)
  /\ UNCHANGED <<call, text, at, val, count, base, neg, date>>

-----------------------------------------------------------------------------
(* adm_strtoul *)

\* A sign, 0x for the radices 0 and 16, and the base that radix 0 stands for.
Strtoul(s, radix) ==
  LET Of(i)    == IF i \in DOMAIN s THEN s[i] ELSE NUL
      signed   == Of(1) \in {Plus, Minus}
      first    == IF signed THEN 2 ELSE 1
      prefixed == radix \in {0, 16} /\ Of(first) = 0 /\ Of(first + 1) = X
  IN
  /\ pc' = "strtoul"
  /\ call' = [fn |-> "strtoul", number |-> 0, with |-> radix]
  /\ text' = s /\ neg' = (Of(1) = Minus)
  /\ at' = IF prefixed THEN first + 2 ELSE first
  /\ base' = IF prefixed THEN 16
             ELSE IF radix = 0 THEN (IF Of(first) = 0 THEN 8 ELSE 10)
             ELSE radix
  /\ val' = 0 /\ count' = 0
  /\ UNCHANGED <<ok, date>>

\* Only 0 to 9 and A to Z are digits, however large the base.
Digit(c, b) == c < 36 /\ c < b

\* Faulty: a number that was too large may fit again.
StrtoulDigitForgets ==
  /\ pc = "strtoul" /\ Digit(Char(at), base)
  /\ IF Overflows(Char(at))
     THEN count' = -1 /\ val' = val
     ELSE count' = 1 /\ val' = val * base + Char(at)
  /\ at' = at + 1
  /\ UNCHANGED <<pc, call, text, base, neg, ok, date>>

\* Once the number is too large its other digits are only skipped.
StrtoulDigit ==
  /\ pc = "strtoul" /\ Digit(Char(at), base)
  /\ IF count < 0 \/ Overflows(Char(at))
     THEN count' = -1 /\ val' = val
     ELSE count' = 1 /\ val' = val * base + Char(at)
  /\ at' = at + 1
  /\ UNCHANGED <<pc, call, text, base, neg, ok, date>>

\* *ioEndString is left at the beginning when there was no digit.
StrtoulEnds ==
  /\ pc = "strtoul" /\ ~ Digit(Char(at), base)
  /\ pc' = "done"
  /\ ok' = (count >= 0)
  /\ val' = IF count < 0 THEN MaxUnsigned ELSE IF neg THEN (- val) % (MaxUnsigned + 1) ELSE val
  /\ at' = IF count = 0 THEN 1 ELSE at
  /\ UNCHANGED <<call, text, count, base, neg, date>>

-----------------------------------------------------------------------------
(* adm_time_from_timestamp: year, month and val + 1 are the date *)

Leap(y) == (y % 4 = 0 /\ y % 100 # 0) \/ y % 400 = 0
DayOfMon == <<31, 28, 31, 30, 31, 30, 31, 31, 30, 31, 30, 31>>
MonthLength(y, m) == IF m = 2 /\ Leap(y) THEN 29 ELSE DayOfMon[m]

Date(days, sec) ==
  /\ pc' = "year"
  /\ call' = [fn |-> "date", number |-> days, with |-> sec]
  /\ val' = days
  /\ UNCHANGED <<text, at, count, base, neg, ok, date>>

\* The year after, in the width of the counter.
YearAfter(y) == (y + 1) % YearValues

YearPasses ==
  /\ pc = "year" /\ val > 365
  /\ val' = val - (IF Leap(year) THEN 366 ELSE 365)
  /\ year' = YearAfter(year)
  /\ UNCHANGED <<pc, call, text, at, count, base, neg, ok, month, time>>

\* Faulty: 365 days are taken for a day of a common year.
YearFoundTooSoon ==
  /\ pc = "year" /\ val <= 365
  /\ pc' = "month"
  /\ UNCHANGED <<call, text, at, val, count, base, neg, ok, date>>

\* 365 days are the last day of a leap year, or a common year that is over.
YearFound ==
  /\ pc = "year" /\ val <= 365
  /\ pc' = "month"
  /\ IF val = 365 /\ ~ Leap(year) THEN val' = 0 /\ year' = YearAfter(year)
     ELSE UNCHANGED <<val, year>>
  /\ UNCHANGED <<call, text, at, count, base, neg, ok, month, time>>

MonthPasses ==
  /\ pc = "month" /\ month <= 12 /\ val >= MonthLength(year, month)
  /\ val' = val - MonthLength(year, month) /\ month' = month + 1
  /\ UNCHANGED <<pc, call, text, at, count, base, neg, ok, year, time>>

MonthFound ==
  /\ pc = "month" /\ (month > 12 \/ val < MonthLength(year, month))
  /\ pc' = "done"
  /\ LET sec == call.with
     IN  time' = <<(sec \div 3600 + 8) % 24, (sec % 3600) \div 60, sec % 60>>
  /\ UNCHANGED <<call, text, at, val, count, base, neg, ok, year, month>>

-----------------------------------------------------------------------------
\* Every call is the first of its behaviour.
Begin ==
  \/ \E v \in Number, radix \in {10, 16} : Utoa(v, radix)
  \/ \E s \in Text, radix \in {10, 16} : Atou(s, radix)
  \/ \E s \in Text, radix \in Radix : Strtoul(s, radix)
  \/ \E ts \in Timestamp : Date(ts[1], ts[2])

Next ==
  \/ pc = "idle" /\ Begin
  \/ CountDigit \/ WriteDigit \/ Printed \/ AtouPrinted
  \/ AtouDigit \/ AtouEnds
  \/ StrtoulDigit \/ StrtoulEnds
  \/ YearPasses \/ YearFound \/ MonthPasses \/ MonthFound

Spec == Init /\ [][Next]_vars

-----------------------------------------------------------------------------
(* Properties *)

Done(fns) == pc = "done" /\ call.fn \in fns

\* Type invariant.  The accumulators are nowhere cut to the width of their
\* type: that they do not exceed it is what the tests before a digit is taken
\* are for.
TypeOK ==
  /\ pc \in {"idle", "count", "write", "printed", "atou", "strtoul", "year", "month", "done"}
  /\ call.fn \in {"none", "utoa", "again", "atou", "strtoul", "date"}
  /\ call.number \in Nat /\ call.with \in Nat
  /\ text \in Seq(Character) /\ at \in Nat \ {0}
  /\ val \in Nat /\ (call.fn # "date" => val <= MaxUnsigned)
  /\ count \in Int /\ base \in 1 .. 255 /\ neg \in BOOLEAN /\ ok \in BOOLEAN
  /\ year \in 0 .. YearValues - 1 /\ month \in 1 .. 13
  /\ time \in (0 .. 23) \X (0 .. 59) \X (0 .. 59)

\* What digits mean in a base.
Denotes(digits, b) ==
  LET value[i \in 0 .. Len(digits)] ==
        IF i = 0 THEN 0 ELSE value[i - 1] * b + digits[i]
  IN  value[Len(digits)]

\* A number is printed without a leading zero, and is the number that
\* parsing the text gives.
RoundTrip ==
  /\ pc = "printed" => /\ text # <<>> /\ (Len(text) > 1 => text[1] # 0)
                       /\ Denotes(text, base) = call.number
  /\ Done({"again"}) => ok /\ val = call.number

From(i)  == SubSeq(text, i, Len(text))
Prefixed == Char(1) = 0 /\ Char(2) = X

\* The digits, in a base, that a text begins with.
Leading(s, b) ==
  SubSeq(s, 1, CHOOSE n \in 0 .. Len(s) :
                 /\ \A i \in 1 .. n : Digit(s[i], b)
                 /\ n < Len(s) => ~ Digit(s[n + 1], b))

\* adm_atoD32U succeeds for the texts that are nothing but a number that fits
\* (in base 16: of no more digits than the type), and gives that number.
\* adm_strtoul takes the longest number the text begins with, gives the
\* largest when that does not fit, and succeeds otherwise.
ParsesWhatFits ==
  /\ Done({"atou"}) =>
       LET body == From(IF base = 16 /\ Prefixed THEN 3 ELSE 1)
           n    == Denotes(body, base)
       IN  /\ ok <=> /\ body # <<>> /\ Leading(body, base) = body
                     /\ IF base = 16 THEN Len(body) <= Width ELSE n <= MaxUnsigned
           /\ ok => val = n
  /\ Done({"strtoul"}) =>
       LET bare   == From(IF Char(1) \in {Plus, Minus} THEN 2 ELSE 1)
           hex    == call.with \in {0, 16} /\ Len(bare) > 1 /\ bare[1] = 0 /\ bare[2] = X
           digits == Leading(IF hex THEN SubSeq(bare, 3, Len(bare)) ELSE bare, base)
           n      == Denotes(digits, base)
       IN  /\ ok <=> n <= MaxUnsigned
           /\ val = IF n > MaxUnsigned THEN MaxUnsigned
                     ELSE IF neg THEN (MaxUnsigned + 1 - n) % (MaxUnsigned + 1) ELSE n
           /\ digits = <<>> <=> at = 1

\* The days from 1970 to the first of January of a year, and to the first of
\* a month.
DaysToYear(y) ==
  365 * (y - 1970) + ((y - 1) \div 4 - (y - 1) \div 100 + (y - 1) \div 400) - 477
DaysToMonth(y, m) ==
  DaysToYear(y) + <<0, 31, 59, 90, 120, 151, 181, 212, 243, 273, 304, 334>>[m]
                + (IF m > 2 /\ Leap(y) THEN 1 ELSE 0)

\* The days in which the counter of the years goes round once.
Cycle == DaysToYear(YearValues) - DaysToYear(0)

\* The counter has gone round n times, and would not have done so before its
\* last year was over.
Rounds(n) ==
  /\ DaysToMonth(year, month) + val + n * Cycle = call.number
  /\ n > 0 => call.number >= DaysToYear(YearValues)

\* The date exists, and is as many days after 1970 as the timestamp, for every
\* day of the years the counter has values for; after that it is the date so
\* many whole rounds of the counter before.  The time of day is eight hours
\* ahead of the timestamp's, but the date does not go with it: in the last
\* eight hours of a day it is that of the day before.
DateExact ==
  Done({"date"}) =>
    /\ month \in 1 .. 12 /\ val < MonthLength(year, month)
    /\ \E n \in 0 .. call.number : Rounds(n)
    /\ (3600 * (time[1] + 16) + 60 * time[2] + time[3]) % SECOND_OF_DAY = call.with
=============================================================================
