SPECIFICATION Spec
CONSTANTS
  Width = 2
  Number <- MCNumber
  Text <- MCText
  Radix <- MCRadix
  YearValues = 2106
  Timestamp <- MCTimestamp
INVARIANTS
  TypeOK
  RoundTrip
  ParsesWhatFits
  DateExact
CHECK_DEADLOCK FALSE
