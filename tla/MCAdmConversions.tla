-------------------------- MODULE MCAdmConversions --------------------------
(* Two hexadecimal digits: the largest number is 255, as 2^32 - 1 a number  *)
(* that ends in 5 in base 10 and is all Fs in base 16.                      *)
EXTENDS AdmConversions

MCNumber == 0 .. 255

\* 0, 2, 5, 6, F, x, plus, minus, another character.
MCText == UNION {[1 .. n -> {0, 2, 5, 6, 15, X, Plus, Minus, 38}] : n \in 0 .. 4}

\* The four that are used, the least, the last with digits of its own, and one
\* for which every digit is too small.
MCRadix == {0, 1, 2, 8, 10, 16, 36, 200}

\* Every day of 1970 to 2105, at different times of day; the two years after
\* the counter's last; and the days on which it goes round a second time.
MCTimestamp ==
  LET days == (0 .. 50500) \cup (DaysToYear(2106) + Cycle - 2 .. DaysToYear(2106) + Cycle + 2)
  IN  {<<d, (7919 * (d % 1000)) % 86400>> : d \in days}
=============================================================================
