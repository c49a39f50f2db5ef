------------------------ MODULE AdmConversionsProofs ------------------------
(* What AdmConversions promises, for numbers of any width and for every text *)
(* and timestamp.                                                            *)
EXTENDS AdmConversions, WellFoundedInduction, TLAPS
-----------------------------------------------------------------------------
(* Induction, for sets and functions instead of operators *)

LEMMA LeastNumber ==
  ASSUME NEW T \in SUBSET Nat, T # {} PROVE \E x \in T : \A y \in T : x <= y
<1>1. \E x \in T : \A y \in T : ~ (<<y, x>> \in OpToRel(<, Nat))
  BY NatLessThanWellFounded, WFMin
<1>2. \A x, y \in T : ~ (<<y, x>> \in OpToRel(<, Nat)) => x <= y
  BY DEF OpToRel
<1> QED BY <1>1, <1>2

LEMMA SetInduction ==
  ASSUME NEW T, 0 \in T, \A n \in Nat : n \in T => n + 1 \in T
  PROVE  \A n \in Nat : n \in T
<1> SUFFICES ASSUME Nat \ T # {} PROVE FALSE
  OBVIOUS
<1>1. PICK m \in Nat \ T : \A k \in Nat \ T : m <= k
  BY LeastNumber
<1>2. m # 0 /\ m - 1 \in Nat /\ (m - 1) + 1 = m /\ ~ (m <= m - 1)
  OBVIOUS
<1>3. m - 1 \in T
  BY <1>1, <1>2
<1> QED BY <1>1, <1>2, <1>3

\* f is what F makes of b along 1 .. N.
Recurs(f, N, F, b) == f[0] = b /\ \A i \in 1 .. N : f[i] = F[<<f[i - 1], i>>]

\* A function may be defined by recursion along 0 .. N.
LEMMA Recursion ==
  ASSUME NEW S, NEW N \in Nat, NEW F \in [S \X (1 .. N) -> S], NEW b \in S
  PROVE  \E f \in [0 .. N -> S] : Recurs(f, N, F, b)
<1> USE DEF Recurs
<1> DEFINE Good(n, f) == Recurs(f, n, F, b)
           T == {n \in Nat : n <= N => \E f \in [0 .. n -> S] : Good(n, f)}
<1>1. 0 \in T
  <2>1. Good(0, [i \in 0 .. 0 |-> b])
    OBVIOUS
  <2>2. [i \in 0 .. 0 |-> b] \in [0 .. 0 -> S]
    OBVIOUS
  <2> HIDE DEF Good
  <2> QED BY <2>1, <2>2
<1>2. ASSUME NEW n \in Nat, n \in T PROVE n + 1 \in T
  <2> SUFFICES ASSUME n + 1 <= N PROVE \E f \in [0 .. n + 1 -> S] : Good(n + 1, f)
    OBVIOUS
  <2>1. PICK f \in [0 .. n -> S] : Good(n, f)
    BY <1>2
  <2>2. f[n] \in S /\ n + 1 \in 1 .. N
    OBVIOUS
  <2> DEFINE g == [i \in 0 .. n + 1 |-> IF i = n + 1 THEN F[<<f[n], n + 1>>] ELSE f[i]]
  <2>3. g \in [0 .. n + 1 -> S]
    BY <2>2
  <2>4. /\ \A i \in 0 .. n : g[i] = f[i]
        /\ g[n + 1] = F[<<f[n], n + 1>>]
    OBVIOUS
  <2> HIDE DEF g
  <2>5. Good(n + 1, g)
    BY <2>1, <2>4
  <2> HIDE DEF Good
  <2> QED BY <2>3, <2>5
<1>3. N \in T
  <2> HIDE DEF T
  <2> QED BY <1>1, <1>2, SetInduction
<1> QED BY <1>3

-----------------------------------------------------------------------------
(* What digits denote *)

\* f gives the value of every beginning of s, read after the number n.
Reads(f, n, s, b) ==
  /\ f \in [0 .. Len(s) -> Nat]
  /\ f[0] = n
  /\ \A i \in 1 .. Len(s) : f[i] = f[i - 1] * b + s[i]

LEMMA ReadingExists ==
  ASSUME NEW n \in Nat, NEW s \in Seq(Nat), NEW b \in Nat
  PROVE  \E f : Reads(f, n, s, b)
<1> DEFINE N == Len(s)
           F == [p \in Nat \X (1 .. N) |-> p[1] * b + s[p[2]]]
<1>1. N \in Nat /\ \A i \in 1 .. N : s[i] \in Nat
  OBVIOUS
<1> HIDE DEF N
<1>2. F \in [Nat \X (1 .. N) -> Nat]
  <2>1. ASSUME NEW m \in Nat, NEW i \in 1 .. N PROVE m * b + s[i] \in Nat
    <3>1. m * b \in Nat
      OBVIOUS
    <3> QED BY <1>1, <3>1
  <2> QED BY <2>1
<1>3. PICK f \in [0 .. N -> Nat] : Recurs(f, N, F, n)
  <2> HIDE DEF F
  <2> QED BY <1>1, <1>2, Recursion
<1>4. \A i \in 1 .. N : f[i] = f[i - 1] * b + s[i]
  <2> TAKE i \in 1 .. N
  <2>1. i - 1 \in 0 .. N
    BY <1>1
  <2>2. <<f[i - 1], i>> \in Nat \X (1 .. N)
    BY <2>1
  <2> QED BY <1>3, <2>2 DEF Recurs
<1>5. f[0] = n
  BY <1>3 DEF Recurs
<1> QED BY <1>3, <1>4, <1>5 DEF Reads, N

LEMMA ReadingUnique ==
  ASSUME NEW n \in Nat, NEW s \in Seq(Nat), NEW b \in Nat,
         NEW f, Reads(f, n, s, b), NEW g, g[0] = n,
         \A i \in 1 .. Len(s) : g[i] = g[i - 1] * b + s[i]
  PROVE  \A i \in 0 .. Len(s) : g[i] = f[i]
<1> DEFINE T == {i \in Nat : i <= Len(s) => g[i] = f[i]}
<1>1. 0 \in T
  BY DEF Reads
<1>2. ASSUME NEW i \in Nat, i \in T PROVE i + 1 \in T
  <2> SUFFICES ASSUME i + 1 <= Len(s) PROVE g[i + 1] = f[i + 1]
    OBVIOUS
  <2>1. i + 1 \in 1 .. Len(s) /\ (i + 1) - 1 = i /\ g[i] = f[i]
    BY <1>2
  <2>2. g[i + 1] = g[i] * b + s[i + 1] /\ f[i + 1] = f[i] * b + s[i + 1]
    BY <2>1 DEF Reads
  <2> QED BY <2>1, <2>2
<1>3. \A i \in Nat : i \in T
  <2> HIDE DEF T
  <2> QED BY <1>1, <1>2, SetInduction
<1> QED BY <1>3

LEMMA DenotesReading ==
  ASSUME NEW s \in Seq(Nat), NEW b \in Nat, NEW f, Reads(f, 0, s, b)
  PROVE  Denotes(s, b) = f[Len(s)]
<1> DEFINE L(v) == [i \in 0 .. Len(s) |-> IF i = 0 THEN 0 ELSE v[i - 1] * b + s[i]]
           V == CHOOSE v : v = L(v)
<1>1. Denotes(s, b) = V[Len(s)]
  BY DEF Denotes
<1>2. f = L(f)
  BY DEF Reads
<1>3. V = L(V)
  <2> HIDE DEF L
  <2> QED BY <1>2
<1>4. V[0] = 0 /\ \A i \in 1 .. Len(s) : V[i] = V[i - 1] * b + s[i]
  <2> HIDE DEF V
  <2>1. Len(s) \in Nat
    OBVIOUS
  <2> QED BY <1>3, <2>1
<1> HIDE DEF V
<1> QED BY <1>1, <1>4, ReadingUnique

\* One more digit.
LEMMA DenotesNext ==
  ASSUME NEW s \in Seq(Nat), NEW b \in Nat
  PROVE  /\ Denotes(SubSeq(s, 1, 0), b) = 0
         /\ \A i \in 0 .. Len(s) : Denotes(SubSeq(s, 1, i), b) \in Nat
         /\ \A i \in 0 .. Len(s) - 1 :
              Denotes(SubSeq(s, 1, i + 1), b) = Denotes(SubSeq(s, 1, i), b) * b + s[i + 1]
<1>1. PICK f : Reads(f, 0, s, b)
  BY ReadingExists
<1>2. ASSUME NEW i \in 0 .. Len(s) PROVE Denotes(SubSeq(s, 1, i), b) = f[i]
  <2>1. /\ SubSeq(s, 1, i) \in Seq(Nat) /\ Len(SubSeq(s, 1, i)) = i
        /\ \A j \in 1 .. i : SubSeq(s, 1, i)[j] = s[j]
    OBVIOUS
  <2> DEFINE p == SubSeq(s, 1, i)
             g == [j \in 0 .. i |-> f[j]]
  <2> HIDE DEF p
  <2>2. Reads(g, 0, p, b)
    <3>1. Len(p) = i /\ \A j \in 1 .. i : p[j] = s[j]
      BY <2>1 DEF p
    <3>2. /\ f \in [0 .. Len(s) -> Nat] /\ f[0] = 0
          /\ \A j \in 1 .. Len(s) : f[j] = f[j - 1] * b + s[j]
      BY <1>1 DEF Reads
    <3>3. i \in Nat /\ i <= Len(s) /\ Len(s) \in Nat
      OBVIOUS
    <3>4. g \in [0 .. i -> Nat] /\ g[0] = 0
      BY <3>2, <3>3
    <3>5. ASSUME NEW j \in 1 .. i PROVE g[j] = g[j - 1] * b + p[j]
      <4>1. j \in 1 .. Len(s) /\ j \in 0 .. i /\ j - 1 \in 0 .. i
        BY <3>3
      <4>2. g[j] = f[j] /\ g[j - 1] = f[j - 1] /\ p[j] = s[j]
        BY <3>1, <4>1
      <4> QED BY <3>2, <4>1, <4>2
    <3> HIDE DEF g
    <3> QED BY <3>1, <3>4, <3>5 DEF Reads
  <2>3. Denotes(p, b) = g[i]
    <3> HIDE DEF g
    <3> QED BY <2>1, <2>2, DenotesReading DEF p
  <2> QED BY <2>3 DEF p
<1>3. Len(s) \in Nat
  OBVIOUS
<1>4. Denotes(SubSeq(s, 1, 0), b) = 0
  BY <1>1, <1>2, <1>3 DEF Reads
<1>5. \A i \in 0 .. Len(s) : Denotes(SubSeq(s, 1, i), b) \in Nat
  BY <1>1, <1>2, <1>3 DEF Reads
<1>6. ASSUME NEW i \in 0 .. Len(s) - 1
      PROVE  Denotes(SubSeq(s, 1, i + 1), b) = Denotes(SubSeq(s, 1, i), b) * b + s[i + 1]
  <2>1. /\ i + 1 \in 1 .. Len(s) /\ (i + 1) - 1 = i
        /\ i \in 0 .. Len(s) /\ i + 1 \in 0 .. Len(s)
    BY <1>3
  <2>2. f[i + 1] = f[i] * b + s[i + 1]
    BY <1>1, <2>1 DEF Reads
  <2> QED BY <1>2, <2>1, <2>2
<1> QED BY <1>4, <1>5, <1>6
-----------------------------------------------------------------------------
(* The limits of the types *)

LEMMA HexValuesFacts ==
  /\ \A i \in 0 .. Width : HexValues[i] \in Nat \ {0}
  /\ HexValues[0] = 1
  /\ \A i \in 0 .. Width - 1 : HexValues[i + 1] = 16 * HexValues[i]
  /\ \A i \in 0 .. Width : HexValues[i] <= HexValues[Width]
<1> DEFINE L(v) == [i \in 0 .. Width |-> IF i = 0 THEN 1 ELSE 16 * v[i - 1]]
           F == [p \in Nat \X (1 .. Width) |-> 16 * p[1]]
<1>1. Width \in Nat \ {0}
  BY ConversionsAssumption
<1>2. F \in [Nat \X (1 .. Width) -> Nat]
  OBVIOUS
<1>3. PICK f \in [0 .. Width -> Nat] : Recurs(f, Width, F, 1)
  <2> HIDE DEF F
  <2> QED BY <1>1, <1>2, Recursion
<1>4. f = L(f)
  <2>1. f[0] = 1
    BY <1>3 DEF Recurs
  <2>2. ASSUME NEW i \in 1 .. Width PROVE f[i] = 16 * f[i - 1]
    <3>1. i - 1 \in 0 .. Width
      BY <1>1
    <3>2. <<f[i - 1], i>> \in Nat \X (1 .. Width)
      BY <3>1
    <3> QED BY <1>3, <3>2 DEF Recurs
  <2> QED BY <1>1, <1>3, <2>1, <2>2
<1>5. HexValues = L(HexValues)
  <2>1. HexValues = CHOOSE v : v = L(v)
    BY DEF HexValues
  <2> HIDE DEF L
  <2> QED BY <1>4, <2>1
<1> HIDE DEF L
<1>6. HexValues[0] = 1 /\ \A i \in 1 .. Width : HexValues[i] = 16 * HexValues[i - 1]
  <2>1. PICK v : v = HexValues
    OBVIOUS
  <2>2. v = L(v)
    BY <1>5, <2>1
  <2>3. v[0] = 1 /\ \A i \in 1 .. Width : v[i] = 16 * v[i - 1]
    <3>1. \A i \in 0 .. Width : v[i] = L(v)[i]
      BY <2>2
    <3>2. \A w : \A i \in 0 .. Width : L(w)[i] = IF i = 0 THEN 1 ELSE 16 * w[i - 1]
      BY DEF L
    <3>3. 0 \in 0 .. Width /\ \A i \in 1 .. Width : i \in 0 .. Width /\ i # 0
      BY <1>1
    <3> QED BY <3>1, <3>2, <3>3
  <2> QED BY <2>1, <2>3
<1>7. \A i \in 0 .. Width : HexValues[i] \in Nat \ {0}
  <2> DEFINE T == {i \in Nat : i <= Width => HexValues[i] \in Nat \ {0}}
  <2>1. 0 \in T
    BY <1>6
  <2>2. ASSUME NEW i \in Nat, i \in T PROVE i + 1 \in T
    <3> SUFFICES ASSUME i + 1 <= Width PROVE HexValues[i + 1] \in Nat \ {0}
      OBVIOUS
    <3>1. i + 1 \in 1 .. Width /\ (i + 1) - 1 = i /\ HexValues[i] \in Nat \ {0}
      BY <1>1, <2>2
    <3>2. HexValues[i + 1] = 16 * HexValues[i]
      BY <1>6, <3>1
    <3> QED BY <3>1, <3>2
  <2>3. \A i \in Nat : i \in T
    <3> HIDE DEF T
    <3> QED BY <2>1, <2>2, SetInduction
  <2> QED BY <2>3
<1>8. ASSUME NEW i \in 0 .. Width - 1 PROVE HexValues[i + 1] = 16 * HexValues[i]
  <2>1. i + 1 \in 1 .. Width /\ (i + 1) - 1 = i
    BY <1>1
  <2> QED BY <1>6, <2>1
<1>9. \A i \in 0 .. Width : HexValues[i] <= HexValues[Width]
  <2> DEFINE T == {k \in Nat : k <= Width => HexValues[Width - k] <= HexValues[Width]}
  <2>1. 0 \in T
    BY <1>1, <1>7
  <2>2. ASSUME NEW k \in Nat, k \in T PROVE k + 1 \in T
    <3> SUFFICES ASSUME k + 1 <= Width PROVE HexValues[Width - (k + 1)] <= HexValues[Width]
      OBVIOUS
    <3>1. /\ Width - (k + 1) \in 0 .. Width - 1 /\ (Width - (k + 1)) + 1 = Width - k
          /\ Width \in 0 .. Width /\ Width - (k + 1) \in 0 .. Width
      BY <1>1
    <3>2. HexValues[Width - k] <= HexValues[Width]
      BY <1>1, <2>2
    <3>3. HexValues[Width - k] = 16 * HexValues[Width - (k + 1)]
      BY <1>8, <3>1
    <3> QED BY <1>7, <3>1, <3>2, <3>3
  <2>3. \A k \in Nat : k \in T
    <3> HIDE DEF T
    <3> QED BY <2>1, <2>2, SetInduction
  <2>4. ASSUME NEW i \in 0 .. Width PROVE HexValues[i] <= HexValues[Width]
    <3>1. Width - i \in Nat /\ Width - i <= Width /\ Width - (Width - i) = i
      BY <1>1
    <3> QED BY <2>3, <3>1
  <2> QED BY <2>4
<1> QED BY <1>6, <1>7, <1>8, <1>9

LEMMA MaxUnsignedFacts == MaxUnsigned \in Nat /\ HexValues[Width] = MaxUnsigned + 1
<1>1. Width \in 0 .. Width
  BY ConversionsAssumption
<1>2. HexValues[Width] \in Nat \ {0}
  BY <1>1, HexValuesFacts
<1> QED BY <1>2 DEF MaxUnsigned

\* The test before another digit is taken is exact.
LEMMA OverflowExact ==
  ASSUME NEW c \in Nat, val \in Nat, base \in 1 .. 255, c < base
  PROVE  Overflows(c) <=> val * base + c > MaxUnsigned
<1> DEFINE q == MaxUnsigned \div base
           r == MaxUnsigned % base
<1>1. /\ q \in Nat /\ r \in Nat /\ r < base
      /\ MaxUnsigned = q * base + r
  <2>1. \A m \in Nat, b \in 1 .. 255 :
          m \div b \in Nat /\ m % b \in Nat /\ m % b < b /\ m = b * (m \div b) + (m % b)
    BY SMT
  <2> QED BY <2>1, MaxUnsignedFacts
<1>2. Overflows(c) <=> val > q \/ (val = q /\ c > r)
  BY DEF Overflows
<1>3. MaxUnsigned \in Nat
  BY MaxUnsignedFacts
<1> HIDE DEF q, r
<1>4. \A x, y, b \in Nat : x > y => x * b >= y * b + b
  <2>1. \A x, y, b \in Nat : (x + y) * b = x * b + y * b /\ x * b \in Nat /\ (x > 0 => x * b >= b)
    BY SMT
  <2> TAKE x, y, b \in Nat
  <2> SUFFICES ASSUME x > y PROVE x * b >= y * b + b
    OBVIOUS
  <2>2. x - y \in Nat /\ x - y > 0 /\ (x - y) + y = x
    OBVIOUS
  <2>3. x * b = (x - y) * b + y * b /\ (x - y) * b >= b /\ (x - y) * b \in Nat /\ y * b \in Nat
    BY <2>1, <2>2
  <2> QED BY <2>3
<1>5. base \in Nat /\ val * base \in Nat /\ q * base \in Nat
  BY <1>1
<1>6. CASE val > q
  <2>1. val * base >= q * base + base
    BY <1>1, <1>4, <1>5, <1>6
  <2> QED BY <1>1, <1>2, <1>3, <1>5, <1>6, <2>1
<1>7. CASE val = q
  BY <1>1, <1>2, <1>3, <1>5, <1>7
<1>8. CASE q > val
  <2>1. q * base >= val * base + base
    BY <1>1, <1>4, <1>5, <1>8
  <2> QED BY <1>1, <1>2, <1>3, <1>5, <1>8, <2>1
<1> QED BY <1>1, <1>6, <1>7, <1>8

LEMMA Negation ==
  ASSUME NEW n \in 0 .. MaxUnsigned
  PROVE  /\ (- n) % (MaxUnsigned + 1) \in 0 .. MaxUnsigned
         /\ (- n) % (MaxUnsigned + 1) = (MaxUnsigned + 1 - n) % (MaxUnsigned + 1)
<1> DEFINE M == MaxUnsigned
<1>1. M \in Nat
  BY MaxUnsignedFacts
<1> HIDE DEF M
<1>2. (- n) % (M + 1) \in 0 .. M
  BY <1>1, SMT DEF M
<1>3. (- n) % (M + 1) = (M + 1 - n) % (M + 1)
  BY <1>1, SMT DEF M
<1> QED BY <1>2, <1>3 DEF M
-----------------------------------------------------------------------------
(* The date *)

\* A clock eight hours ahead of the seconds of the day.
Ahead(t, sec) == (3600 * (t[1] + 16) + 60 * t[2] + t[3]) % SECOND_OF_DAY = sec

\* After n rounds of the counter the timestamp is in no later year.
InYear(n) == call.number < DaysToYear(year + 1) + n * Cycle

\* How much of the timestamp has been turned into years and months.
DateInv ==
  /\ pc = "idle" => year = 1970 /\ month = 1 /\ call.fn = "none"
  /\ pc \in {"year", "month"} => call.fn = "date"
  /\ call.fn = "date" =>
       /\ pc \in {"year", "month", "done"}
       /\ call.number \in Nat /\ call.with \in 0 .. SECOND_OF_DAY - 1
       /\ val \in Nat /\ year \in 0 .. YearValues - 1 /\ month \in 1 .. 12
       /\ \E n \in 0 .. call.number :
            Rounds(n) /\ (pc = "month" => InYear(n))
  /\ pc = "year" => month = 1
  /\ pc = "done" /\ call.fn = "date" =>
       val < MonthLength(year, month) /\ Ahead(time, call.with)

LEMMA NextYear ==
  ASSUME NEW y \in Nat
  PROVE  /\ DaysToYear(y) \in Int
         /\ DaysToYear(y + 1) = DaysToYear(y) + (IF Leap(y) THEN 366 ELSE 365)
<1>1. /\ y \div 4   = (y - 1) \div 4   + (IF y % 4 = 0   THEN 1 ELSE 0)
      /\ y \div 100 = (y - 1) \div 100 + (IF y % 100 = 0 THEN 1 ELSE 0)
      /\ y \div 400 = (y - 1) \div 400 + (IF y % 400 = 0 THEN 1 ELSE 0)
  OBVIOUS
<1>2. /\ y % 400 = 0 => y % 100 = 0
      /\ y % 100 = 0 => y % 4 = 0
  OBVIOUS
<1>3. (y - 1) \div 4 \in Int /\ (y - 1) \div 100 \in Int /\ (y - 1) \div 400 \in Int
  OBVIOUS
<1>4. (y + 1) - 1 = y
  OBVIOUS
<1> QED BY <1>1, <1>2, <1>3, <1>4 DEF DaysToYear, Leap

LEMMA FirstOfJanuary == \A y \in Nat : DaysToMonth(y, 1) = DaysToYear(y)
BY NextYear DEF DaysToMonth

LEMMA CycleFacts ==
  /\ YearValues \in Nat /\ YearValues > 1970
  /\ DaysToYear(0) \in Int
  /\ DaysToYear(YearValues) \in Nat /\ DaysToYear(YearValues) >= 1
  /\ Cycle \in Nat /\ Cycle >= 1
  /\ DaysToYear(YearValues) = DaysToYear(0) + Cycle
  /\ \A n \in Nat : n * Cycle \in Nat /\ n * Cycle >= n /\ (n + 1) * Cycle = n * Cycle + Cycle
<1>1. YearValues \in Nat /\ YearValues > 1970
  BY ConversionsAssumption
<1>2. DaysToYear(0) \in Int /\ DaysToYear(0) < 0
  <2>1. /\ DaysToYear(0) \in Int
        /\ DaysToYear(0 + 1) = DaysToYear(0) + (IF Leap(0) THEN 366 ELSE 365)
    BY NextYear
  <2>2. DaysToYear(0 + 1) < 0
    BY DEF DaysToYear
  <2> QED BY <2>1, <2>2
<1>3. DaysToYear(YearValues) \in Int /\ DaysToYear(YearValues) >= 1
  <2>1. \A y \in Nat : y > 1970 =>
          /\ 365 * (y - 1970) + ((y - 1) \div 4 - (y - 1) \div 100 + (y - 1) \div 400) - 477 >= 1
          /\ 365 * (y - 1970) + ((y - 1) \div 4 - (y - 1) \div 100 + (y - 1) \div 400) - 477 \in Int
    BY SMT
  <2> QED BY <1>1, <2>1 DEF DaysToYear
<1>4. Cycle \in Nat /\ Cycle >= 1 /\ DaysToYear(YearValues) = DaysToYear(0) + Cycle
  BY <1>2, <1>3 DEF Cycle
<1>5. \A c, n \in Nat : c >= 1 => n * c \in Nat /\ n * c >= n /\ (n + 1) * c = n * c + c
  BY SMT
<1> QED BY <1>1, <1>2, <1>3, <1>4, <1>5

\* The first of January of a year is so many days before the timestamp, after
\* n rounds.
Past(y, days, n, number) ==
  /\ DaysToYear(y) + days + n * Cycle = number
  /\ n > 0 => number >= DaysToYear(YearValues)

\* A year is over, and with the counter's last year a round.
LEMMA YearTurns ==
  ASSUME NEW number \in Nat, NEW y \in 0 .. YearValues - 1, NEW v \in Nat,
         NEW n \in 0 .. number, Past(y + 1, v, n, number)
  PROVE  /\ YearAfter(y) \in 0 .. YearValues - 1
         /\ \E m \in 0 .. number : Past(YearAfter(y), v, m, number)
<1> USE DEF Past
<1>0. n * Cycle \in Nat /\ n * Cycle >= n /\ (n + 1) * Cycle = n * Cycle + Cycle
  BY CycleFacts
<1>1. CASE y = YearValues - 1
  <2>1. y + 1 = YearValues /\ 0 \in 0 .. YearValues - 1
    BY <1>1, CycleFacts
  <2>2. YearAfter(y) = 0
    <3>1. \A c \in Nat : c > 0 => c % c = 0
      BY SMT
    <3> QED BY <2>1, <3>1, CycleFacts DEF YearAfter
  <2>3. number = DaysToYear(0) + v + (n + 1) * Cycle
    BY <1>0, <2>1, CycleFacts
  <2>4. number >= DaysToYear(YearValues) /\ n + 1 \in 0 .. number
    BY <1>0, <2>1, CycleFacts
  <2> QED BY <2>1, <2>2, <2>3, <2>4
<1>2. CASE y < YearValues - 1
  <2>1. YearAfter(y) = y + 1
    <3>1. \A c, i \in Nat : i < c => i % c = i
      BY SMT
    <3>2. y + 1 \in Nat /\ y + 1 < YearValues
      BY <1>2, CycleFacts
    <3> QED BY <3>1, <3>2, CycleFacts DEF YearAfter
  <2>2. y + 1 \in 0 .. YearValues - 1 /\ n \in 0 .. number
    BY <1>2, CycleFacts
  <2> QED BY <2>1, <2>2
<1>3. y = YearValues - 1 \/ y < YearValues - 1
  BY CycleFacts
<1> QED BY <1>1, <1>2, <1>3

LEMMA NextMonth ==
  ASSUME NEW y \in Nat, NEW m \in 1 .. 12
  PROVE  /\ DaysToMonth(y, m) \in Int
         /\ MonthLength(y, m) \in 28 .. 31
         /\ m < 12 => DaysToMonth(y, m + 1) = DaysToMonth(y, m) + MonthLength(y, m)
         /\ m = 12 => DaysToYear(y + 1) = DaysToMonth(y, m) + MonthLength(y, m)
<1>1. /\ DaysToYear(y) \in Int
      /\ DaysToYear(y + 1) = DaysToYear(y) + (IF Leap(y) THEN 366 ELSE 365)
  BY NextYear
<1>2. m \in {1, 2, 3, 4, 5, 6, 7, 8, 9, 10, 11, 12}
  OBVIOUS
<1>3. /\ m < 12 => <<0, 31, 59, 90, 120, 151, 181, 212, 243, 273, 304, 334>>[m + 1]
                    = <<0, 31, 59, 90, 120, 151, 181, 212, 243, 273, 304, 334>>[m] + DayOfMon[m]
      /\ <<0, 31, 59, 90, 120, 151, 181, 212, 243, 273, 304, 334>>[m] \in 0 .. 334
      /\ DayOfMon[m] \in 28 .. 31
      /\ m = 2 <=> DayOfMon[m] = 28
      /\ m = 12 => /\ <<0, 31, 59, 90, 120, 151, 181, 212, 243, 273, 304, 334>>[m] = 334
                   /\ DayOfMon[m] = 31
  BY <1>2 DEF DayOfMon
<1>4. MonthLength(y, m) = DayOfMon[m] + (IF m = 2 /\ Leap(y) THEN 1 ELSE 0)
  BY <1>3 DEF MonthLength
<1> HIDE DEF MonthLength
<1> QED BY <1>1, <1>3, <1>4 DEF DaysToMonth

\* The clock eight hours ahead.
LEMMA TimeOfDay ==
  ASSUME NEW sec \in 0 .. SECOND_OF_DAY - 1
  PROVE  LET t == <<(sec \div 3600 + 8) % 24, (sec % 3600) \div 60, sec % 60>>
         IN  t \in (0 .. 23) \X (0 .. 59) \X (0 .. 59) /\ Ahead(t, sec)
<1> DEFINE k == sec \div 3600
           h == (k + 8) % 24
           m == (sec % 3600) \div 60
           s == sec % 60
<1>1. k \in 0 .. 23 /\ m \in 0 .. 59 /\ s \in 0 .. 59
  <2>1. \A i \in Nat : i < 86400 => i \div 3600 \in 0 .. 23
    BY SMT
  <2>2. \A i \in Nat : i % 3600 \in 0 .. 3599 /\ i % 60 \in 0 .. 59
    BY SMT
  <2>3. \A i \in 0 .. 3599 : i \div 60 \in 0 .. 59
    BY SMT
  <2>4. sec \in Nat /\ sec < 86400
    BY SMT DEF SECOND_OF_DAY
  <2>5. sec % 3600 \in 0 .. 3599
    BY <2>2, <2>4
  <2>6. m \in 0 .. 59
    BY <2>3, <2>5
  <2> QED BY <2>1, <2>2, <2>4, <2>6
<1>2. 3600 * k + 60 * m + s = sec
  BY SMT DEF SECOND_OF_DAY
<1>3. h = IF k < 16 THEN k + 8 ELSE k - 16
  <2> HIDE DEF k
  <2> QED BY <1>1, SMT
<1> HIDE DEF k, m, s
<1>4. h \in 0 .. 23
  BY <1>1, <1>3, SMT
<1>5. 3600 * (h + 16) + 60 * m + s \in {sec, sec + SECOND_OF_DAY}
  <2> HIDE DEF h
  <2> QED BY <1>1, <1>2, <1>3, SMT DEF SECOND_OF_DAY
<1>6. sec % SECOND_OF_DAY = sec /\ (sec + SECOND_OF_DAY) % SECOND_OF_DAY = sec
  <2>1. \A i \in Nat : i < 86400 => i % 86400 = i
    BY SMT
  <2>2. \A i \in Nat : i < 86400 => (i + 86400) % 86400 = i
    BY SMT
  <2> QED BY <2>1, <2>2, SMT DEF SECOND_OF_DAY
<1> HIDE DEF h
<1>7. (3600 * (h + 16) + 60 * m + s) % SECOND_OF_DAY = sec
  BY <1>5, <1>6
<1>8. <<h, m, s>> \in (0 .. 23) \X (0 .. 59) \X (0 .. 59)
  BY <1>1, <1>4
<1>9. Ahead(<<h, m, s>>, sec)
  BY <1>7 DEF Ahead
<1> QED BY <1>8, <1>9 DEF h, k, m, s

LEMMA DateInit == Init => DateInv
BY DEF Init, DateInv

LEMMA DateStep == DateInv /\ [Next]_vars => DateInv'
<1> SUFFICES ASSUME DateInv, [Next]_vars PROVE DateInv'
  OBVIOUS
<1> USE DEF DateInv
<1>0. ASSUME UNCHANGED <<call, val, date>> PROVE \A n : (Rounds(n)' <=> Rounds(n)) /\ (InYear(n)' <=> InYear(n))
  BY <1>0 DEF date, Rounds, InYear
<1>1. CASE UNCHANGED vars
  <2>1. UNCHANGED <<pc, call, val, year, month, time>> /\ UNCHANGED <<call, val, date>>
    BY <1>1 DEF vars, date
  <2>2. \A n : (Rounds(n)' <=> Rounds(n)) /\ (InYear(n)' <=> InYear(n))
    BY <1>0, <2>1
  <2> QED BY <2>1, <2>2
<1>2. CASE pc = "idle" /\ Begin
  <2>1. ASSUME NEW v \in Number, NEW radix \in {10, 16}, Utoa(v, radix) PROVE DateInv'
    BY <1>2, <2>1 DEF Utoa
  <2>2. ASSUME NEW s \in Text, NEW radix \in {10, 16}, Atou(s, radix) PROVE DateInv'
    BY <1>2, <2>2 DEF Atou, BeginAtou
  <2>3. ASSUME NEW s \in Text, NEW radix \in Radix, Strtoul(s, radix) PROVE DateInv'
    BY <1>2, <2>3 DEF Strtoul
  <2>4. ASSUME NEW ts \in Timestamp, Date(ts[1], ts[2]) PROVE DateInv'
    <3>1. ts[1] \in Nat /\ ts[2] \in 0 .. SECOND_OF_DAY - 1
      BY ConversionsAssumption
    <3>2. DaysToMonth(1970, 1) = 0 /\ 0 * Cycle = 0 /\ 1970 \in 0 .. YearValues - 1
      BY CycleFacts DEF DaysToMonth, DaysToYear
    <3>3. /\ pc' = "year" /\ call' = [fn |-> "date", number |-> ts[1], with |-> ts[2]]
          /\ val' = ts[1] /\ year' = 1970 /\ month' = 1
      BY <1>2, <2>4 DEF Date, date
    <3>4. Rounds(0)' /\ 0 \in 0 .. call'.number
      BY <3>1, <3>2, <3>3 DEF Rounds
    <3> QED BY <3>1, <3>2, <3>3, <3>4
  <2> QED BY <1>2, <2>1, <2>2, <2>3, <2>4 DEF Begin
<1>3. CASE CountDigit \/ WriteDigit \/ Printed
  BY <1>3 DEF CountDigit, WriteDigit, Printed, date
<1>8. CASE AtouPrinted
  BY <1>8 DEF AtouPrinted, BeginAtou, date
<1>9. CASE AtouDigit \/ AtouEnds \/ StrtoulDigit \/ StrtoulEnds
  BY <1>9 DEF AtouDigit, AtouEnds, StrtoulDigit, StrtoulEnds, date
<1>4. CASE YearPasses
  <2>1. /\ pc = "year" /\ val > 365 /\ call.fn = "date" /\ month = 1
        /\ year \in 0 .. YearValues - 1 /\ val \in Nat /\ call.number \in Nat
    BY <1>4 DEF YearPasses
  <2>2. PICK n \in 0 .. call.number : Rounds(n)
    BY <2>1
  <2>3. year \in Nat /\ DaysToMonth(year, 1) = DaysToYear(year)
    BY <2>1, FirstOfJanuary, CycleFacts
  <2>4. /\ DaysToYear(year) + val + n * Cycle = call.number
        /\ n > 0 => call.number >= DaysToYear(YearValues)
    BY <2>1, <2>2, <2>3 DEF Rounds
  <2>5. /\ val' \in Nat
        /\ DaysToYear(year + 1) + val' + n * Cycle = call.number
    BY <1>4, <2>1, <2>3, <2>4, NextYear, CycleFacts DEF YearPasses
  <2>6. PICK m \in 0 .. call.number :
          /\ YearAfter(year) \in 0 .. YearValues - 1
          /\ DaysToYear(YearAfter(year)) + val' + m * Cycle = call.number
          /\ m > 0 => call.number >= DaysToYear(YearValues)
    <3>1. Past(year + 1, val', n, call.number)
      BY <2>4, <2>5 DEF Past
    <3> HIDE DEF DateInv
    <3>2. /\ YearAfter(year) \in 0 .. YearValues - 1
          /\ \E m \in 0 .. call.number : Past(YearAfter(year), val', m, call.number)
      BY <2>1, <2>2, <2>5, <3>1, YearTurns
    <3> QED BY <3>2 DEF Past
  <2>7. pc' = "year" /\ call' = call /\ month' = 1 /\ year' = YearAfter(year)
    BY <1>4, <2>1 DEF YearPasses
  <2>8. DaysToMonth(year', month') = DaysToYear(year')
    BY <2>6, <2>7, FirstOfJanuary, CycleFacts
  <2>9. Rounds(m)'
    BY <2>6, <2>7, <2>8 DEF Rounds
  <2> QED BY <2>1, <2>5, <2>6, <2>7, <2>9
<1>5. CASE YearFound
  <2>1. /\ pc = "year" /\ val <= 365 /\ call.fn = "date" /\ month = 1
        /\ year \in 0 .. YearValues - 1 /\ val \in Nat /\ call.number \in Nat
    BY <1>5 DEF YearFound
  <2>2. PICK n \in 0 .. call.number : Rounds(n)
    BY <2>1
  <2>3. year \in Nat /\ DaysToMonth(year, 1) = DaysToYear(year) /\ n * Cycle \in Nat
    BY <2>1, FirstOfJanuary, CycleFacts
  <2>4. /\ DaysToYear(year) + val + n * Cycle = call.number
        /\ n > 0 => call.number >= DaysToYear(YearValues)
    BY <2>1, <2>2, <2>3 DEF Rounds
  <2>5. /\ DaysToYear(year) \in Int
        /\ DaysToYear(year + 1) = DaysToYear(year) + (IF Leap(year) THEN 366 ELSE 365)
    BY <2>3, NextYear
  <2>6. pc' = "month" /\ call' = call /\ month' = 1
    BY <1>5, <2>1 DEF YearFound
  <2>7. CASE val = 365 /\ ~ Leap(year)
    <3>1. val' = 0 /\ year' = YearAfter(year)
      BY <1>5, <2>7 DEF YearFound
    <3>2. DaysToYear(year + 1) + 0 + n * Cycle = call.number
      BY <2>3, <2>4, <2>5, <2>7
    <3>3. PICK m \in 0 .. call.number :
            /\ YearAfter(year) \in 0 .. YearValues - 1
            /\ DaysToYear(YearAfter(year)) + 0 + m * Cycle = call.number
            /\ m > 0 => call.number >= DaysToYear(YearValues)
      <4>1. Past(year + 1, 0, n, call.number) /\ 0 \in Nat
        BY <2>4, <3>2 DEF Past
      <4> HIDE DEF DateInv
      <4>2. /\ YearAfter(year) \in 0 .. YearValues - 1
            /\ \E m \in 0 .. call.number : Past(YearAfter(year), 0, m, call.number)
        BY <2>1, <2>2, <4>1, YearTurns
      <4> QED BY <4>2 DEF Past
    <3>4. /\ year' \in Nat /\ m * Cycle \in Nat
          /\ DaysToMonth(year', month') = DaysToYear(year')
      BY <2>6, <3>1, <3>3, FirstOfJanuary, CycleFacts
    <3>5. /\ DaysToYear(year') \in Int
          /\ DaysToYear(year' + 1) > DaysToYear(year')
      BY <3>4, NextYear
    <3>6. Rounds(m)'
      BY <2>6, <3>1, <3>3, <3>4 DEF Rounds
    <3>8. call.number < DaysToYear(year' + 1) + m * Cycle
      <4>1. year' + 1 \in Nat
        <5>1. \A y \in Nat : y + 1 \in Nat
          OBVIOUS
        <5> HIDE DEF DateInv
        <5> QED BY <3>4, <5>1
      <4>2. DaysToYear(year' + 1) \in Int
        BY <4>1, NextYear
      <4> HIDE DEF DateInv
      <4> QED BY <2>1, <3>1, <3>3, <3>4, <3>5, <4>2
    <3>7. InYear(m)'
      BY <2>6, <3>8 DEF InYear
    <3> QED BY <2>1, <2>6, <3>1, <3>3, <3>6, <3>7
  <2>8. CASE ~ (val = 365 /\ ~ Leap(year))
    <3>1. val' = val /\ year' = year
      BY <1>5, <2>8 DEF YearFound
    <3>2. Rounds(n)'
      BY <2>1, <2>2, <2>6, <3>1 DEF Rounds
    <3>3. val < (IF Leap(year) THEN 366 ELSE 365)
      BY <2>1, <2>8
    <3>4. InYear(n)'
      BY <2>1, <2>3, <2>4, <2>5, <2>6, <3>1, <3>3 DEF InYear
    <3> QED BY <2>1, <2>6, <3>1, <3>2, <3>4
  <2> QED BY <2>7, <2>8
<1>6. CASE MonthPasses
  <2>1. /\ pc = "month" /\ call.fn = "date" /\ month \in 1 .. 12 /\ val >= MonthLength(year, month)
        /\ year \in 0 .. YearValues - 1 /\ val \in Nat /\ call.number \in Nat
    BY <1>6 DEF MonthPasses
  <2>2. PICK n \in 0 .. call.number : Rounds(n) /\ InYear(n)
    BY <2>1
  <2>3. year \in Nat /\ n * Cycle \in Nat
    BY <2>1, CycleFacts
  <2>4. /\ DaysToMonth(year, month) \in Int
        /\ MonthLength(year, month) \in 28 .. 31
        /\ month < 12 => DaysToMonth(year, month + 1)
                           = DaysToMonth(year, month) + MonthLength(year, month)
        /\ month = 12 => DaysToYear(year + 1)
                           = DaysToMonth(year, month) + MonthLength(year, month)
    BY <2>1, <2>3, NextMonth
  <2>5. /\ DaysToMonth(year, month) + val + n * Cycle = call.number
        /\ n > 0 => call.number >= DaysToYear(YearValues)
        /\ call.number < DaysToYear(year + 1) + n * Cycle
    BY <2>2 DEF Rounds, InYear
  <2>6. month < 12
    BY <2>1, <2>3, <2>4, <2>5
  <2>7. /\ val' = val - MonthLength(year, month) /\ month' = month + 1
        /\ pc' = "month" /\ call' = call /\ year' = year
    BY <1>6, <2>1 DEF MonthPasses
  <2>8. val' \in Nat /\ month' \in 1 .. 12
    BY <2>1, <2>4, <2>6, <2>7
  <2>9. DaysToMonth(year', month') + val' + n * Cycle = call.number
    BY <2>1, <2>3, <2>4, <2>5, <2>6, <2>7
  <2>10. Rounds(n)' /\ InYear(n)'
    BY <2>5, <2>7, <2>9 DEF Rounds, InYear
  <2> QED BY <2>1, <2>7, <2>8, <2>10
<1>7. CASE MonthFound
  <2>1. /\ pc = "month" /\ call.fn = "date" /\ month \in 1 .. 12
        /\ year \in 0 .. YearValues - 1 /\ val \in Nat /\ call.number \in Nat
        /\ call.with \in 0 .. SECOND_OF_DAY - 1
    BY <1>7 DEF MonthFound
  <2>2. val < MonthLength(year, month)
    BY <1>7, <2>1 DEF MonthFound
  <2>3. PICK n \in 0 .. call.number : Rounds(n)
    BY <2>1
  <2>4. pc' = "done" /\ UNCHANGED <<call, val, year, month>>
    BY <1>7 DEF MonthFound
  <2>5. Rounds(n)'
    BY <2>3, <2>4 DEF Rounds
  <2>6. MonthLength(year', month') = MonthLength(year, month) /\ Ahead(time', call'.with)
    BY <1>7, <2>1, <2>4, TimeOfDay DEF MonthFound
  <2> QED BY <2>1, <2>2, <2>4, <2>5, <2>6
<1> QED BY <1>1, <1>2, <1>3, <1>4, <1>5, <1>6, <1>7, <1>8, <1>9 DEF Next

\* Every timestamp before the year that the counter cannot hold becomes the
\* date that it is in the calendar, and every later one the date whole rounds
\* of the counter before; the clock is eight hours ahead.
THEOREM DateIsExact == Spec => []DateExact
<1>1. DateInv => DateExact
  BY DEF DateInv, DateExact, Done, Ahead
<1> QED BY <1>1, DateInit, DateStep, PTL DEF Spec
-----------------------------------------------------------------------------
(* Type correctness: no accumulator exceeds its type *)

\* In base 16 nothing is tested but the number of digits: that is enough, for
\* the value is one that so many digits can write.
ValueInv ==
  /\ TypeOK
  /\ pc = "idle" => text = <<>> /\ count = 0
  /\ pc \in {"count", "write", "printed"} =>
       /\ call.fn = "utoa"
       /\ base \in {10, 16} /\ call.number <= MaxUnsigned /\ count \in Nat
  /\ pc = "atou" =>
       /\ call.fn \in {"atou", "again"}
       /\ base \in {10, 16} /\ count \in Nat
       /\ base = 16 => count <= Width /\ val < HexValues[count]
  /\ pc = "strtoul" => call.fn = "strtoul"

LEMMA ValueInit == Init => ValueInv
<1>1. 0 <= MaxUnsigned
  BY MaxUnsignedFacts
<1>2. <<>> \in Seq(Character) /\ <<0, 0, 0>> \in (0 .. 23) \X (0 .. 59) \X (0 .. 59)
  OBVIOUS
<1> SUFFICES ASSUME Init PROVE ValueInv
  OBVIOUS
<1>3. TypeOK
  <2>1. /\ pc = "idle" /\ call.fn = "none" /\ call.number = 0 /\ call.with = 0
        /\ text \in Seq(Character) /\ at = 1 /\ val = 0 /\ count = 0 /\ base = 10
    BY <1>2 DEF Init
  <2>2. neg \in BOOLEAN /\ ok \in BOOLEAN /\ year = 1970 /\ month = 1 /\ time = <<0, 0, 0>>
    BY DEF Init
  <2>3. /\ call.number \in Nat /\ call.with \in Nat /\ at \in Nat \ {0}
        /\ val \in Nat /\ val <= MaxUnsigned /\ count \in Int /\ base \in 1 .. 255
        /\ year \in 0 .. YearValues - 1 /\ month \in 1 .. 13
    BY <1>1, <2>1, <2>2, CycleFacts
  <2> QED BY <1>2, <2>1, <2>2, <2>3 DEF TypeOK
<1> QED BY <1>3 DEF Init, ValueInv

LEMMA CharFacts ==
  ASSUME text \in Seq(Character), at \in Nat \ {0}
  PROVE  /\ Char(at) \in 0 .. 39
         /\ Char(at) < 36 => at \in 1 .. Len(text) /\ text[at] = Char(at)
         /\ Char(at) = NUL <=> at > Len(text)
<1>1. DOMAIN text = 1 .. Len(text) /\ Len(text) \in Nat
  OBVIOUS
<1>2. CASE at \in 1 .. Len(text)
  <2>1. Char(at) = text[at] /\ text[at] \in 0 .. 38
    <3>1. text[at] \in Character
      BY <1>2
    <3> QED BY <1>1, <1>2, <3>1 DEF Char, Character
  <2>2. at <= Len(text)
    BY <1>2
  <2>3. Char(at) # NUL /\ Char(at) \in 0 .. 39
    <3>1. \A c \in 0 .. 38 : c # 39 /\ c \in 0 .. 39
      OBVIOUS
    <3> QED BY <2>1, <3>1 DEF NUL
  <2> QED BY <1>2, <2>1, <2>2, <2>3
<1>3. CASE at \notin 1 .. Len(text)
  <2>1. Char(at) = 39
    BY <1>1, <1>3 DEF Char, NUL
  <2> QED BY <1>1, <1>3, <2>1 DEF NUL
<1> QED BY <1>2, <1>3

LEMMA SecondIsNumber == ASSUME NEW sec \in 0 .. SECOND_OF_DAY - 1 PROVE sec \in Nat
BY SMT DEF SECOND_OF_DAY

LEMMA BeginKeepsValues ==
  ASSUME ValueInv, DateInv, pc = "idle", Begin
  PROVE  ValueInv'
<1> USE DEF ValueInv, TypeOK
<1>0. MaxUnsigned \in Nat
  BY MaxUnsignedFacts
<1>1. ASSUME NEW v \in Number, NEW radix \in {10, 16}, Utoa(v, radix) PROVE ValueInv'
  <2>1. v \in Nat /\ v <= MaxUnsigned
    BY <1>0, ConversionsAssumption
  <2> QED BY <1>1, <2>1 DEF Utoa, Radix10or16, date
<1>2. ASSUME NEW s \in Text, NEW radix \in {10, 16}, Atou(s, radix) PROVE ValueInv'
  <2>1. s \in Seq(Character) /\ 0 <= Width /\ 0 < HexValues[0]
    BY TextAssumption, ConversionsAssumption, HexValuesFacts
  <2> QED BY <1>0, <1>2, <2>1 DEF Atou, BeginAtou, date
<1>3. ASSUME NEW s \in Text, NEW radix \in Radix, Strtoul(s, radix) PROVE ValueInv'
  <2>1. s \in Seq(Character) /\ radix \in 0 .. 255
    BY TextAssumption, ConversionsAssumption
  <2>2. /\ base' \in 1 .. 255 /\ at' \in Nat \ {0} /\ radix \in Nat /\ neg' \in BOOLEAN
    <3> HIDE DEF ValueInv, TypeOK
    <3> QED BY <1>3, <2>1 DEF Strtoul
  <2> QED BY <1>0, <1>3, <2>1, <2>2 DEF Strtoul, date
<1>4. ASSUME NEW ts \in Timestamp, Date(ts[1], ts[2]) PROVE ValueInv'
  <2>1. ts[1] \in Nat /\ ts[2] \in 0 .. SECOND_OF_DAY - 1
    BY ConversionsAssumption
  <2>2. ts[2] \in Nat
    BY <2>1, SecondIsNumber
  <2> QED BY <1>4, <2>1, <2>2 DEF Date, date
<1> QED BY <1>1, <1>2, <1>3, <1>4 DEF Begin

LEMMA PrintingKeepsValues ==
  ASSUME ValueInv, CountDigit \/ WriteDigit \/ Printed \/ AtouPrinted
  PROVE  ValueInv'
<1> USE DEF ValueInv, TypeOK
<1>0. MaxUnsigned \in Nat
  BY MaxUnsignedFacts
<1>1. ASSUME base \in {10, 16}
      PROVE  val \div base \in Nat /\ val \div base <= val /\ val % base \in Character
  <2>1. CASE base = 10
    BY <2>1 DEF Character
  <2>2. CASE base = 16
    BY <2>2 DEF Character
  <2> QED BY <1>1, <2>1, <2>2
<1>2. CASE CountDigit
  <2>1. /\ val \div base \in Nat /\ val \div base <= MaxUnsigned
        /\ call.number \in Nat /\ call.number <= MaxUnsigned
    BY <1>0, <1>1, <1>2 DEF CountDigit
  <2> QED BY <1>2, <2>1 DEF CountDigit, date
<1>3. CASE WriteDigit
  <2>1. val \div base \in Nat /\ val \div base <= MaxUnsigned
    BY <1>0, <1>1, <1>3 DEF WriteDigit
  <2>2. <<val % base>> \o text \in Seq(Character)
    BY <1>1, <1>3 DEF WriteDigit
  <2> QED BY <1>3, <2>1, <2>2 DEF WriteDigit, date
<1>4. CASE Printed
  BY <1>4 DEF Printed, date
<1>5. CASE AtouPrinted
  <2>1. 0 <= Width /\ 0 < HexValues[0]
    BY ConversionsAssumption, HexValuesFacts
  <2> QED BY <1>0, <1>5, <2>1 DEF AtouPrinted, BeginAtou, Radix10or16, date
<1> QED BY <1>2, <1>3, <1>4, <1>5

LEMMA ParsingKeepsValues ==
  ASSUME ValueInv, AtouDigit \/ AtouEnds \/ StrtoulDigit \/ StrtoulEnds
  PROVE  ValueInv'
<1> USE DEF ValueInv, TypeOK
<1>0. MaxUnsigned \in Nat
  BY MaxUnsignedFacts
<1>1. CASE AtouDigit
  <2>0. text \in Seq(Character) /\ at \in Nat \ {0}
    OBVIOUS
  <2>1. Char(at) \in Nat
    <3> HIDE DEF ValueInv, TypeOK
    <3>1. Char(at) \in 0 .. 39
      BY <2>0, CharFacts
    <3> QED BY <3>1
  <2>2. CASE base = 10
    <3>1. val' \in Nat /\ val' <= MaxUnsigned
      BY <1>0, <1>1, <2>1, <2>2, OverflowExact DEF AtouDigit, Takes
    <3> QED BY <1>1, <2>2, <3>1 DEF AtouDigit, date
  <2>3. CASE base = 16
    <3>1. /\ count \in 0 .. Width - 1 /\ count + 1 \in 0 .. Width
          /\ Char(at) \in 0 .. 15 /\ val \in Nat /\ val < HexValues[count]
      <4>1. Char(at) < 16 /\ count < Width /\ pc = "atou"
        BY <1>1, <2>3 DEF AtouDigit, Takes
      <4>2. count \in Nat /\ val \in Nat /\ val < HexValues[count]
        BY <2>3, <4>1
      <4> HIDE DEF ValueInv, TypeOK
      <4> QED BY <2>1, <4>1, <4>2, ConversionsAssumption
    <3>2. /\ HexValues[count + 1] = 16 * HexValues[count]
          /\ HexValues[count] \in Nat
          /\ HexValues[count + 1] <= MaxUnsigned + 1
      <4>1. count \in 0 .. Width
        BY <3>1, ConversionsAssumption
      <4>2. HexValues[Width] = MaxUnsigned + 1
        BY MaxUnsignedFacts
      <4> HIDE DEF ValueInv, TypeOK
      <4> QED BY <3>1, <4>1, <4>2, HexValuesFacts
    <3>3. val' = val * 16 + Char(at) /\ count' = count + 1
      BY <1>1, <2>3 DEF AtouDigit
    <3>4. val' \in Nat /\ val' < HexValues[count'] /\ val' <= MaxUnsigned
      <4> HIDE DEF ValueInv, TypeOK
      <4> QED BY <1>0, <3>1, <3>2, <3>3
    <3> QED BY <1>1, <2>3, <3>1, <3>3, <3>4 DEF AtouDigit, date
  <2> QED BY <1>1, <2>2, <2>3 DEF AtouDigit
<1>2. CASE AtouEnds
  BY <1>2 DEF AtouEnds, date
<1>3. CASE StrtoulDigit
  <2>0. text \in Seq(Character) /\ at \in Nat \ {0}
    OBVIOUS
  <2>1. Char(at) \in Nat
    <3> HIDE DEF ValueInv, TypeOK
    <3>1. Char(at) \in 0 .. 39
      BY <2>0, CharFacts
    <3> QED BY <3>1
  <2>2. ~ Overflows(Char(at)) => val * base + Char(at) \in Nat /\ val * base + Char(at) <= MaxUnsigned
    <3>1. Char(at) < base /\ base \in 1 .. 255 /\ base \in Nat /\ val \in Nat
      BY <1>3 DEF StrtoulDigit, Digit
    <3> HIDE DEF ValueInv, TypeOK
    <3>2. Overflows(Char(at)) <=> val * base + Char(at) > MaxUnsigned
      BY <2>1, <3>1, OverflowExact
    <3> QED BY <1>0, <2>1, <3>1, <3>2
  <2> QED BY <1>3, <2>2 DEF StrtoulDigit, date
<1>4. CASE StrtoulEnds
  <2>1. (- val) % (MaxUnsigned + 1) \in 0 .. MaxUnsigned
    BY <1>0, <1>4, Negation DEF StrtoulEnds
  <2> QED BY <1>0, <1>4, <2>1 DEF StrtoulEnds, date
<1> QED BY <1>1, <1>2, <1>3, <1>4

LEMMA DatingKeepsValues ==
  ASSUME ValueInv, DateInv, DateInv', YearPasses \/ YearFound \/ MonthPasses \/ MonthFound
  PROVE  ValueInv'
<1> USE DEF ValueInv, TypeOK
<1>1. call.fn = "date" /\ call' = call
  BY DEF DateInv, YearPasses, YearFound, MonthPasses, MonthFound
<1>2. val' \in Nat /\ year' \in 0 .. YearValues - 1 /\ month' \in 1 .. 13
  BY <1>1 DEF DateInv
<1>3. CASE YearPasses \/ YearFound \/ MonthPasses
  <2>1. /\ UNCHANGED <<call, text, at, count, base, neg, ok, time>>
        /\ pc' \in {"year", "month"}
    BY <1>3 DEF YearPasses, YearFound, MonthPasses
  <2> QED BY <1>1, <1>2, <2>1
<1>4. CASE MonthFound
  <2>1. time' \in (0 .. 23) \X (0 .. 59) \X (0 .. 59)
    <3>1. call.with \in 0 .. SECOND_OF_DAY - 1
      BY <1>1 DEF DateInv
    <3> HIDE DEF ValueInv, TypeOK
    <3> QED BY <1>4, <3>1, TimeOfDay DEF MonthFound
  <2>2. UNCHANGED <<call, text, at, count, base, neg, ok>> /\ pc' = "done"
    BY <1>4 DEF MonthFound
  <2> QED BY <1>1, <1>2, <2>1, <2>2
<1> QED BY <1>3, <1>4

LEMMA ValueStep == ValueInv /\ DateInv /\ DateInv' /\ [Next]_vars => ValueInv'
<1> SUFFICES ASSUME ValueInv, DateInv, DateInv', [Next]_vars PROVE ValueInv'
  OBVIOUS
<1>1. CASE UNCHANGED vars
  BY <1>1 DEF vars, date, ValueInv, TypeOK
<1> QED BY <1>1, BeginKeepsValues, PrintingKeepsValues, ParsingKeepsValues,
           DatingKeepsValues DEF Next

\* For a type of any width and for every text: the tests before a digit is
\* taken keep the accumulators inside their type.
THEOREM ConversionTypes == Spec => []TypeOK
<1>1. ValueInv => TypeOK
  BY DEF ValueInv
<1> QED BY <1>1, DateInit, DateStep, ValueInit, ValueStep, PTL DEF Spec
-----------------------------------------------------------------------------
(* What the parsers take *)

\* The first n characters of s are digits in base b.
Taken(s, n, b) == n \in 0 .. Len(s) /\ \A i \in 1 .. n : Digit(s[i], b)

LEMMA TakeNext ==
  ASSUME NEW s \in Seq(Nat), NEW b \in Nat, NEW n \in Nat, Taken(s, n, b),
         n < Len(s), Digit(s[n + 1], b)
  PROVE  /\ Taken(s, n + 1, b)
         /\ Denotes(SubSeq(s, 1, n + 1), b) = Denotes(SubSeq(s, 1, n), b) * b + s[n + 1]
<1>1. n \in 0 .. Len(s) - 1 /\ n + 1 \in 0 .. Len(s)
  OBVIOUS
<1>2. ASSUME NEW i \in 1 .. n + 1 PROVE Digit(s[i], b)
  <2>1. i \in 1 .. n \/ i = n + 1
    OBVIOUS
  <2> QED BY <2>1 DEF Taken
<1> QED BY <1>1, <1>2, DenotesNext DEF Taken

\* The digits a text begins with end where no digit follows.
LEMMA LeadingTaken ==
  ASSUME NEW s \in Seq(Nat), NEW b \in Nat, NEW n \in Nat, Taken(s, n, b),
         n < Len(s) => ~ Digit(s[n + 1], b)
  PROVE  Leading(s, b) = SubSeq(s, 1, n)
<1> DEFINE Ends(k) == /\ \A i \in 1 .. k : Digit(s[i], b)
                      /\ k < Len(s) => ~ Digit(s[k + 1], b)
           m == CHOOSE k \in 0 .. Len(s) : Ends(k)
<1>1. n \in 0 .. Len(s) /\ Ends(n)
  BY DEF Taken
<1>2. m \in 0 .. Len(s) /\ Ends(m)
  <2> HIDE DEF Ends
  <2> QED BY <1>1
<1>3. Leading(s, b) = SubSeq(s, 1, m)
  BY DEF Leading
<1> HIDE DEF m
<1>4. ~ (n < m)
  <2> SUFFICES ASSUME n < m PROVE FALSE
    OBVIOUS
  <2>1. n + 1 \in 1 .. m /\ n < Len(s) /\ n + 1 \in 1 .. Len(s)
    BY <1>1, <1>2
  <2>2. Digit(s[n + 1], b) /\ ~ Digit(s[n + 1], b)
    BY <1>1, <1>2, <2>1
  <2> QED BY <2>2
<1>5. ~ (m < n)
  <2> SUFFICES ASSUME m < n PROVE FALSE
    OBVIOUS
  <2>1. m + 1 \in 1 .. n /\ m < Len(s) /\ m + 1 \in 1 .. Len(s)
    BY <1>1, <1>2
  <2>2. Digit(s[m + 1], b) /\ ~ Digit(s[m + 1], b)
    BY <1>1, <1>2, <2>1
  <2> QED BY <2>2
<1>6. m = n
  BY <1>1, <1>2, <1>4, <1>5
<1> QED BY <1>3, <1>6

\* The value of a text is at least that of what it begins with.
LEMMA DenotesGrows ==
  ASSUME NEW s \in Seq(Nat), NEW b \in Nat \ {0}, NEW n \in 0 .. Len(s)
  PROVE  /\ Denotes(s, b) \in Nat
         /\ Denotes(SubSeq(s, 1, n), b) <= Denotes(s, b)
<1> DEFINE D(i) == Denotes(SubSeq(s, 1, i), b)
<1>1. /\ \A i \in 0 .. Len(s) : D(i) \in Nat
      /\ \A i \in 0 .. Len(s) - 1 : D(i + 1) = D(i) * b + s[i + 1]
  BY DenotesNext
<1>2. D(Len(s)) = Denotes(s, b)
  <2>1. SubSeq(s, 1, Len(s)) = s
    OBVIOUS
  <2> QED BY <2>1
<1> HIDE DEF D
<1>3. Len(s) \in Nat
  OBVIOUS
<1>4. ASSUME NEW i \in 0 .. Len(s) - 1 PROVE D(i) <= D(i + 1)
  <2>1. D(i) \in Nat /\ D(i + 1) = D(i) * b + s[i + 1]
    BY <1>1, <1>3
  <2>2. s[i + 1] \in Nat
    BY <1>3
  <2>3. D(i) <= D(i) * b
    <3>1. \A x \in Nat, y \in Nat : x * (y + 1) = x * y + x /\ x * y \in Nat
      BY SMT
    <3>2. b - 1 \in Nat /\ (b - 1) + 1 = b
      OBVIOUS
    <3>3. D(i) * b = D(i) * (b - 1) + D(i) /\ D(i) * (b - 1) \in Nat
      BY <2>1, <3>1, <3>2
    <3> QED BY <2>1, <3>3
  <2>4. D(i) * b \in Nat
    BY <2>1
  <2> QED BY <2>1, <2>2, <2>3, <2>4
<1> DEFINE T == {k \in Nat : n + k <= Len(s) => D(n) <= D(n + k)}
<1>5. 0 \in T
  BY <1>1
<1>6. ASSUME NEW k \in Nat, k \in T PROVE k + 1 \in T
  <2> SUFFICES ASSUME n + (k + 1) <= Len(s) PROVE D(n) <= D(n + (k + 1))
    OBVIOUS
  <2>1. n + k \in 0 .. Len(s) - 1 /\ n + (k + 1) = (n + k) + 1
    BY <1>3
  <2>2. D(n) <= D(n + k) /\ D(n + k) <= D((n + k) + 1)
    BY <1>4, <1>6, <2>1
  <2>3. D(n) \in Nat /\ D(n + k) \in Nat /\ D((n + k) + 1) \in Nat
    BY <1>1, <1>3, <2>1
  <2> QED BY <2>1, <2>2, <2>3
<1>7. \A k \in Nat : k \in T
  <2> HIDE DEF T
  <2> QED BY <1>5, <1>6, SetInduction
<1>8. Len(s) - n \in Nat /\ n + (Len(s) - n) = Len(s)
  BY <1>3
<1>9. D(n) <= D(Len(s))
  <2>1. Len(s) - n \in T
    <3> HIDE DEF T
    <3> QED BY <1>7, <1>8
  <2> QED BY <1>8, <2>1
<1>10. Denotes(s, b) \in Nat
  BY <1>1, <1>2, <1>3
<1> QED BY <1>2, <1>9, <1>10 DEF D
Rest(s, i) == SubSeq(s, i, Len(s))

\* From start on, s has been read up to a and has only digits there, which
\* denote Sofar.
ReadTo(s, start, a, b) ==
  /\ start \in 1 .. Len(s) + 1 /\ a \in start .. Len(s) + 1
  /\ Taken(Rest(s, start), a - start, b)
Sofar(s, start, a, b) == Denotes(SubSeq(Rest(s, start), 1, a - start), b)

LEMMA DigitsAreNumbers == ASSUME NEW s \in Seq(Character) PROVE s \in Seq(Nat)
<1>1. Len(s) \in Nat /\ s \in [1 .. Len(s) -> Character]
  OBVIOUS
<1>2. \A c \in Character : c \in Nat
  BY DEF Character
<1>3. s \in [1 .. Len(s) -> Nat]
  BY <1>1, <1>2
<1> QED BY <1>1, <1>3

LEMMA RestFacts ==
  ASSUME NEW s \in Seq(Character), NEW start \in 1 .. Len(s) + 1
  PROVE  /\ Rest(s, start) \in Seq(Character) /\ Rest(s, start) \in Seq(Nat)
         /\ Len(Rest(s, start)) = Len(s) + 1 - start
         /\ \A i \in 1 .. Len(s) + 1 - start : Rest(s, start)[i] = s[start + i - 1]
<1>1. /\ Rest(s, start) \in Seq(Character)
      /\ Len(Rest(s, start)) = Len(s) + 1 - start
      /\ \A i \in 1 .. Len(s) + 1 - start : Rest(s, start)[i] = s[start + i - 1]
  BY DEF Rest
<1>3. Rest(s, start) \in Seq(Nat)
  BY <1>1, DigitsAreNumbers
<1> QED BY <1>1, <1>3

LEMMA ReadBegins ==
  ASSUME NEW s \in Seq(Character), NEW b \in Nat \ {0}, NEW start \in 1 .. Len(s) + 1
  PROVE  ReadTo(s, start, start, b) /\ Sofar(s, start, start, b) = 0
<1>1. start - start = 0 /\ start \in start .. Len(s) + 1
  OBVIOUS
<1>2. Taken(Rest(s, start), 0, b)
  BY RestFacts DEF Taken
<1>3. Denotes(SubSeq(Rest(s, start), 1, 0), b) = 0
  BY RestFacts, DenotesNext
<1> QED BY <1>1, <1>2, <1>3 DEF ReadTo, Sofar

LEMMA ReadNext ==
  ASSUME NEW s \in Seq(Character), NEW b \in Nat \ {0}, NEW start, NEW a,
         ReadTo(s, start, a, b)
  PROVE  /\ Sofar(s, start, a, b) \in Nat
         /\ a <= Len(s) /\ Digit(s[a], b) =>
              /\ ReadTo(s, start, a + 1, b)
              /\ Sofar(s, start, a + 1, b) = Sofar(s, start, a, b) * b + s[a]
<1> DEFINE r == Rest(s, start)
           n == a - start
<1>1. start \in 1 .. Len(s) + 1 /\ a \in start .. Len(s) + 1 /\ Taken(r, n, b)
  BY DEF ReadTo
<1>2. n \in Nat /\ n <= Len(s) + 1 - start
  BY <1>1
<1>3. r \in Seq(Nat) /\ Len(r) = Len(s) + 1 - start
  BY <1>1, RestFacts
<1>4. Sofar(s, start, a, b) \in Nat
  <2>1. n \in 0 .. Len(r)
    BY <1>2, <1>3
  <2> HIDE DEF r, n
  <2>2. Denotes(SubSeq(r, 1, n), b) \in Nat
    BY <1>3, <2>1, DenotesNext
  <2> QED BY <2>2 DEF Sofar, r, n
<1>5. ASSUME a <= Len(s), Digit(s[a], b)
      PROVE  /\ ReadTo(s, start, a + 1, b)
             /\ Sofar(s, start, a + 1, b) = Sofar(s, start, a, b) * b + s[a]
  <2>1. n < Len(r) /\ n + 1 \in 1 .. Len(s) + 1 - start /\ start + (n + 1) - 1 = a
    BY <1>1, <1>3, <1>5
  <2>2. r[n + 1] = s[a]
    BY <1>1, <2>1, RestFacts
  <2>3. (a + 1) - start = n + 1 /\ a + 1 \in start .. Len(s) + 1
    BY <1>1, <1>5
  <2> HIDE DEF r, n
  <2>4. /\ Taken(r, n + 1, b)
        /\ Denotes(SubSeq(r, 1, n + 1), b) = Denotes(SubSeq(r, 1, n), b) * b + s[a]
    BY <1>1, <1>2, <1>3, <1>5, <2>1, <2>2, TakeNext
  <2> QED BY <1>1, <2>3, <2>4 DEF ReadTo, Sofar, r, n
<1> QED BY <1>4, <1>5

LEMMA ReadEnds ==
  ASSUME NEW s \in Seq(Character), NEW b \in Nat \ {0}, NEW start, NEW a,
         ReadTo(s, start, a, b), a <= Len(s) => ~ Digit(s[a], b)
  PROVE  Leading(Rest(s, start), b) = SubSeq(Rest(s, start), 1, a - start)
<1> DEFINE r == Rest(s, start)
           n == a - start
<1>1. start \in 1 .. Len(s) + 1 /\ a \in start .. Len(s) + 1 /\ Taken(r, n, b)
  BY DEF ReadTo
<1>2. n \in Nat
  BY <1>1
<1>3. r \in Seq(Nat) /\ Len(r) = Len(s) + 1 - start
  BY <1>1, RestFacts
<1>4. ASSUME n < Len(r) PROVE ~ Digit(r[n + 1], b)
  <2>1. a <= Len(s) /\ n + 1 \in 1 .. Len(s) + 1 - start /\ start + (n + 1) - 1 = a
    BY <1>1, <1>3, <1>4
  <2>2. r[n + 1] = s[a]
    BY <1>1, <2>1, RestFacts
  <2> QED BY <2>1, <2>2
<1> HIDE DEF r, n
<1>5. Leading(r, b) = SubSeq(r, 1, n)
  BY <1>1, <1>2, <1>3, <1>4, LeadingTaken
<1> QED BY <1>5 DEF r, n

\* What has been read denotes no more than the whole rest of the text.
LEMMA ReadGrows ==
  ASSUME NEW s \in Seq(Character), NEW b \in Nat \ {0}, NEW start, NEW a,
         ReadTo(s, start, a, b)
  PROVE  /\ Denotes(Rest(s, start), b) \in Nat
         /\ Sofar(s, start, a, b) <= Denotes(Rest(s, start), b)
         /\ a = Len(s) + 1 => /\ Sofar(s, start, a, b) = Denotes(Rest(s, start), b)
                              /\ Leading(Rest(s, start), b) = Rest(s, start)
<1> DEFINE r == Rest(s, start)
           n == a - start
<1>1. start \in 1 .. Len(s) + 1 /\ a \in start .. Len(s) + 1 /\ Taken(r, n, b)
  BY DEF ReadTo
<1>2. r \in Seq(Nat) /\ Len(r) = Len(s) + 1 - start
  BY <1>1, RestFacts
<1>3. n \in 0 .. Len(r)
  BY <1>1, <1>2
<1>4. ASSUME a = Len(s) + 1 PROVE SubSeq(r, 1, n) = r
  <2>1. n = Len(r)
    BY <1>1, <1>2, <1>4
  <2> HIDE DEF r, n
  <2> QED BY <1>2, <2>1
<1>5. a = Len(s) + 1 => Leading(r, b) = SubSeq(r, 1, n)
  <2>1. ASSUME a = Len(s) + 1 PROVE ~ (a <= Len(s))
    BY <2>1
  <2> QED BY <2>1, ReadEnds
<1> HIDE DEF r, n
<1>6. Denotes(r, b) \in Nat /\ Denotes(SubSeq(r, 1, n), b) <= Denotes(r, b)
  <2>1. b \in Nat \ {0}
    OBVIOUS
  <2> QED BY <1>2, <1>3, <2>1, DenotesGrows
<1> QED BY <1>4, <1>5, <1>6 DEF Sofar, r, n
\* Where the digits begin: after 0x, after a sign.
At(s, i) == IF i \in DOMAIN s THEN s[i] ELSE NUL
AtouStart(s, b) == IF b = 16 /\ Len(s) > 1 /\ s[1] = 0 /\ s[2] = X THEN 3 ELSE 1
First(s) == IF At(s, 1) \in {Plus, Minus} THEN 2 ELSE 1
Hex(s, radix) == radix \in {0, 16} /\ At(s, First(s)) = 0 /\ At(s, First(s) + 1) = X
StrtoulStart(s, radix) == IF Hex(s, radix) THEN First(s) + 2 ELSE First(s)

\* adm_atoD32U has taken what it has read.
AtouRead ==
  LET start == AtouStart(text, base) IN
  /\ ReadTo(text, start, at, base)
  /\ count = at - start
  /\ val = Sofar(text, start, at, base)

\* adm_strtoul has taken what it has read, or it was too large.
StrtoulRead ==
  LET start == StrtoulStart(text, call.with) IN
  /\ ReadTo(text, start, at, base)
  /\ count \in {-1, 0, 1}
  /\ count = 0 <=> at = start
  /\ count >= 0 => val = Sofar(text, start, at, base)
  /\ count < 0 => Sofar(text, start, at, base) > MaxUnsigned

\* What the results have to be.
AtouRight(s, b, success, v) ==
  LET body == Rest(s, AtouStart(s, b)) IN
  /\ success <=> /\ body # <<>> /\ Leading(body, b) = body
                 /\ IF b = 16 THEN Len(body) <= Width ELSE Denotes(body, b) <= MaxUnsigned
  /\ success => v = Denotes(body, b)

StrtoulRight(s, radix, b, success, v, negative, a) ==
  LET digits == Leading(Rest(s, StrtoulStart(s, radix)), b)
      n      == Denotes(digits, b)
  IN  /\ success <=> n <= MaxUnsigned
      /\ v = IF n > MaxUnsigned THEN MaxUnsigned
             ELSE IF negative THEN (MaxUnsigned + 1 - n) % (MaxUnsigned + 1) ELSE n
      /\ digits = <<>> <=> a = 1

ParseInv ==
  /\ pc = "atou" => AtouRead
  /\ pc = "strtoul" => StrtoulRead
  /\ pc = "done" /\ call.fn = "atou" => AtouRight(text, base, ok, val)
  /\ pc = "done" /\ call.fn = "strtoul" =>
       StrtoulRight(text, call.with, base, ok, val, neg, at)

LEMMA StartFacts ==
  ASSUME NEW s \in Seq(Character), NEW b, NEW radix
  PROVE  /\ AtouStart(s, b) \in 1 .. Len(s) + 1
         /\ First(s) \in 1 .. Len(s) + 1
         /\ StrtoulStart(s, radix) \in 1 .. Len(s) + 1
<1>1. DOMAIN s = 1 .. Len(s) /\ Len(s) \in Nat
  OBVIOUS
<1>2. AtouStart(s, b) \in 1 .. Len(s) + 1
  BY <1>1 DEF AtouStart
<1>3. First(s) \in 1 .. Len(s) + 1
  <2>1. At(s, 1) \in {Plus, Minus} => 1 \in 1 .. Len(s)
    BY <1>1 DEF At, NUL, Plus, Minus
  <2> QED BY <1>1, <2>1 DEF First
<1>4. StrtoulStart(s, radix) \in 1 .. Len(s) + 1
  <2>1. Hex(s, radix) => First(s) + 1 \in 1 .. Len(s)
    BY <1>1 DEF Hex, At, NUL, X
  <2> QED BY <1>1, <1>3, <2>1 DEF StrtoulStart
<1> QED BY <1>2, <1>3, <1>4

\* The texts the properties speak of are those the parsers read.
LEMMA AtouBody ==
  ASSUME text \in Seq(Character)
  PROVE  From(IF base = 16 /\ Prefixed THEN 3 ELSE 1) = Rest(text, AtouStart(text, base))
<1>1. DOMAIN text = 1 .. Len(text) /\ Len(text) \in Nat
  OBVIOUS
<1>2. Prefixed <=> Len(text) > 1 /\ text[1] = 0 /\ text[2] = X
  BY <1>1 DEF Prefixed, Char, NUL, X
<1> QED BY <1>2 DEF AtouStart, From, Rest

LEMMA StrtoulBody ==
  ASSUME text \in Seq(Character)
  PROVE  LET bare == From(IF Char(1) \in {Plus, Minus} THEN 2 ELSE 1)
             hex  == call.with \in {0, 16} /\ Len(bare) > 1 /\ bare[1] = 0 /\ bare[2] = X
         IN  (IF hex THEN SubSeq(bare, 3, Len(bare)) ELSE bare)
               = Rest(text, StrtoulStart(text, call.with))
<1> DEFINE first == First(text)
           bare == Rest(text, first)
           hex == call.with \in {0, 16} /\ Len(bare) > 1 /\ bare[1] = 0 /\ bare[2] = X
<1>1. DOMAIN text = 1 .. Len(text) /\ Len(text) \in Nat
  OBVIOUS
<1>2. From(IF Char(1) \in {Plus, Minus} THEN 2 ELSE 1) = bare
  BY DEF From, Rest, First, Char, At
<1>3. first \in 1 .. Len(text) + 1 /\ first \in Nat
  BY <1>1, StartFacts
<1>4. /\ bare \in Seq(Character) /\ Len(bare) = Len(text) + 1 - first
      /\ \A i \in 1 .. Len(text) + 1 - first : bare[i] = text[first + i - 1]
  BY <1>3, RestFacts
<1>5. hex <=> Hex(text, call.with)
  <2> HIDE DEF first, bare
  <2>1. Len(bare) > 1 <=> first + 1 \in 1 .. Len(text)
    BY <1>1, <1>3, <1>4
  <2>2. ASSUME Len(bare) > 1
        PROVE  bare[1] = At(text, first) /\ bare[2] = At(text, first + 1)
    <3>1. 1 \in 1 .. Len(text) + 1 - first /\ 2 \in 1 .. Len(text) + 1 - first
      BY <1>1, <1>3, <1>4, <2>2
    <3>2. first + 1 - 1 = first /\ first + 2 - 1 = first + 1
      BY <1>3
    <3>3. first \in 1 .. Len(text) /\ first + 1 \in 1 .. Len(text)
      BY <1>1, <1>3, <2>1, <2>2
    <3> QED BY <1>1, <1>4, <3>1, <3>2, <3>3 DEF At
  <2>3. Hex(text, call.with) => first + 1 \in 1 .. Len(text)
    BY <1>1 DEF Hex, At, NUL, X, first
  <2>4. Hex(text, call.with) <=> call.with \in {0, 16} /\ At(text, first) = 0 /\ At(text, first + 1) = X
    BY DEF Hex, first
  <2> QED BY <2>1, <2>2, <2>3, <2>4
<1>6. ASSUME hex PROVE SubSeq(bare, 3, Len(bare)) = Rest(text, first + 2)
  <2>1. first + 2 \in 1 .. Len(text) + 1
    BY <1>1, <1>3, <1>4, <1>6
  <2>2. /\ Len(SubSeq(bare, 3, Len(bare))) = Len(text) + 1 - (first + 2)
        /\ Len(Rest(text, first + 2)) = Len(text) + 1 - (first + 2)
        /\ SubSeq(bare, 3, Len(bare)) \in Seq(Character)
        /\ Rest(text, first + 2) \in Seq(Character)
    <3> HIDE DEF first, bare
    <3>1. /\ Len(Rest(text, first + 2)) = Len(text) + 1 - (first + 2)
          /\ Rest(text, first + 2) \in Seq(Character)
      BY <2>1, RestFacts
    <3>2. Len(bare) \in Nat /\ 2 <= Len(bare)
      BY <1>1, <1>3, <1>4, <2>1
    <3>3. SubSeq(bare, 3, Len(bare)) \in Seq(Character)
      BY <1>4, <3>2
    <3>4. Len(SubSeq(bare, 3, Len(bare))) = Len(bare) - 2
      BY <1>4, <3>2
    <3>5. Len(bare) - 2 = Len(text) + 1 - (first + 2)
      BY <1>1, <1>3, <1>4
    <3> QED BY <3>1, <3>3, <3>4, <3>5
  <2>3. ASSUME NEW i \in 1 .. Len(text) + 1 - (first + 2)
        PROVE  SubSeq(bare, 3, Len(bare))[i] = Rest(text, first + 2)[i]
    <3> HIDE DEF first, bare, hex
    <3>1. Rest(text, first + 2)[i] = text[first + 2 + i - 1]
      BY <2>1, RestFacts
    <3>2. /\ i \in 1 .. Len(bare) - 2 /\ i + 2 \in 1 .. Len(text) + 1 - first
          /\ first + (i + 2) - 1 = first + 2 + i - 1 /\ 3 + i - 1 = i + 2
      BY <1>1, <1>3, <1>4
    <3>3. SubSeq(bare, 3, Len(bare))[i] = bare[i + 2]
      BY <1>1, <1>3, <1>4, <3>2
    <3> QED BY <1>4, <3>1, <3>2, <3>3
  <2> HIDE DEF first, bare, hex
  <2> DEFINE u == SubSeq(bare, 3, Len(bare))
             v == Rest(text, first + 2)
  <2> HIDE DEF u, v
  <2>4. u \in Seq(Character) /\ v \in Seq(Character) /\ Len(u) = Len(v)
    BY <2>2 DEF u, v
  <2>5. \A i \in 1 .. Len(u) : u[i] = v[i]
    BY <2>2, <2>3 DEF u, v
  <2> QED BY <2>4, <2>5 DEF u, v
<1> HIDE DEF bare, hex
<1>7. (IF hex THEN SubSeq(bare, 3, Len(bare)) ELSE bare)
        = Rest(text, StrtoulStart(text, call.with))
  BY <1>5, <1>6 DEF StrtoulStart, first, bare
<1> QED BY <1>2, <1>7 DEF hex, bare, first
-----------------------------------------------------------------------------
(* Each parser decides right when it ends *)

LEMMA AtouDecides ==
  ASSUME ValueInv, AtouRead, pc = "atou", ~ Takes(Char(at))
  PROVE  AtouRight(text, base, count > 0 /\ Char(at) = NUL, val)
<1> DEFINE start == AtouStart(text, base)
           body == Rest(text, start)
           D == Denotes(body, base)
           M == MaxUnsigned
<1>1. /\ text \in Seq(Character) /\ at \in Nat \ {0} /\ base \in {10, 16} /\ count \in Nat
      /\ val \in Nat /\ val <= M
      /\ base = 16 => count <= Width
  BY DEF ValueInv, TypeOK
<1>2. /\ ReadTo(text, start, at, base) /\ count = at - start
      /\ val = Sofar(text, start, at, base)
  BY DEF AtouRead
<1>3. start \in 1 .. Len(text) + 1 /\ at \in start .. Len(text) + 1
  BY <1>2 DEF ReadTo
<1>4. body \in Seq(Nat) /\ Len(body) = Len(text) + 1 - start
  BY <1>1, <1>3, RestFacts
<1>5. Char(at) = IF at <= Len(text) THEN text[at] ELSE NUL
  <2>1. DOMAIN text = 1 .. Len(text) /\ at \in Nat \ {0} /\ Len(text) \in Nat
    BY <1>1
  <2> QED BY <2>1 DEF Char
<1>6. M \in Nat
  BY MaxUnsignedFacts
<1>7. D \in Nat /\ val <= D
  BY <1>1, <1>2, ReadGrows
<1> HIDE DEF start, body, D, M
<1>8. CASE at = Len(text) + 1
  <2>1. Char(at) = NUL /\ count = Len(body)
    BY <1>1, <1>2, <1>3, <1>4, <1>5, <1>8
  <2>2. D = val /\ Leading(body, base) = body
    BY <1>1, <1>2, <1>8, ReadGrows DEF D, body
  <2>3. body # <<>> <=> count > 0
    BY <1>4, <2>1
  <2>4. IF base = 16 THEN Len(body) <= Width ELSE D <= M
    BY <1>1, <2>1, <2>2
  <2> QED BY <2>1, <2>2, <2>3, <2>4 DEF AtouRight, D, body, start, M
<1>9. CASE at # Len(text) + 1
  <2>0. \A c \in Character : c \in Nat /\ c # NUL
    BY DEF Character, NUL
  <2>1. at <= Len(text) /\ Char(at) = text[at] /\ text[at] \in Character /\ text[at] \in Nat
    <3>1. at \in 1 .. Len(text)
      BY <1>1, <1>3, <1>9
    <3>2. text[at] \in Character
      BY <1>1, <3>1
    <3>3. at <= Len(text) /\ Char(at) = text[at]
      BY <1>5, <3>1
    <3> QED BY <2>0, <3>2, <3>3
  <2>2. Char(at) # NUL
    BY <2>0, <2>1
  <2>3. count \in 0 .. Len(body) /\ count < Len(body)
    BY <1>1, <1>2, <1>3, <1>4, <2>1
  <2>7. Digit(text[at], base) <=> text[at] < base
    BY <1>1, <2>1 DEF Digit
  <2>4. CASE ~ Digit(text[at], base)
    <3>1. Leading(body, base) = SubSeq(body, 1, count)
      BY <1>1, <1>2, <2>4, ReadEnds DEF body
    <3>2. Len(SubSeq(body, 1, count)) = count
      BY <1>4, <2>3
    <3>3. Leading(body, base) # body
      BY <2>3, <3>1, <3>2
    <3> QED BY <2>2, <3>3 DEF AtouRight, body, start
  <2>5. CASE Digit(text[at], base)
    <3>1. CASE base = 16
      <4>1. count >= Width
        BY <1>1, <2>1, <2>5, <2>7, <3>1, ConversionsAssumption DEF Takes
      <4>2. ~ (Len(body) <= Width)
        BY <1>1, <1>4, <2>3, <4>1, ConversionsAssumption
      <4> QED BY <2>2, <3>1, <4>2 DEF AtouRight, body, start
    <3>2. CASE base = 10
      <4>1. Overflows(text[at])
        BY <2>1, <2>5, <2>7, <3>2 DEF Takes
      <4>2. val * base + text[at] > M
        BY <1>1, <2>1, <2>5, <2>7, <3>2, <4>1, OverflowExact DEF M
      <4>3. /\ ReadTo(text, start, at + 1, base)
            /\ Sofar(text, start, at + 1, base) = val * base + text[at]
        BY <1>1, <1>2, <2>1, <2>5, ReadNext
      <4>4. val * base + text[at] <= D
        BY <1>1, <4>3, ReadGrows DEF D, body
      <4>5. val * base + text[at] \in Nat
        BY <1>1, <2>1, <3>2
      <4>6. ~ (D <= M)
        BY <1>6, <1>7, <4>2, <4>4, <4>5
      <4> QED BY <2>2, <3>2, <4>6 DEF AtouRight, D, body, start, M
    <3> QED BY <1>1, <3>1, <3>2
  <2> QED BY <2>4, <2>5
<1> QED BY <1>8, <1>9

LEMMA StrtoulDecides ==
  ASSUME ValueInv, StrtoulRead, pc = "strtoul", ~ Digit(Char(at), base)
  PROVE  LET start == StrtoulStart(text, call.with)
             digits == Leading(Rest(text, start), base)
             n == Denotes(digits, base)
         IN  /\ n \in Nat
             /\ count >= 0 <=> n <= MaxUnsigned
             /\ count >= 0 => val = n
             /\ digits = <<>> <=> count = 0
             /\ count # 0 => at > 1
<1> DEFINE start == StrtoulStart(text, call.with)
           body == Rest(text, start)
           digits == Leading(body, base)
           D == Denotes(digits, base)
           M == MaxUnsigned
<1>1. /\ text \in Seq(Character) /\ at \in Nat \ {0} /\ base \in 1 .. 255 /\ base \in Nat \ {0}
      /\ val \in Nat /\ val <= M
  BY DEF ValueInv, TypeOK
<1>2. /\ ReadTo(text, start, at, base) /\ count \in {-1, 0, 1}
      /\ count = 0 <=> at = start
      /\ count >= 0 => val = Sofar(text, start, at, base)
      /\ count < 0 => Sofar(text, start, at, base) > M
  BY DEF StrtoulRead
<1>3. start \in 1 .. Len(text) + 1 /\ at \in start .. Len(text) + 1
  BY <1>2 DEF ReadTo
<1>4. body \in Seq(Nat) /\ Len(body) = Len(text) + 1 - start
  BY <1>1, <1>3, RestFacts
<1>5. M \in Nat
  BY MaxUnsignedFacts
<1> HIDE DEF start, M
<1>6. at <= Len(text) => ~ Digit(text[at], base)
  <2>1. at <= Len(text) => at \in DOMAIN text
    BY <1>1
  <2> QED BY <2>1 DEF Char
<1>7. digits = SubSeq(body, 1, at - start)
  BY <1>1, <1>2, <1>6, ReadEnds
<1>8. D = Sofar(text, start, at, base) /\ D \in Nat
  BY <1>1, <1>2, <1>7, ReadNext DEF Sofar
<1>9. digits = <<>> <=> at = start
  <2> HIDE DEF body, digits
  <2>1. Len(digits) = at - start /\ digits \in Seq(Nat)
    BY <1>3, <1>4, <1>7
  <2> QED BY <1>3, <2>1
<1> HIDE DEF D, digits, body
<1>10. count >= 0 <=> D <= M
  BY <1>1, <1>2, <1>5, <1>8
<1>11. count # 0 => at > 1
  BY <1>1, <1>2, <1>3
<1>12. (count >= 0 => val = D) /\ (digits = <<>> <=> count = 0)
  BY <1>2, <1>8, <1>9
<1> QED BY <1>8, <1>10, <1>11, <1>12 DEF D, M, digits, body, start

LEMMA ParseInit == Init => ParseInv
BY DEF Init, ParseInv

LEMMA ParsersStart ==
  ASSUME ValueInv, (pc = "idle" /\ Begin) \/ AtouPrinted
  PROVE  ParseInv'
<1>1. ASSUME NEW s \in Seq(Character), NEW radix, BeginAtou(s, radix) PROVE ParseInv'
  <2>1. /\ pc' = "atou" /\ text' = s /\ base' \in {10, 16}
        /\ at' = AtouStart(s, base') /\ val' = 0 /\ count' = 0
    BY <1>1 DEF BeginAtou, AtouStart
  <2> DEFINE start == AtouStart(s, base')
  <2>2. start \in 1 .. Len(s) + 1
    BY <1>1, StartFacts
  <2>3. ReadTo(s, start, start, base') /\ Sofar(s, start, start, base') = 0
    <3>1. base' \in Nat \ {0}
      BY <2>1
    <3> QED BY <2>1, <2>2, <3>1, ReadBegins
  <2>4. AtouRead'
    BY <2>1, <2>2, <2>3 DEF AtouRead
  <2> QED BY <2>1, <2>4 DEF ParseInv
<1>2. ASSUME NEW s \in Seq(Character), NEW radix \in Radix, Strtoul(s, radix)
      PROVE  ParseInv'
  <2>1. /\ pc' = "strtoul" /\ text' = s /\ call'.with = radix /\ val' = 0 /\ count' = 0
    BY <1>2 DEF Strtoul
  <2>2. base' \in Nat \ {0}
    <3>1. radix \in 0 .. 255
      BY ConversionsAssumption
    <3> QED BY <1>2, <3>1 DEF Strtoul
  <2>3. at' = StrtoulStart(s, radix)
    BY <1>2 DEF Strtoul, StrtoulStart, Hex, First, At
  <2> DEFINE start == StrtoulStart(s, radix)
  <2>4. start \in 1 .. Len(s) + 1
    BY <1>2, StartFacts
  <2>5. ReadTo(s, start, start, base') /\ Sofar(s, start, start, base') = 0
    BY <2>2, <2>4, ReadBegins
  <2>6. StrtoulRead'
    BY <2>1, <2>3, <2>4, <2>5 DEF StrtoulRead
  <2> QED BY <2>1, <2>6 DEF ParseInv
<1>3. ASSUME NEW v, NEW radix, Utoa(v, radix) PROVE ParseInv'
  BY <1>3 DEF Utoa, ParseInv
<1>4. ASSUME NEW d, NEW s, Date(d, s) PROVE ParseInv'
  BY <1>4 DEF Date, ParseInv
<1>5. CASE pc = "idle" /\ Begin
  BY <1>1, <1>2, <1>3, <1>4, <1>5, TextAssumption DEF Begin, Atou
<1>6. CASE AtouPrinted
  <2>1. text \in Seq(Character)
    BY DEF ValueInv, TypeOK
  <2> QED BY <1>1, <1>6, <2>1 DEF AtouPrinted
<1> QED BY <1>5, <1>6

LEMMA ParsersRead ==
  ASSUME ValueInv, ParseInv, AtouDigit \/ StrtoulDigit
  PROVE  ParseInv'
<1>1. /\ text \in Seq(Character) /\ at \in Nat \ {0} /\ base \in 1 .. 255 /\ base \in Nat \ {0}
      /\ val \in Nat
  BY DEF ValueInv, TypeOK
<1>2. ASSUME Digit(Char(at), base)
      PROVE  /\ at <= Len(text) /\ Char(at) = text[at]
             /\ text[at] \in Nat /\ text[at] < base /\ Digit(text[at], base)
  <2>1. Char(at) \in 0 .. 39 /\ Char(at) < 36
    BY <1>1, <1>2, CharFacts DEF Digit
  <2>2. at <= Len(text) /\ Char(at) = text[at]
    BY <1>1, <2>1, CharFacts
  <2>3. Char(at) \in Nat /\ Char(at) < base
    BY <1>2, <2>1 DEF Digit
  <2> QED BY <1>2, <2>2, <2>3
<1>3. CASE AtouDigit
  <2> DEFINE start == AtouStart(text, base)
  <2>1. /\ ReadTo(text, start, at, base) /\ count = at - start
        /\ val = Sofar(text, start, at, base)
    BY <1>3 DEF AtouDigit, ParseInv, AtouRead
  <2>2. Digit(Char(at), base)
    <3>0. Char(at) \in 0 .. 39
      BY <1>1, CharFacts
    <3>1. CASE base = 10
      BY <1>3, <3>0, <3>1 DEF AtouDigit, Takes, Digit
    <3>2. CASE base # 10
      <4>1. base = 16
        BY <1>3, <3>2 DEF AtouDigit, ValueInv
      <4> QED BY <1>3, <3>0, <4>1 DEF AtouDigit, Takes, Digit
    <3> QED BY <3>1, <3>2
  <2>3. at <= Len(text) /\ Char(at) = text[at] /\ Digit(text[at], base)
    BY <1>2, <2>2
  <2>4. /\ ReadTo(text, start, at + 1, base)
        /\ Sofar(text, start, at + 1, base) = Sofar(text, start, at, base) * base + text[at]
    BY <1>1, <2>1, <2>3, ReadNext
  <2>5. /\ UNCHANGED <<text, base, pc>> /\ at' = at + 1 /\ count' = count + 1
        /\ val' = val * base + Char(at) /\ pc = "atou"
    BY <1>3 DEF AtouDigit
  <2>6. count' = (at + 1) - start
    <3>1. start \in Nat
      BY <2>1 DEF ReadTo
    <3> HIDE DEF start
    <3> QED BY <1>1, <2>1, <2>5, <3>1
  <2>7. val' = Sofar(text, start, at + 1, base)
    BY <2>1, <2>3, <2>4, <2>5
  <2>8. AtouRead'
    BY <2>4, <2>5, <2>6, <2>7 DEF AtouRead
  <2> QED BY <2>5, <2>8 DEF ParseInv
<1>4. CASE StrtoulDigit
  <2> DEFINE start == StrtoulStart(text, call.with)
             M == MaxUnsigned
  <2>1. /\ ReadTo(text, start, at, base) /\ count \in {-1, 0, 1}
        /\ count = 0 <=> at = start
        /\ count >= 0 => val = Sofar(text, start, at, base)
        /\ count < 0 => Sofar(text, start, at, base) > M
    BY <1>4 DEF StrtoulDigit, ParseInv, StrtoulRead
  <2>2. Digit(Char(at), base)
    BY <1>4 DEF StrtoulDigit
  <2>3. at <= Len(text) /\ Char(at) = text[at] /\ text[at] < base /\ text[at] \in Nat /\ Digit(text[at], base)
    BY <1>2, <2>2
  <2>4. /\ ReadTo(text, start, at + 1, base)
        /\ Sofar(text, start, at + 1, base) = Sofar(text, start, at, base) * base + text[at]
        /\ Sofar(text, start, at, base) \in Nat
    BY <1>1, <2>1, <2>3, ReadNext
  <2>5. start \in Nat /\ start <= at
    BY <2>1 DEF ReadTo
  <2>6. UNCHANGED <<text, base, pc, call>> /\ at' = at + 1 /\ pc = "strtoul"
    BY <1>4 DEF StrtoulDigit
  <2>7. at + 1 # start
    <3> HIDE DEF start
    <3> QED BY <1>1, <2>5
  <2>8. M \in Nat
    BY MaxUnsignedFacts
  <2>9. Overflows(text[at]) <=> val * base + text[at] > M
    BY <1>1, <2>3, OverflowExact
  <2>10. CASE count < 0 \/ Overflows(text[at])
    <3>1. count' = -1
      BY <1>4, <2>3, <2>10 DEF StrtoulDigit
    <3>2. Sofar(text, start, at + 1, base) > M
      <4> DEFINE S == Sofar(text, start, at, base)
      <4>1. CASE count < 0
        <5>1. S > M /\ S \in Nat
          BY <2>1, <2>4, <4>1
        <5> HIDE DEF S
        <5>2. S * base + text[at] > M
          BY <1>1, <2>3, <2>8, <5>1
        <5> QED BY <2>4, <5>2 DEF S
      <4>2. CASE ~ (count < 0)
        <5>1. Overflows(text[at]) /\ val = S
          BY <2>1, <2>10, <4>2
        <5> QED BY <2>4, <2>9, <5>1
      <4> QED BY <4>1, <4>2
    <3>3. StrtoulRead'
      BY <2>4, <2>6, <2>7, <3>1, <3>2 DEF StrtoulRead
    <3> QED BY <2>6, <3>3 DEF ParseInv
  <2>11. CASE ~ (count < 0 \/ Overflows(text[at]))
    <3>1. count' = 1 /\ val' = val * base + text[at] /\ val = Sofar(text, start, at, base)
      BY <1>4, <2>1, <2>3, <2>11 DEF StrtoulDigit
    <3>2. StrtoulRead'
      BY <2>4, <2>6, <2>7, <3>1 DEF StrtoulRead
    <3> QED BY <2>6, <3>2 DEF ParseInv
  <2> QED BY <2>10, <2>11
<1> QED BY <1>3, <1>4

LEMMA ParsersEnd ==
  ASSUME ValueInv, ParseInv, AtouEnds \/ StrtoulEnds
  PROVE  ParseInv'
<1>1. CASE AtouEnds
  <2>1. AtouRight(text, base, count > 0 /\ Char(at) = NUL, val)
    BY <1>1, AtouDecides DEF AtouEnds, ParseInv
  <2>2. /\ pc = "atou" /\ pc' = "done" /\ UNCHANGED <<call, text, base, val>>
        /\ ok' = (count > 0 /\ Char(at) = NUL)
    BY <1>1 DEF AtouEnds
  <2>3. AtouRight(text', base', ok', val')
    BY <2>1, <2>2
  <2>4. call'.fn # "strtoul"
    BY <2>2 DEF ValueInv
  <2> QED BY <2>2, <2>3, <2>4 DEF ParseInv
<1>2. CASE StrtoulEnds
  <2> DEFINE digits == Leading(Rest(text, StrtoulStart(text, call.with)), base)
             n == Denotes(digits, base)
             M == MaxUnsigned
  <2>1. /\ n \in Nat
        /\ count >= 0 <=> n <= M
        /\ count >= 0 => val = n
        /\ digits = <<>> <=> count = 0
        /\ count # 0 => at > 1
    BY <1>2, StrtoulDecides DEF StrtoulEnds, ParseInv
  <2>2. pc = "strtoul" /\ pc' = "done" /\ UNCHANGED <<call, text, base, neg>>
    BY <1>2 DEF StrtoulEnds
  <2>3. /\ ok' = (count >= 0)
        /\ val' = IF count < 0 THEN M ELSE IF neg THEN (- val) % (M + 1) ELSE val
        /\ at' = IF count = 0 THEN 1 ELSE at
    BY <1>2 DEF StrtoulEnds
  <2>4. at \in Nat \ {0} /\ count \in Int /\ M \in Nat
    BY MaxUnsignedFacts DEF ValueInv, TypeOK
  <2> HIDE DEF digits, n, M
  <2>5. ok' <=> n <= M
    BY <2>1, <2>3
  <2>6. digits = <<>> <=> at' = 1
    BY <2>1, <2>3, <2>4
  <2>7. val' = IF n > M THEN M ELSE IF neg THEN (M + 1 - n) % (M + 1) ELSE n
    <3>1. CASE count < 0
      <4>1. n > M
        BY <2>1, <2>4, <3>1
      <4> QED BY <2>3, <3>1, <4>1
    <3>2. CASE ~ (count < 0)
      <4>1. val = n /\ ~ (n > M) /\ n \in 0 .. M
        BY <2>1, <2>4, <3>2
      <4>2. (- n) % (M + 1) = (M + 1 - n) % (M + 1)
        BY <4>1, Negation DEF M
      <4> QED BY <2>3, <3>2, <4>1, <4>2
    <3> QED BY <3>1, <3>2
  <2>8. StrtoulRight(text, call.with, base, ok', val', neg, at')
    BY <2>5, <2>6, <2>7 DEF StrtoulRight, digits, n, M
  <2>9. call.fn = "strtoul"
    BY <2>2 DEF ValueInv
  <2> QED BY <2>2, <2>8, <2>9 DEF ParseInv
<1> QED BY <1>1, <1>2

LEMMA ParseStep == ValueInv /\ DateInv /\ ParseInv /\ [Next]_vars => ParseInv'
<1> SUFFICES ASSUME ValueInv, DateInv, ParseInv, [Next]_vars PROVE ParseInv'
  OBVIOUS
<1>1. CASE UNCHANGED vars
  BY <1>1 DEF vars, date, ParseInv, AtouRead, StrtoulRead
<1>2. CASE CountDigit \/ WriteDigit \/ Printed
  BY <1>2 DEF CountDigit, WriteDigit, Printed, ParseInv
<1>3. CASE YearPasses \/ YearFound \/ MonthPasses \/ MonthFound
  <2>1. call' = call /\ call.fn = "date" /\ pc' \in {"year", "month", "done"}
    BY <1>3 DEF DateInv, YearPasses, YearFound, MonthPasses, MonthFound
  <2> QED BY <2>1 DEF ParseInv
<1> QED BY <1>1, <1>2, <1>3, ParsersStart, ParsersRead, ParsersEnd DEF Next

\* Every text is parsed right, at the limits of a type of any width: what fits
\* is taken and what does not is refused.
THEOREM OnlyWhatFits == Spec => []ParsesWhatFits
<1>1. ASSUME ValueInv, ParseInv PROVE ParsesWhatFits
  <2>1. text \in Seq(Character)
    BY <1>1 DEF ValueInv, TypeOK
  <2>2. ASSUME Done({"atou"})
        PROVE  LET body == From(IF base = 16 /\ Prefixed THEN 3 ELSE 1)
                   n    == Denotes(body, base)
               IN  /\ ok <=> /\ body # <<>> /\ Leading(body, base) = body
                             /\ IF base = 16 THEN Len(body) <= Width ELSE n <= MaxUnsigned
                   /\ ok => val = n
    <3>1. AtouRight(text, base, ok, val)
      BY <1>1, <2>2 DEF ParseInv, Done
    <3> QED BY <2>1, <3>1, AtouBody DEF AtouRight
  <2>3. ASSUME Done({"strtoul"})
        PROVE  LET bare   == From(IF Char(1) \in {Plus, Minus} THEN 2 ELSE 1)
                   hex    == call.with \in {0, 16} /\ Len(bare) > 1 /\ bare[1] = 0 /\ bare[2] = X
                   digits == Leading(IF hex THEN SubSeq(bare, 3, Len(bare)) ELSE bare, base)
                   n      == Denotes(digits, base)
               IN  /\ ok <=> n <= MaxUnsigned
                   /\ val = IF n > MaxUnsigned THEN MaxUnsigned
                             ELSE IF neg THEN (MaxUnsigned + 1 - n) % (MaxUnsigned + 1) ELSE n
                   /\ digits = <<>> <=> at = 1
    <3>1. StrtoulRight(text, call.with, base, ok, val, neg, at)
      BY <1>1, <2>3 DEF ParseInv, Done
    <3> QED BY <2>1, <3>1, StrtoulBody DEF StrtoulRight
  <2> QED BY <2>2, <2>3 DEF ParsesWhatFits
<1> QED BY <1>1, DateInit, DateStep, ValueInit, ValueStep, ParseInit, ParseStep, PTL DEF Spec
-----------------------------------------------------------------------------
(* Printing and parsing again *)

\* q are the numbers that are left when i digits of v have been cut off.
Quotients(q, n, v, b) ==
  /\ q \in [0 .. n -> Nat]
  /\ q[0] = v
  /\ \A i \in 1 .. n : q[i] = q[i - 1] \div b

\* So far there was something left after each digit.
Counted(q) ==
  /\ Quotients(q, count, call.number, base)
  /\ val = q[count]
  /\ \A i \in 1 .. count : q[i] # 0

\* What is left and what is written make up the number; after as many digits as
\* were counted, and no sooner, nothing is left.
Written(q, f) ==
  LET n == count + Len(text) IN
  /\ Quotients(q, n, call.number, base)
  /\ n >= 1 /\ q[n] = 0 /\ \A i \in 1 .. n - 1 : q[i] # 0
  /\ val = q[Len(text)]
  /\ text # <<>> => text[1] = q[Len(text) - 1] % base
  /\ \A i \in 1 .. Len(text) : text[i] < base
  /\ base = 16 => n <= Width
  /\ Reads(f, val, text, base) /\ f[Len(text)] = call.number

IsPrint(s, b, n) ==
  /\ s # <<>> /\ (Len(s) > 1 => s[1] # 0)
  /\ \A i \in 1 .. Len(s) : s[i] < b
  /\ b = 16 => Len(s) <= Width
  /\ Denotes(s, b) = n /\ n <= MaxUnsigned

PrintInv ==
  /\ pc \in {"count", "write", "printed"} => base = Radix10or16(call.with)
  /\ pc = "count" => /\ text = <<>>
                     /\ \E q : Counted(q)
                     /\ base = 16 => count < Width /\ val < HexValues[Width - count]
  /\ pc = "write" => \E q, f : Written(q, f)
  /\ pc = "printed" \/ (pc = "atou" /\ call.fn = "again") => IsPrint(text, base, call.number)
  /\ pc = "done" /\ call.fn = "again" => ok /\ val = call.number

LEMMA PrintInit == Init => PrintInv
BY DEF Init, PrintInv

LEMMA QuotientFacts ==
  ASSUME NEW v \in Nat, NEW b \in {10, 16}
  PROVE  /\ v \div b \in Nat /\ v % b \in 0 .. b - 1
         /\ v = (v \div b) * b + (v % b)
         /\ v \div b = 0 => v % b = v
<1>1. \A x \in Nat : x \div 10 \in Nat /\ x % 10 \in 0 .. 9
  BY SMT
<1>2. \A x \in Nat : x = (x \div 10) * 10 + (x % 10)
  BY SMT
<1>3. \A x \in Nat : x \div 10 = 0 => x % 10 = x
  BY SMT
<1>4. \A x \in Nat : x \div 16 \in Nat /\ x % 16 \in 0 .. 15
  BY SMT
<1>5. \A x \in Nat : x = (x \div 16) * 16 + (x % 16)
  BY SMT
<1>6. \A x \in Nat : x \div 16 = 0 => x % 16 = x
  BY SMT
<1>7. CASE b = 10
  BY <1>1, <1>2, <1>3, <1>7
<1>8. CASE b = 16
  BY <1>4, <1>5, <1>6, <1>8
<1> QED BY <1>7, <1>8

LEMMA OneMoreQuotient ==
  ASSUME NEW n \in Nat, NEW v \in Nat, NEW b \in {10, 16}, NEW q, Quotients(q, n, v, b)
  PROVE  \E p : /\ Quotients(p, n + 1, v, b)
                /\ p[n + 1] = q[n] \div b
                /\ \A i \in 0 .. n : p[i] = q[i]
<1> DEFINE p == [i \in 0 .. n + 1 |-> IF i = n + 1 THEN q[n] \div b ELSE q[i]]
<1>1. q \in [0 .. n -> Nat] /\ q[0] = v /\ \A i \in 1 .. n : q[i] = q[i - 1] \div b
  BY DEF Quotients
<1>2. q[n] \in Nat /\ q[n] \div b \in Nat
  BY <1>1, QuotientFacts
<1>3. p \in [0 .. n + 1 -> Nat]
  BY <1>1, <1>2
<1>4. p[n + 1] = q[n] \div b /\ \A i \in 0 .. n : p[i] = q[i]
  OBVIOUS
<1> HIDE DEF p
<1>5. ASSUME NEW i \in 1 .. n + 1 PROVE p[i] = p[i - 1] \div b
  <2>1. CASE i = n + 1
    <3>1. i - 1 = n /\ n \in 0 .. n
      BY <2>1
    <3> QED BY <1>4, <2>1, <3>1
  <2>2. CASE i # n + 1
    <3>1. i \in 1 .. n /\ i \in 0 .. n /\ i - 1 \in 0 .. n
      BY <2>2
    <3> QED BY <1>1, <1>4, <3>1
  <2> QED BY <2>1, <2>2
<1>6. p[0] = v
  BY <1>1, <1>4
<1>7. Quotients(p, n + 1, v, b)
  BY <1>3, <1>5, <1>6 DEF Quotients
<1> QED BY <1>4, <1>7

\* A digit in front takes the part of the number in front of it.
LEMMA OneMoreInFront ==
  ASSUME NEW s \in Seq(Nat), NEW b \in Nat, NEW v \in Nat, NEW w \in Nat, NEW d \in Nat,
         v = w * b + d, NEW f, Reads(f, v, s, b)
  PROVE  \E g : /\ Reads(g, w, <<d>> \o s, b)
                /\ g[Len(<<d>> \o s)] = f[Len(s)]
<1> DEFINE t == <<d>> \o s
           g == [i \in 0 .. Len(s) + 1 |-> IF i = 0 THEN w ELSE f[i - 1]]
<1>1. /\ Len(t) = Len(s) + 1 /\ Len(s) \in Nat /\ t[1] = d
      /\ \A i \in 2 .. Len(s) + 1 : t[i] = s[i - 1]
  OBVIOUS
<1>2. /\ f \in [0 .. Len(s) -> Nat] /\ f[0] = v
      /\ \A i \in 1 .. Len(s) : f[i] = f[i - 1] * b + s[i]
  BY DEF Reads
<1>3. \A i \in 1 .. Len(s) + 1 : i - 1 \in 0 .. Len(s) /\ f[i - 1] \in Nat
  <2> TAKE i \in 1 .. Len(s) + 1
  <2>1. i - 1 \in 0 .. Len(s)
    BY <1>1
  <2> QED BY <1>2, <2>1
<1>4. g \in [0 .. Len(s) + 1 -> Nat]
  BY <1>1, <1>3
<1>5. g[0] = w /\ \A i \in 1 .. Len(s) + 1 : g[i] = f[i - 1]
  BY <1>1
<1> HIDE DEF g, t
<1>6. ASSUME NEW i \in 1 .. Len(s) + 1 PROVE g[i] = g[i - 1] * b + t[i]
  <2>1. CASE i = 1
    <3>1. g[1] = f[0] /\ i - 1 = 0
      BY <1>1, <1>5, <2>1
    <3> QED BY <1>1, <1>2, <1>5, <2>1, <3>1
  <2>2. CASE i # 1
    <3>1. i - 1 \in 1 .. Len(s) /\ i \in 2 .. Len(s) + 1 /\ i - 1 \in 1 .. Len(s) + 1
      BY <1>1, <2>2
    <3>2. g[i] = f[i - 1] /\ g[i - 1] = f[(i - 1) - 1] /\ t[i] = s[i - 1]
      BY <1>1, <1>5, <3>1
    <3>3. f[i - 1] = f[(i - 1) - 1] * b + s[i - 1]
      BY <1>2, <3>1
    <3> QED BY <3>2, <3>3
  <2> QED BY <2>1, <2>2
<1>7. Reads(g, w, t, b)
  BY <1>1, <1>4, <1>5, <1>6 DEF Reads
<1>8. g[Len(t)] = f[Len(s)]
  <2>1. Len(s) + 1 \in 1 .. Len(s) + 1 /\ (Len(s) + 1) - 1 = Len(s)
    BY <1>1
  <2> QED BY <1>1, <1>5, <2>1
<1> QED BY <1>7, <1>8 DEF t

LEMMA PrintBegins ==
  ASSUME ValueInv, pc = "idle", Begin
  PROVE  PrintInv'
<1>1. ASSUME NEW v \in Number, NEW radix \in {10, 16}, Utoa(v, radix) PROVE PrintInv'
  <2>1. /\ pc' = "count" /\ call' = [fn |-> "utoa", number |-> v, with |-> radix]
        /\ val' = v /\ base' = Radix10or16(radix) /\ text' = <<>> /\ count' = 0
    BY <1>1 DEF Utoa, ValueInv
  <2>2. v \in Nat /\ v < HexValues[Width]
    BY ConversionsAssumption, MaxUnsignedFacts
  <2>3. Width - 0 = Width /\ 0 < Width
    BY ConversionsAssumption
  <2> DEFINE q == [i \in 0 .. 0 |-> v]
  <2>4. Counted(q)'
    <3>1. q \in [0 .. 0 -> Nat] /\ q[0] = v
      BY <2>2
    <3> HIDE DEF q
    <3> QED BY <2>1, <3>1 DEF Counted, Quotients
  <2>5. \E p : Counted(p)'
    <3> HIDE DEF q
    <3> QED BY <2>4
  <2> QED BY <2>1, <2>2, <2>3, <2>5 DEF PrintInv
<1>2. ASSUME NEW s, NEW radix, Atou(s, radix) PROVE PrintInv'
  BY <1>2 DEF Atou, BeginAtou, PrintInv
<1>3. ASSUME NEW s, NEW radix, Strtoul(s, radix) PROVE PrintInv'
  BY <1>3 DEF Strtoul, PrintInv
<1>4. ASSUME NEW d, NEW s, Date(d, s) PROVE PrintInv'
  BY <1>4 DEF Date, PrintInv
<1> QED BY <1>1, <1>2, <1>3, <1>4 DEF Begin

LEMMA CountKeepsPrint ==
  ASSUME ValueInv, PrintInv, CountDigit
  PROVE  PrintInv'
<1>1. /\ pc = "count" /\ text = <<>> /\ base \in {10, 16} /\ count \in Nat
      /\ val \in Nat /\ call.number \in Nat
      /\ base = 16 => count < Width /\ val < HexValues[Width - count]
      /\ base = Radix10or16(call.with)
  BY DEF CountDigit, ValueInv, TypeOK, PrintInv
<1>2. PICK q : Counted(q)
  BY <1>1 DEF PrintInv
<1>3. PICK p : /\ Quotients(p, count + 1, call.number, base)
               /\ p[count + 1] = q[count] \div base
               /\ \A i \in 0 .. count : p[i] = q[i]
  BY <1>1, <1>2, OneMoreQuotient DEF Counted
<1>4. p[count + 1] = val \div base /\ \A i \in 1 .. count : p[i] # 0
  BY <1>1, <1>2, <1>3 DEF Counted
<1>5. UNCHANGED <<call, text, base>> /\ count' = count + 1
  BY DEF CountDigit
<1>6. CASE val \div base = 0
  <2>1. pc' = "write" /\ val' = call.number
    BY <1>6 DEF CountDigit
  <2>2. PICK f : Reads(f, call.number, <<>>, base) /\ f[0] = call.number
    <3> DEFINE g == [i \in 0 .. 0 |-> call.number]
    <3>1. g \in [0 .. 0 -> Nat] /\ g[0] = call.number
      BY <1>1
    <3> HIDE DEF g
    <3>2. Reads(g, call.number, <<>>, base)
      BY <3>1 DEF Reads
    <3> QED BY <3>1, <3>2
  <2>4. base = 16 => count + 1 <= Width
    BY <1>1, ConversionsAssumption
  <2>5. p[0] = call.number
    BY <1>3 DEF Quotients
  <2> DEFINE n == count + 1
  <2>6. n \in Nat /\ n - 1 = count /\ n >= 1 /\ p[n] = 0
    BY <1>1, <1>4, <1>6
  <2>7. Quotients(p, n, call.number, base) /\ \A i \in 1 .. n - 1 : p[i] # 0
    BY <1>3, <1>4, <2>6
  <2>8. base = 16 => n <= Width
    BY <2>4
  <2>9. count' = n
    BY <1>5
  <2>10. /\ text' = <<>> /\ base' = base /\ val' = call.number /\ call' = call
    BY <1>1, <1>5, <2>1
  <2> HIDE DEF n
  <2>11. /\ Len(text') = 0 /\ n + Len(text') = n /\ n + 0 = n
         /\ text' # <<>> => text'[1] = p[Len(text') - 1] % base'
         /\ \A i \in 1 .. Len(text') : text'[i] < base'
    BY <2>6, <2>10
  <2>12. /\ Len(text') = 0 /\ count' + Len(text') = n
         /\ Quotients(p, count' + Len(text'), call'.number, base')
         /\ \A i \in 1 .. count' + Len(text') - 1 : p[i] # 0
    BY <2>6, <2>7, <2>9, <2>10, <2>11
  <2>13. Reads(f, val', text', base') /\ f[Len(text')] = call'.number /\ val' = p[Len(text')]
    BY <2>2, <2>5, <2>10, <2>11
  <2>14. Written(p, f)'
    BY <2>6, <2>8, <2>9, <2>10, <2>11, <2>12, <2>13 DEF Written
  <2> QED BY <1>1, <1>5, <2>1, <2>14 DEF PrintInv
<1>7. CASE val \div base # 0
  <2>1. pc' = "count" /\ val' = val \div base
    BY <1>1, <1>7 DEF CountDigit
  <2>2. \A i \in 1 .. count + 1 : p[i] # 0
    <3> TAKE i \in 1 .. count + 1
    <3>1. i \in 1 .. count \/ i = count + 1
      BY <1>1
    <3> QED BY <1>4, <1>7, <3>1
  <2>3. Counted(p)'
    BY <1>3, <1>4, <1>5, <2>1, <2>2 DEF Counted
  <2>4. ASSUME base = 16
        PROVE  count + 1 < Width /\ val' < HexValues[Width - (count + 1)]
    <3> DEFINE w == Width - (count + 1)
               hw == HexValues[w]
    <3>1. w \in 0 .. Width - 1 /\ w + 1 = Width - count /\ w \in 0 .. Width
      BY <1>1, <2>4, ConversionsAssumption
    <3>2. HexValues[w + 1] = 16 * hw /\ hw \in Nat \ {0}
      BY <3>1, HexValuesFacts
    <3>3. val < 16 * hw
      BY <1>1, <2>4, <3>1, <3>2
    <3>4. val \div 16 # 0 /\ val' = val \div 16
      BY <1>7, <2>1, <2>4
    <3> HIDE DEF hw
    <3>5. val' < hw
      BY <1>1, <3>2, <3>3, <3>4
    <3>6. w # 0
      <4> SUFFICES ASSUME w = 0 PROVE FALSE
        OBVIOUS
      <4>1. hw = 1
        BY HexValuesFacts DEF hw
      <4> QED BY <1>1, <3>3, <3>4, <4>1
    <3> QED BY <1>1, <3>1, <3>5, <3>6, ConversionsAssumption DEF hw
  <2> QED BY <1>1, <1>5, <2>1, <2>3, <2>4 DEF PrintInv
<1> QED BY <1>6, <1>7

LEMMA WriteKeepsPrint ==
  ASSUME ValueInv, PrintInv, WriteDigit
  PROVE  PrintInv'
<1>1. /\ pc = "write" /\ text \in Seq(Character) /\ base \in {10, 16} /\ count \in Nat \ {0}
      /\ val \in Nat /\ call.number \in Nat
      /\ base = Radix10or16(call.with)
  BY DEF WriteDigit, ValueInv, TypeOK, PrintInv
<1>2. PICK q, f : Written(q, f)
  BY <1>1 DEF PrintInv
<1> DEFINE d == val % base
           w == val \div base
           t == <<d>> \o text
           n == count + Len(text)
<1>3. /\ Quotients(q, n, call.number, base)
      /\ n >= 1 /\ q[n] = 0 /\ \A i \in 1 .. n - 1 : q[i] # 0
      /\ val = q[Len(text)]
      /\ \A i \in 1 .. Len(text) : text[i] < base
      /\ base = 16 => n <= Width
      /\ Reads(f, val, text, base) /\ f[Len(text)] = call.number
  BY <1>2 DEF Written
<1>4. /\ UNCHANGED <<pc, call, base>> /\ text' = t /\ val' = w /\ count' = count - 1
  BY DEF WriteDigit
<1>5. w \in Nat /\ d \in 0 .. base - 1 /\ val = w * base + d
  BY <1>1, QuotientFacts
<1>6. text \in Seq(Nat) /\ d \in Nat /\ base \in Nat
  <2>1. text \in Seq(Nat)
    BY <1>1, DigitsAreNumbers
  <2>2. base \in Nat
    BY <1>1
  <2> HIDE DEF d
  <2>3. d \in Nat
    BY <1>5, <2>2
  <2> QED BY <2>1, <2>2, <2>3
<1> HIDE DEF d, w
<1>7. PICK g : Reads(g, w, t, base) /\ g[Len(t)] = f[Len(text)]
  BY <1>1, <1>3, <1>5, <1>6, OneMoreInFront
<1>8. /\ Len(t) = Len(text) + 1 /\ Len(text) \in Nat /\ t[1] = d /\ t # <<>>
      /\ \A i \in 2 .. Len(text) + 1 : t[i] = text[i - 1]
  BY <1>6
<1> HIDE DEF t
<1>9. (count - 1) + Len(t) = n
  BY <1>1, <1>8
<1>10. w = q[Len(t)]
  <2>1. Len(t) \in 1 .. n /\ Len(t) - 1 = Len(text)
    BY <1>1, <1>8
  <2> QED BY <1>3, <2>1 DEF Quotients, w
<1>11. t[1] = q[Len(t) - 1] % base
  <2>1. Len(t) - 1 = Len(text)
    BY <1>8
  <2> QED BY <1>3, <1>8, <2>1 DEF d
<1>12. ASSUME NEW i \in 1 .. Len(t) PROVE t[i] < base
  <2>1. CASE i = 1
    BY <1>1, <1>5, <1>8, <2>1
  <2>2. CASE i # 1
    <3>1. i \in 2 .. Len(text) + 1 /\ i - 1 \in 1 .. Len(text)
      BY <1>8, <2>2
    <3> QED BY <1>3, <1>8, <3>1
  <2> QED BY <2>1, <2>2
<1> HIDE DEF n
<1>13. Written(q, g)'
  BY <1>3, <1>4, <1>7, <1>9, <1>10, <1>11, <1>12 DEF Written
<1> QED BY <1>1, <1>4, <1>13 DEF PrintInv

LEMMA PrintedIsPrint ==
  ASSUME ValueInv, PrintInv, Printed
  PROVE  PrintInv'
<1>1. /\ pc = "write" /\ text \in Seq(Character) /\ base \in {10, 16} /\ count = 0
      /\ call.number <= MaxUnsigned
      /\ base = Radix10or16(call.with)
  BY DEF Printed, ValueInv, TypeOK, PrintInv
<1>2. PICK q, f : Written(q, f)
  BY <1>1 DEF PrintInv
<1> DEFINE n == Len(text)
<1>3. n \in Nat /\ 0 + n = n /\ text \in Seq(Nat)
  BY <1>1, DigitsAreNumbers
<1>4. /\ Quotients(q, n, call.number, base)
      /\ n >= 1 /\ q[n] = 0 /\ \A i \in 1 .. n - 1 : q[i] # 0
      /\ val = 0
      /\ text # <<>> => text[1] = q[n - 1] % base
      /\ \A i \in 1 .. n : text[i] < base
      /\ base = 16 => n <= Width
      /\ Reads(f, val, text, base) /\ f[n] = call.number
  BY <1>1, <1>2, <1>3 DEF Written
<1>5. text # <<>>
  BY <1>4
<1>6. Denotes(text, base) = call.number
  <2>1. base \in Nat
    BY <1>1
  <2> QED BY <1>3, <1>4, <2>1, DenotesReading
<1>7. ASSUME n > 1 PROVE text[1] # 0
  <2> HIDE DEF n
  <2>1. n - 1 \in 1 .. n - 1 /\ n \in 1 .. n /\ n - 1 \in 0 .. n
    BY <1>3, <1>7
  <2>2. q[n - 1] \in Nat /\ q[n - 1] # 0 /\ q[n - 1] \div base = 0
    BY <1>4, <2>1 DEF Quotients
  <2>3. q[n - 1] % base = q[n - 1]
    BY <1>1, <2>2, QuotientFacts
  <2> QED BY <1>4, <1>5, <2>2, <2>3
<1>8. IsPrint(text, base, call.number)
  BY <1>1, <1>4, <1>5, <1>6, <1>7 DEF IsPrint
<1>9. pc' = "printed" /\ UNCHANGED <<call, text, base>>
  BY DEF Printed
<1> QED BY <1>1, <1>8, <1>9 DEF PrintInv

\* A printed number is all taken, and gives the number.
LEMMA PrintIsTaken ==
  ASSUME ValueInv, PrintInv, ParseInv, AtouEnds, call.fn = "again"
  PROVE  PrintInv'
<1>1. /\ pc = "atou" /\ text \in Seq(Character) /\ base \in {10, 16}
      /\ IsPrint(text, base, call.number)
  BY DEF AtouEnds, ValueInv, TypeOK, PrintInv
<1>2. AtouRight(text, base, count > 0 /\ Char(at) = NUL, val)
  BY <1>1, AtouDecides DEF AtouEnds, ParseInv
<1>3. AtouStart(text, base) = 1
  <2>1. ASSUME base = 16, Len(text) > 1 PROVE text[2] # X
    <3>1. 2 \in 1 .. Len(text)
      BY <1>1, <2>1
    <3>2. text[2] \in Nat /\ text[2] < 16
      BY <1>1, <2>1, <3>1, DigitsAreNumbers DEF IsPrint
    <3> QED BY <3>2 DEF X
  <2> QED BY <2>1 DEF AtouStart
<1>4. Rest(text, 1) = text
  BY <1>1 DEF Rest
<1>5. Leading(text, base) = text
  <2>1. text \in Seq(Nat) /\ Len(text) \in Nat /\ base \in Nat
    BY <1>1, DigitsAreNumbers
  <2>2. Taken(text, Len(text), base)
    <3>1. ASSUME NEW i \in 1 .. Len(text) PROVE Digit(text[i], base)
      <4>1. text[i] \in Nat /\ text[i] < base
        BY <1>1, <2>1 DEF IsPrint
      <4> QED BY <1>1, <4>1 DEF Digit
    <3> QED BY <2>1, <3>1 DEF Taken
  <2>3. Leading(text, base) = SubSeq(text, 1, Len(text))
    BY <2>1, <2>2, LeadingTaken
  <2> QED BY <2>1, <2>3
<1>6. (count > 0 /\ Char(at) = NUL) /\ val = call.number
  BY <1>1, <1>2, <1>3, <1>4, <1>5 DEF AtouRight, IsPrint
<1>7. pc' = "done" /\ ok' = (count > 0 /\ Char(at) = NUL) /\ UNCHANGED <<call, val>>
  BY DEF AtouEnds
<1> QED BY <1>6, <1>7 DEF PrintInv

LEMMA PrintStep ==
  ValueInv /\ DateInv /\ ParseInv /\ PrintInv /\ [Next]_vars => PrintInv'
<1> SUFFICES ASSUME ValueInv, DateInv, ParseInv, PrintInv, [Next]_vars PROVE PrintInv'
  OBVIOUS
<1>1. CASE UNCHANGED vars
  BY <1>1 DEF vars, date, PrintInv, Counted, Written
<1>2. CASE AtouPrinted
  <2>1. /\ pc' = "atou" /\ text' = text /\ call'.number = call.number
        /\ base' = (IF Radix10or16(call.with) = 10 THEN 10 ELSE 16) /\ pc = "printed"
    BY <1>2 DEF AtouPrinted, BeginAtou, ValueInv, TypeOK
  <2>2. base' = base /\ IsPrint(text, base, call.number)
    BY <2>1 DEF PrintInv, Radix10or16
  <2> QED BY <2>1, <2>2 DEF PrintInv
<1>3. CASE AtouDigit
  BY <1>3 DEF AtouDigit, PrintInv
<1>4. CASE AtouEnds
  <2>1. CASE call.fn = "again"
    BY <1>4, <2>1, PrintIsTaken
  <2>2. CASE call.fn # "again"
    BY <1>4, <2>2 DEF AtouEnds, PrintInv
  <2> QED BY <2>1, <2>2
<1>5. CASE StrtoulDigit \/ StrtoulEnds
  <2>1. pc = "strtoul" /\ call.fn = "strtoul" /\ call' = call /\ pc' \in {"strtoul", "done"}
    BY <1>5 DEF StrtoulDigit, StrtoulEnds, ValueInv
  <2> QED BY <2>1 DEF PrintInv
<1>6. CASE YearPasses \/ YearFound \/ MonthPasses \/ MonthFound
  <2>1. call' = call /\ call.fn = "date" /\ pc' \in {"year", "month", "done"}
    BY <1>6 DEF DateInv, YearPasses, YearFound, MonthPasses, MonthFound
  <2> QED BY <2>1 DEF PrintInv
<1> QED BY <1>1, <1>2, <1>3, <1>4, <1>5, <1>6, PrintBegins, CountKeepsPrint, WriteKeepsPrint,
           PrintedIsPrint DEF Next

\* For a type of any width: every number is printed without a leading zero,
\* with the digits that denote it, and parsing the text gives it back.
THEOREM NumbersReturn == Spec => []RoundTrip
<1>1. ValueInv /\ PrintInv => RoundTrip
  BY DEF PrintInv, RoundTrip, IsPrint, Done
<1> QED BY <1>1, DateInit, DateStep, ValueInit, ValueStep, ParseInit, ParseStep,
           PrintInit, PrintStep, PTL DEF Spec
=============================================================================
