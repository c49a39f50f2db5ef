---------------------------- MODULE AdmMapProofs ----------------------------
(* What AdmMap promises, for any number of addresses, keys and values. *)
EXTENDS AdmMap, WellFoundedInduction, TLAPS

-----------------------------------------------------------------------------
(* Numbers *)

LEMMA LeastNumber ==
  ASSUME NEW T \in SUBSET Nat, T # {} PROVE \E x \in T : \A y \in T : x <= y
<1>1. \E x \in T : \A y \in T : ~ (<<y, x>> \in OpToRel(<, Nat))
  BY NatLessThanWellFounded, WFMin
<1>2. \A x, y \in T : ~ (<<y, x>> \in OpToRel(<, Nat)) => x <= y
  BY DEF OpToRel
<1> QED BY <1>1, <1>2

LEMMA SetInduction ==
  ASSUME NEW T, 0 \in T, \A n \in Nat : n \in T => n + 1 \in T
  PROVE  \A n \in Nat : n \in T
<1> SUFFICES ASSUME Nat \ T # {} PROVE FALSE
  OBVIOUS
<1>1. PICK m \in Nat \ T : \A k \in Nat \ T : m <= k
  BY LeastNumber
<1>2. m # 0 /\ m - 1 \in Nat /\ (m - 1) + 1 = m /\ ~ (m <= m - 1)
  OBVIOUS
<1>3. m - 1 \in T
  BY <1>1, <1>2
<1> QED BY <1>1, <1>2, <1>3

\* adm_malloc returns a free address, if there is one.
LEMMA FreshIsFree == ASSUME Free # {} PROVE Fresh \in Free
<1>1. Free \in SUBSET Nat
  BY MapAssumption DEF Free
<1> HIDE DEF Free
<1>2. \E a \in Free : \A b \in Free : a <= b
  BY <1>1, LeastNumber
<1> QED BY <1>2 DEF Fresh

-----------------------------------------------------------------------------
(* The list that the pointers make *)

\* The i-th address of s, and NULL after the last.
At(s, i) == IF i \in 1 .. Len(s) THEN s[i] ELSE NULL

Addresses(s) == {s[i] : i \in 1 .. Len(s)}

Distinct(s) == \A i, j \in 1 .. Len(s) : s[i] = s[j] => i = j

\* From h, the fields nx lead along the addresses of s and nowhere else.
Linked(s, h, nx) ==
  /\ s \in Seq(Pair) /\ Distinct(s)
  /\ nx \in [Pair -> Pair \cup {NULL}]
  /\ h = At(s, 1)
  /\ \A i \in 1 .. Len(s) : nx[s[i]] = At(s, i + 1)
  /\ \A a \in Pair : a \notin Addresses(s) => nx[a] = NULL

\* AdmMap's From and Chain, of any fields.
Follows(f, nx) ==
  f = [a \in Pair \cup {NULL} |-> IF a = NULL THEN <<>> ELSE <<a>> \o f[nx[a]]]
ChainOf(h, nx) == (CHOOSE f : Follows(f, nx))[h]

LEMMA ChainIsOf == Chain = ChainOf(head, next)
BY DEF Chain, From, ChainOf, Follows

LEMMA Suffix ==
  ASSUME NEW s \in Seq(Pair), NEW i \in 1 .. Len(s)
  PROVE  SubSeq(s, i, Len(s)) = <<s[i]>> \o SubSeq(s, i + 1, Len(s))
<1> DEFINE t == SubSeq(s, i, Len(s))
           u == SubSeq(s, i + 1, Len(s))
           w == <<s[i]>> \o u
<1>1. /\ t \in Seq(Pair) /\ Len(t) = Len(s) - i + 1 /\ Len(s) \in Nat
      /\ \A j \in 1 .. Len(t) : t[j] = s[i + j - 1]
  OBVIOUS
<1>2. /\ u \in Seq(Pair) /\ Len(u) = Len(s) - i
      /\ \A j \in 1 .. Len(u) : u[j] = s[i + j]
  OBVIOUS
<1>3. s[i] \in Pair
  OBVIOUS
<1> HIDE DEF t, u
<1>4. w \in Seq(Pair) /\ Len(w) = Len(u) + 1
  BY <1>2, <1>3
<1>5. \A j \in 1 .. Len(w) : w[j] = IF j = 1 THEN s[i] ELSE u[j - 1]
  BY <1>2, <1>3
<1> HIDE DEF w
<1>6. \A j \in 1 .. Len(t) : t[j] = w[j]
  <2> TAKE j \in 1 .. Len(t)
  <2>1. CASE j = 1
    BY <1>1, <1>2, <1>4, <1>5, <2>1
  <2>2. CASE j # 1
    <3>1. j - 1 \in 1 .. Len(u) /\ i + (j - 1) = i + j - 1 /\ j \in 1 .. Len(w)
      BY <1>1, <1>2, <1>4, <2>2
    <3> QED BY <1>1, <1>2, <1>5, <2>2, <3>1
  <2> QED BY <2>1, <2>2
<1>7. Len(t) = Len(w)
  BY <1>1, <1>2, <1>4
<1>8. t = w
  BY <1>1, <1>4, <1>6, <1>7
<1> QED BY <1>8 DEF t, u, w

\* There is a function that follows the pointers ...
LEMMA FollowsExists ==
  ASSUME NEW s, NEW h, NEW nx, Linked(s, h, nx)
  PROVE  \E f : Follows(f, nx)
<1> DEFINE n == Len(s)
           Place(a) == CHOOSE i \in 1 .. n : s[i] = a
           f == [a \in Pair \cup {NULL} |->
                   IF a = NULL THEN <<>>
                   ELSE IF a \in Addresses(s) THEN SubSeq(s, Place(a), n)
                   ELSE <<a>>]
<1>1. s \in Seq(Pair) /\ Distinct(s) /\ n \in Nat /\ NULL \notin Pair
  BY MapAssumption DEF Linked
<1>2. ASSUME NEW i \in 1 .. n PROVE s[i] \in Addresses(s) /\ s[i] \in Pair /\ Place(s[i]) = i
  <2>1. s[i] \in Addresses(s) /\ s[i] \in Pair
    BY <1>1 DEF Addresses
  <2>2. \A j \in 1 .. n : s[j] = s[i] => j = i
    BY <1>1 DEF Distinct
  <2> QED BY <2>1, <2>2
<1> HIDE DEF Place
<1>3. \A i \in 1 .. n : f[s[i]] = SubSeq(s, i, n)
  <2> TAKE i \in 1 .. n
  <2>1. s[i] # NULL
    BY <1>1, <1>2
  <2> QED BY <1>2, <2>1
<1>4. f[NULL] = <<>>
  OBVIOUS
<1>5. \A a \in Pair : a \notin Addresses(s) => f[a] = <<a>>
  BY <1>1
<1>6. DOMAIN f = Pair \cup {NULL} /\ f = [a \in Pair \cup {NULL} |-> f[a]]
  OBVIOUS
<1> HIDE DEF f
<1>7. \A i \in 1 .. n : f[At(s, i + 1)] = SubSeq(s, i + 1, n)
  <2> TAKE i \in 1 .. n
  <2>1. CASE i = n
    <3>1. At(s, i + 1) = NULL
      BY <1>1, <2>1 DEF At
    <3>2. SubSeq(s, i + 1, n) = <<>>
      BY <1>1, <2>1
    <3> QED BY <1>4, <3>1, <3>2
  <2>2. CASE i # n
    <3>1. i + 1 \in 1 .. n
      BY <1>1, <2>2
    <3> QED BY <1>3, <3>1 DEF At
  <2> QED BY <2>1, <2>2
<1>8. ASSUME NEW a \in Pair PROVE f[a] = <<a>> \o f[nx[a]]
  <2>1. CASE a \in Addresses(s)
    <3>1. PICK i \in 1 .. n : a = s[i]
      BY <2>1 DEF Addresses
    <3>2. nx[a] = At(s, i + 1)
      BY <3>1 DEF Linked
    <3>3. SubSeq(s, i, n) = <<s[i]>> \o SubSeq(s, i + 1, n)
      BY <1>1, Suffix
    <3> QED BY <1>3, <1>7, <3>1, <3>2, <3>3
  <2>2. CASE a \notin Addresses(s)
    <3>1. nx[a] = NULL
      BY <2>2 DEF Linked
    <3>2. <<a>> \in Seq(Pair)
      OBVIOUS
    <3>3. <<a>> \o <<>> = <<a>>
      BY <3>2
    <3> QED BY <1>4, <1>5, <2>2, <3>1, <3>3
  <2> QED BY <2>1, <2>2
<1>9. \A a \in Pair \cup {NULL} : f[a] = IF a = NULL THEN <<>> ELSE <<a>> \o f[nx[a]]
  BY <1>1, <1>4, <1>8
<1>10. Follows(f, nx)
  BY <1>6, <1>9 DEF Follows
<1> QED BY <1>10

\* ... and any one that does finds the list.
LEMMA ChainIs ==
  ASSUME NEW s, NEW h, NEW nx, Linked(s, h, nx)
  PROVE  ChainOf(h, nx) = s
<1> DEFINE f == CHOOSE g : Follows(g, nx)
           n == Len(s)
           Back(j) == n + 1 - j
           T == {j \in Nat : j <= n => f[At(s, Back(j))] = SubSeq(s, Back(j), n)}
<1>1. s \in Seq(Pair) /\ n \in Nat /\ NULL \notin Pair
  BY MapAssumption DEF Linked
<1>2. Follows(f, nx)
  BY FollowsExists
<1> HIDE DEF f
<1>3. f[NULL] = <<>> /\ \A a \in Pair : f[a] = <<a>> \o f[nx[a]]
  BY <1>1, <1>2 DEF Follows
<1>4. 0 \in T
  <2>1. Back(0) = n + 1 /\ At(s, n + 1) = NULL /\ SubSeq(s, n + 1, n) = <<>>
    BY <1>1 DEF At
  <2> QED BY <1>3, <2>1
<1>5. ASSUME NEW j \in Nat, j \in T PROVE j + 1 \in T
  <2> SUFFICES ASSUME j + 1 <= n
               PROVE  f[At(s, Back(j + 1))] = SubSeq(s, Back(j + 1), n)
    OBVIOUS
  <2> DEFINE i == Back(j + 1)
  <2>1. i \in 1 .. n /\ i + 1 = Back(j) /\ j <= n
    BY <1>1
  <2> HIDE DEF i
  <2>2. f[At(s, i + 1)] = SubSeq(s, i + 1, n)
    BY <1>5, <2>1
  <2>3. At(s, i) = s[i] /\ s[i] \in Pair /\ nx[s[i]] = At(s, i + 1)
    BY <1>1, <2>1 DEF At, Linked
  <2>4. SubSeq(s, i, n) = <<s[i]>> \o SubSeq(s, i + 1, n)
    BY <1>1, <2>1, Suffix
  <2>5. f[At(s, i)] = SubSeq(s, i, n)
    BY <1>3, <2>2, <2>3, <2>4
  <2> QED BY <2>5 DEF i
<1>6. \A j \in Nat : j \in T
  <2> HIDE DEF T
  <2> QED BY <1>4, <1>5, SetInduction
<1>7. n \in T /\ Back(n) = 1 /\ SubSeq(s, 1, n) = s
  BY <1>1, <1>6
<1>8. f[At(s, 1)] = s
  BY <1>1, <1>7
<1> QED BY <1>8 DEF f, ChainOf, Linked

-----------------------------------------------------------------------------
(* Adding and unlinking *)

LEMMA AppendLinked ==
  ASSUME NEW s, NEW h, NEW nx, Linked(s, h, nx), NEW a \in Pair, a \notin Addresses(s)
  PROVE  LET t == Append(s, a) IN
         /\ Linked(t, IF h = NULL THEN a ELSE h,
                   IF h = NULL THEN nx ELSE [nx EXCEPT ![s[Len(s)]] = a])
         /\ Addresses(t) = Addresses(s) \cup {a}
         /\ Len(t) = Len(s) + 1
         /\ h = NULL <=> s = <<>>
<1> DEFINE n == Len(s)
           t == Append(s, a)
           g == IF h = NULL THEN a ELSE h
           nxt == IF h = NULL THEN nx ELSE [nx EXCEPT ![s[n]] = a]
<1>1. /\ s \in Seq(Pair) /\ Distinct(s) /\ n \in Nat /\ NULL \notin Pair
      /\ nx \in [Pair -> Pair \cup {NULL}] /\ h = At(s, 1)
  BY MapAssumption DEF Linked
<1>2. /\ t \in Seq(Pair) /\ Len(t) = n + 1 /\ t[n + 1] = a
      /\ \A i \in 1 .. n : t[i] = s[i] /\ s[i] \in Pair
  BY <1>1
<1>3. \A i \in 1 .. n : s[i] # a
  BY DEF Addresses
<1>4. h = NULL <=> n = 0
  BY <1>1, <1>2 DEF At
<1>5. s = <<>> <=> n = 0
  BY <1>1
<1> HIDE DEF t
<1>6. \A i \in 1 .. n + 1 : i \in 1 .. n \/ i = n + 1
  BY <1>1
<1>7. Distinct(t)
  BY <1>1, <1>2, <1>3, <1>6 DEF Distinct
<1>8. Addresses(t) = Addresses(s) \cup {a}
  <2>1. n + 1 \in 1 .. n + 1 /\ \A i \in 1 .. n : i \in 1 .. n + 1
    BY <1>1
  <2> QED BY <1>2, <1>6, <2>1 DEF Addresses
<1>9. g = At(t, 1)
  <2>1. CASE n = 0
    BY <1>2, <1>4, <2>1 DEF At
  <2>2. CASE n # 0
    <3>1. 1 \in 1 .. n /\ 1 \in 1 .. n + 1
      BY <1>1, <2>2
    <3> QED BY <1>1, <1>2, <1>4, <2>2, <3>1 DEF At
  <2> QED BY <2>1, <2>2
<1>10. nxt \in [Pair -> Pair \cup {NULL}]
  BY <1>1
<1>11. ASSUME NEW b \in Pair, b \notin Addresses(t) PROVE nxt[b] = NULL
  <2>1. b \notin Addresses(s) /\ \A i \in 1 .. n : b # s[i]
    BY <1>8, <1>11 DEF Addresses
  <2>2. nx[b] = NULL
    BY <2>1 DEF Linked
  <2>3. CASE n = 0
    BY <1>4, <2>2, <2>3
  <2>4. CASE n # 0
    <3>1. n \in 1 .. n
      BY <1>1, <2>4
    <3> QED BY <1>1, <2>1, <2>2, <3>1
  <2> QED BY <2>3, <2>4
<1>12. ASSUME NEW i \in 1 .. n + 1 PROVE nxt[t[i]] = At(t, i + 1)
  <2>1. CASE i = n + 1
    <3>1. nx[a] = NULL /\ At(t, i + 1) = NULL
      BY <1>1, <1>2, <2>1 DEF Linked, At
    <3>2. CASE n = 0
      BY <1>2, <1>4, <2>1, <3>1, <3>2
    <3>3. CASE n # 0
      <4>1. n \in 1 .. n
        BY <1>1, <3>3
      <4>2. s[n] # a
        BY <1>3, <4>1
      <4> QED BY <1>1, <1>2, <2>1, <3>1, <4>2
    <3> QED BY <3>2, <3>3
  <2>2. CASE i = n
    <3>1. i \in 1 .. n /\ h # NULL /\ i + 1 = n + 1 /\ n + 1 \in 1 .. n + 1
      BY <1>1, <1>4, <2>2
    <3>2. nxt[s[n]] = a
      BY <1>1, <1>2, <2>2, <3>1
    <3> QED BY <1>2, <2>2, <3>1, <3>2 DEF At
  <2>3. CASE i \in 1 .. n - 1
    <3>1. i \in 1 .. n /\ n \in 1 .. n /\ i # n /\ h # NULL /\ i + 1 \in 1 .. n
          /\ i + 1 \in 1 .. n + 1
      BY <1>1, <1>4, <2>3
    <3>2. s[i] # s[n]
      BY <1>1, <3>1 DEF Distinct
    <3>3. nx[s[i]] = s[i + 1]
      BY <3>1 DEF Linked, At
    <3>4. nxt[s[i]] = s[i + 1]
      BY <1>1, <1>2, <3>1, <3>2, <3>3
    <3> QED BY <1>2, <3>1, <3>4 DEF At
  <2> QED BY <1>1, <2>1, <2>2, <2>3
<1> HIDE DEF g, nxt
<1>13. Linked(t, g, nxt)
  BY <1>2, <1>7, <1>9, <1>10, <1>11, <1>12 DEF Linked
<1> QED BY <1>2, <1>4, <1>5, <1>8, <1>13 DEF t, g, nxt

\* s without its i-th element.
Without(s, i) == [j \in 1 .. Len(s) - 1 |-> IF j < i THEN s[j] ELSE s[j + 1]]

LEMMA UnlinkLinked ==
  ASSUME NEW s, NEW h, NEW nx, Linked(s, h, nx), NEW i \in 1 .. Len(s)
  PROVE  LET t == Without(s, i) IN
         /\ Linked(t, IF i = 1 THEN nx[s[i]] ELSE h,
                   IF i = 1 THEN [nx EXCEPT ![s[i]] = NULL]
                   ELSE [nx EXCEPT ![s[i - 1]] = nx[s[i]], ![s[i]] = NULL])
         /\ Addresses(t) = Addresses(s) \ {s[i]}
         /\ Len(t) = Len(s) - 1
<1> DEFINE n == Len(s)
           t == Without(s, i)
           g == IF i = 1 THEN nx[s[i]] ELSE h
           nxt == IF i = 1 THEN [nx EXCEPT ![s[i]] = NULL]
                  ELSE [nx EXCEPT ![s[i - 1]] = nx[s[i]], ![s[i]] = NULL]
<1>1. /\ s \in Seq(Pair) /\ Distinct(s) /\ n \in Nat /\ NULL \notin Pair
      /\ nx \in [Pair -> Pair \cup {NULL}] /\ h = At(s, 1)
      /\ n - 1 \in Nat
  BY MapAssumption DEF Linked
<1>2. \A j \in 1 .. n : s[j] \in Pair /\ (s[j] = s[i] => j = i)
  BY <1>1 DEF Distinct
<1>3. /\ t \in Seq(Pair) /\ Len(t) = n - 1
      /\ \A j \in 1 .. n - 1 : t[j] = IF j < i THEN s[j] ELSE s[j + 1]
  <2>1. \A j \in 1 .. n - 1 : j \in 1 .. n /\ j + 1 \in 1 .. n
    BY <1>1
  <2>2. t \in [1 .. n - 1 -> Pair]
    BY <1>2, <2>1 DEF Without
  <2>3. \A j \in 1 .. n - 1 : t[j] = IF j < i THEN s[j] ELSE s[j + 1]
    BY DEF Without
  <2> HIDE DEF t
  <2> QED BY <1>1, <2>2, <2>3
<1> HIDE DEF t
<1>4. \A j \in 1 .. n - 1 : IF j < i THEN j \in 1 .. n /\ j # i
                            ELSE j + 1 \in 1 .. n /\ j + 1 # i
  BY <1>1
<1>5. Distinct(t)
  <2> SUFFICES ASSUME NEW j \in 1 .. n - 1, NEW k \in 1 .. n - 1, t[j] = t[k]
               PROVE  j = k
    BY <1>3 DEF Distinct
  <2> DEFINE u == IF j < i THEN j ELSE j + 1
             v == IF k < i THEN k ELSE k + 1
  <2>1. u \in 1 .. n /\ v \in 1 .. n /\ t[j] = s[u] /\ t[k] = s[v]
    BY <1>1, <1>3
  <2> HIDE DEF u, v
  <2>2. u = v
    BY <1>1, <2>1 DEF Distinct
  <2> QED BY <2>2 DEF u, v
<1>6. Addresses(t) = Addresses(s) \ {s[i]}
  <2>1. ASSUME NEW a \in Addresses(t) PROVE a \in Addresses(s) \ {s[i]}
    <3>1. PICK j \in 1 .. n - 1 : a = t[j]
      BY <1>3 DEF Addresses
    <3> DEFINE u == IF j < i THEN j ELSE j + 1
    <3>2. u \in 1 .. n /\ u # i /\ a = s[u]
      BY <1>1, <1>3, <3>1
    <3> HIDE DEF u
    <3> QED BY <1>2, <3>2 DEF Addresses
  <2>2. ASSUME NEW a \in Addresses(s), a # s[i] PROVE a \in Addresses(t)
    <3>1. PICK j \in 1 .. n : a = s[j]
      BY DEF Addresses
    <3>2. j # i
      BY <2>2, <3>1
    <3> DEFINE u == IF j < i THEN j ELSE j - 1
    <3>3. u \in 1 .. n - 1 /\ t[u] = s[j]
      BY <1>1, <1>3, <3>2
    <3> HIDE DEF u
    <3> QED BY <1>3, <3>1, <3>3 DEF Addresses
  <2> QED BY <2>1, <2>2
<1>7. \A j \in 1 .. n : nx[s[j]] = At(s, j + 1)
  BY DEF Linked
<1>8. g = At(t, 1)
  <2>1. CASE i = 1
    <3>1. g = At(s, 2)
      BY <1>7, <2>1
    <3>2. CASE n = 1
      BY <1>3, <3>1, <3>2 DEF At
    <3>3. CASE n # 1
      <4>1. n \in Nat /\ i \in 1 .. n /\ n # 1
        BY <1>1, <3>3
      <4>2. 1 \in 1 .. n - 1 /\ 2 \in 1 .. n
        <5> HIDE DEF n, g, nxt
        <5> QED BY <4>1
      <4> QED BY <1>3, <2>1, <3>1, <4>2 DEF At
    <3> QED BY <3>2, <3>3
  <2>2. CASE i # 1
    <3>1. 1 \in 1 .. n - 1 /\ 1 \in 1 .. n /\ 1 < i
      BY <1>1, <2>2
    <3> QED BY <1>1, <1>3, <2>2, <3>1 DEF At
  <2> QED BY <2>1, <2>2
<1>9. i # 1 => i - 1 \in 1 .. n /\ s[i - 1] # s[i] /\ s[i - 1] \in Pair
  <2>1. i # 1 => i - 1 \in 1 .. n /\ i - 1 # i
    BY <1>1
  <2> QED BY <1>2, <2>1
<1>10. nx[s[i]] \in Pair \cup {NULL} /\ s[i] \in Pair
  BY <1>1, <1>2
<1>11. /\ nxt \in [Pair -> Pair \cup {NULL}] /\ nxt[s[i]] = NULL
       /\ i # 1 => nxt[s[i - 1]] = nx[s[i]]
       /\ \A b \in Pair : b # s[i] /\ (i # 1 => b # s[i - 1]) => nxt[b] = nx[b]
  <2>1. CASE i = 1
    BY <1>1, <1>10, <2>1
  <2>2. CASE i # 1
    BY <1>1, <1>9, <1>10, <2>2
  <2> QED BY <2>1, <2>2
<1> HIDE DEF g, nxt
<1>12. ASSUME NEW b \in Pair, b \notin Addresses(t) PROVE nxt[b] = NULL
  <2>1. CASE b = s[i]
    BY <1>11, <2>1
  <2>2. CASE b # s[i]
    <3>1. b \notin Addresses(s)
      BY <1>6, <1>12, <2>2
    <3>2. nx[b] = NULL /\ (i # 1 => b # s[i - 1])
      BY <1>9, <3>1 DEF Linked, Addresses
    <3> QED BY <1>11, <2>2, <3>2
  <2> QED BY <2>1, <2>2
<1>13. ASSUME NEW j \in 1 .. n - 1 PROVE nxt[t[j]] = At(t, j + 1)
  <2>1. CASE j + 1 < i
    <3>1. /\ j \in 1 .. n /\ j # i /\ j + 1 \in 1 .. n /\ j + 1 \in 1 .. n - 1
          /\ j < i /\ (i # 1 => j # i - 1)
      BY <1>1, <2>1
    <3>2. s[j] # s[i] /\ (i # 1 => s[j] # s[i - 1]) /\ s[j] \in Pair
      BY <1>1, <1>2, <1>9, <3>1 DEF Distinct
    <3>3. nxt[s[j]] = s[j + 1]
      BY <1>7, <1>11, <3>1, <3>2 DEF At
    <3> QED BY <1>3, <2>1, <3>1, <3>3 DEF At
  <2>2. CASE j + 1 = i
    <3>1. j \in 1 .. n /\ j < i /\ i # 1 /\ i - 1 = j /\ ~ (j + 1 < i) /\ i + 1 = (j + 1) + 1
      BY <1>1, <2>2
    <3>2. nxt[t[j]] = At(s, i + 1)
      BY <1>3, <1>7, <1>11, <3>1
    <3>3. CASE i = n
      <4>1. At(s, i + 1) = NULL /\ At(t, j + 1) = NULL
        BY <1>1, <1>3, <2>2, <3>3 DEF At
      <4> QED BY <3>2, <4>1
    <3>4. CASE i # n
      <4>1. j + 1 \in 1 .. n - 1 /\ i + 1 \in 1 .. n
        BY <1>1, <2>2, <3>4
      <4> QED BY <1>3, <3>1, <3>2, <4>1 DEF At
    <3> QED BY <3>3, <3>4
  <2>3. CASE j + 1 > i
    <3>1. j + 1 \in 1 .. n /\ j + 1 # i /\ ~ (j < i) /\ (i # 1 => j + 1 # i - 1)
          /\ ~ (j + 1 < i)
      BY <1>1, <2>3
    <3>2. s[j + 1] # s[i] /\ (i # 1 => s[j + 1] # s[i - 1]) /\ s[j + 1] \in Pair
      BY <1>1, <1>2, <1>9, <3>1 DEF Distinct
    <3>3. nxt[t[j]] = At(s, (j + 1) + 1)
      BY <1>3, <1>7, <1>11, <3>1, <3>2
    <3>4. CASE j = n - 1
      <4>1. At(s, (j + 1) + 1) = NULL /\ At(t, j + 1) = NULL
        BY <1>1, <1>3, <3>4 DEF At
      <4> QED BY <3>3, <4>1
    <3>5. CASE j # n - 1
      <4>1. j + 1 \in 1 .. n - 1 /\ (j + 1) + 1 \in 1 .. n
        BY <1>1, <3>5
      <4> QED BY <1>3, <3>1, <3>3, <4>1 DEF At
    <3> QED BY <3>4, <3>5
  <2> QED BY <1>1, <2>1, <2>2, <2>3
<1>14. Linked(t, g, nxt)
  BY <1>3, <1>5, <1>8, <1>11, <1>12, <1>13 DEF Linked
<1> QED BY <1>3, <1>6, <1>14 DEF t, g, nxt

-----------------------------------------------------------------------------
(* The inductive invariant *)

\* The fields lead along the chain, whose pairs hold what was added, and what
\* is allocated, owned and lost agrees with it.
ListInv ==
  /\ Linked(Chain, head, next)
  /\ \A a \in Addresses(Chain) : pair[a] \in Key \X Value
  /\ cells = Addresses(Chain) \cup lost
  /\ Addresses(Chain) \cap lost = {}
  /\ owned = One * Len(Chain) + displaced

\* The size is right but for the loops that drop every pair and then set it;
\* p and the iterator point to a pair of the list, the iterator to none that
\* the running loop unlinks.
WalkInv ==
  /\ loop.op \notin {"removeAll", "destroy"} => size = Len(Chain)
  /\ loop.p # NULL => loop.p \in Addresses(Chain) /\ loop.op \in {"removeItem", "setNull"}
  /\ iter # NULL =>
       /\ iter \in Addresses(Chain)
       /\ loop.op \notin {"removeAll", "destroy"}
       /\ loop.op \in {"removeItem", "setNull"} => pair[iter][1] # loop.key

MapInv == TypeOK /\ ListInv /\ WalkInv

LEMMA ChainFacts ==
  ASSUME NEW s, NEW h, NEW nx, Linked(s, h, nx)
  PROVE  /\ s \in Seq(Pair) /\ Len(s) \in Nat /\ Addresses(s) \subseteq Pair
         /\ h = NULL <=> Len(s) = 0
         /\ h # NULL => h = s[1] /\ 1 \in 1 .. Len(s)
         /\ NULL \notin Addresses(s)
         /\ \A i \in 1 .. Len(s) : s[i] \in Addresses(s) /\ s[i] \in Pair
<1>1. s \in Seq(Pair) /\ Len(s) \in Nat /\ h = At(s, 1) /\ NULL \notin Pair
  BY MapAssumption DEF Linked
<1>2. \A i \in 1 .. Len(s) : s[i] \in Addresses(s) /\ s[i] \in Pair
  BY <1>1 DEF Addresses
<1>3. Addresses(s) \subseteq Pair
  BY <1>2 DEF Addresses
<1>4. CASE Len(s) = 0
  BY <1>1, <1>2, <1>3, <1>4 DEF At
<1>5. CASE Len(s) # 0
  <2>1. 1 \in 1 .. Len(s)
    BY <1>1, <1>5
  <2> QED BY <1>1, <1>2, <1>3, <1>5, <2>1 DEF At
<1> QED BY <1>4, <1>5

\* The next chain is what the next fields lead along.
LEMMA NextChain ==
  ASSUME NEW s, Linked(s, head', next')
  PROVE  Chain' = s /\ Linked(Chain, head, next)'
<1>1. ChainOf(head', next') = s
  BY ChainIs
<1>2. Chain' = ChainOf(head', next')
  BY DEF Chain, From, ChainOf, Follows
<1>3. Chain' = s
  BY <1>1, <1>2
<1> QED BY <1>3

LEMMA OneIs == One \in {0, 1} /\ \A n \in Nat : One * n \in Nat /\ One * (n + 1) = One * n + One
<1>1. One \in {0, 1}
  BY DEF One
<1>2. \A n \in Nat : 0 * n = 0 /\ 1 * n = n /\ 0 * (n + 1) = 0 /\ 1 * (n + 1) = n + 1
  OBVIOUS
<1> HIDE DEF One
<1>3. CASE One = 0
  BY <1>2, <1>3
<1>4. CASE One = 1
  BY <1>2, <1>4
<1> QED BY <1>1, <1>3, <1>4

LEMMA MapInit == Init => MapInv
<1> SUFFICES ASSUME Init PROVE MapInv
  OBVIOUS
<1>1. TypeOK
  BY DEF Init, TypeOK, Idle
<1>2. Linked(<<>>, head, next) /\ Addresses(<<>>) = {}
  BY DEF Init, Linked, Distinct, At, Addresses
<1>3. Chain = <<>>
  BY <1>2, ChainIs, ChainIsOf
<1>4. ListInv
  <2>1. Len(<<>>) = 0 /\ One * 0 + 0 = 0
    BY OneIs
  <2> QED BY <1>2, <1>3, <2>1 DEF ListInv, Init
<1>5. WalkInv
  BY <1>3 DEF WalkInv, Init, Idle
<1> QED BY <1>1, <1>4, <1>5 DEF MapInv

\* Calls that leave the list as it is.
LEMMA ListStays ==
  ASSUME MapInv, UNCHANGED <<list, freed>>
  PROVE  ListInv' /\ Chain' = Chain
<1>1. Linked(Chain, head', next')
  BY DEF MapInv, ListInv, list
<1>2. Chain' = Chain
  BY <1>1, NextChain
<1> QED BY <1>1, <1>2 DEF MapInv, ListInv, list, freed

-----------------------------------------------------------------------------
(* Calls *)

\* findPair finds a pair of the list with the key, the first.
LEMMA Found ==
  ASSUME ListInv, NEW k
  PROVE  \/ findPair(k) = NULL /\ \A a \in Addresses(Chain) : pair[a][1] # k
         \/ \E i \in 1 .. Len(Chain) :
              /\ findPair(k) = Chain[i] /\ pair[Chain[i]][1] = k
              /\ \A j \in 1 .. Len(Chain) : pair[Chain[j]][1] = k => i <= j
<1>1. Chain \in Seq(Pair) /\ DOMAIN Chain = 1 .. Len(Chain)
  BY ChainFacts DEF ListInv
<1>2. Matching(k) = {i \in 1 .. Len(Chain) : pair[Chain[i]][1] = k}
  BY <1>1 DEF Matching
<1>3. CASE Matching(k) = {}
  BY <1>1, <1>2, <1>3 DEF findPair, Addresses
<1>4. CASE Matching(k) # {}
  <2> DEFINE m == CHOOSE i \in Matching(k) : \A j \in Matching(k) : i <= j
  <2>1. Matching(k) \in SUBSET Nat
    BY <1>1, <1>2
  <2>2. \E i \in Matching(k) : \A j \in Matching(k) : i <= j
    <3> HIDE DEF Matching
    <3> QED BY <1>4, <2>1, LeastNumber
  <2>3. m \in Matching(k) /\ \A j \in Matching(k) : m <= j
    BY <2>2
  <2>4. findPair(k) = Chain[m]
    BY <1>4 DEF findPair
  <2> HIDE DEF m
  <2> QED BY <1>2, <2>3, <2>4
<1> QED BY <1>3, <1>4

LEMMA AddKeeps ==
  ASSUME MapInv, NEW k \in Key, NEW v \in Value, Add(k, v)
  PROVE  ListInv' /\ WalkInv' /\ Chain' = Append(Chain, Fresh)
<1> DEFINE a == Fresh
           s == Append(Chain, a)
           n == Len(Chain)
<1>1. /\ TypeOK /\ ListInv /\ WalkInv /\ Linked(Chain, head, next)
      /\ Chain \in Seq(Pair) /\ n \in Nat /\ Addresses(Chain) \subseteq Pair
      /\ \A i \in 1 .. n : Chain[i] \in Addresses(Chain)
  BY ChainFacts DEF MapInv, ListInv
<1>2. a \in Pair \ cells
  BY FreshIsFree DEF Add, Free
<1>3. a \in Pair /\ a \notin Addresses(Chain) /\ a \notin lost /\ a # NULL
  BY <1>1, <1>2, MapAssumption DEF ListInv
<1> HIDE DEF a
<1>4. /\ Linked(s, IF head = NULL THEN a ELSE head,
               IF head = NULL THEN next ELSE [next EXCEPT ![Chain[n]] = a])
      /\ Addresses(s) = Addresses(Chain) \cup {a}
      /\ Len(s) = n + 1
  BY <1>1, <1>3, AppendLinked
<1>5. Linked(s, head', next')
  <2>1. CASE head = NULL
    BY <1>4, <2>1 DEF Add, a
  <2>2. CASE head # NULL
    BY <1>4, <2>2 DEF Add, a
  <2> QED BY <2>1, <2>2
<1>6. Chain' = s /\ Linked(Chain, head, next)'
  BY <1>5, NextChain
<1>7. /\ cells' = cells \cup {a} /\ pair' = [pair EXCEPT ![a] = <<k, v>>]
      /\ size' = size + 1 /\ owned' = owned + One
      /\ UNCHANGED <<iter, loop, displaced, lost>> /\ loop = Idle
  BY DEF Add, a, Calling
<1> HIDE DEF s
<1>8. ListInv'
  <2>1. pair'[a] = <<k, v>> /\ \A b \in Addresses(Chain) : pair'[b] = pair[b]
    BY <1>1, <1>3, <1>7 DEF TypeOK
  <2>2. \A b \in Addresses(s) : pair'[b] \in Key \X Value
    <3>1. <<k, v>> \in Key \X Value
      OBVIOUS
    <3>2. \A b \in Addresses(Chain) : pair[b] \in Key \X Value
      BY <1>1 DEF ListInv
    <3> QED BY <1>4, <2>1, <3>1, <3>2
  <2>3. cells' = Addresses(s) \cup lost' /\ Addresses(s) \cap lost' = {}
    BY <1>1, <1>3, <1>4, <1>7 DEF ListInv
  <2>4. owned' = One * Len(s) + displaced'
    <3>1. /\ One * (n + 1) = One * n + One /\ One * n \in Nat /\ One \in Nat
          /\ displaced \in Nat
      BY <1>1, OneIs DEF TypeOK
    <3>2. owned = One * n + displaced
      BY <1>1 DEF ListInv
    <3> QED BY <1>4, <1>7, <3>1, <3>2
  <2> QED BY <1>6, <2>2, <2>3, <2>4 DEF ListInv
<1>9. WalkInv'
  <2>1. loop' = Idle /\ Idle.op = "idle" /\ Idle.p = NULL
    BY <1>7 DEF Idle
  <2>2. size = n
    BY <1>1, <1>7 DEF WalkInv, Idle
  <2>3. size' = Len(s)
    BY <1>4, <1>7, <2>2
  <2>4. iter' = iter /\ (iter # NULL => iter \in Addresses(s))
    BY <1>1, <1>4, <1>7 DEF WalkInv
  <2>5. loop'.op = "idle" /\ loop'.p = NULL
    BY <2>1
  <2>6. size' = Len(Chain') /\ (iter' # NULL => iter' \in Addresses(Chain'))
    BY <1>6, <2>3, <2>4
  <2> QED BY <2>5, <2>6 DEF WalkInv
<1> QED BY <1>6, <1>8, <1>9 DEF s, a

LEMMA SetKeeps ==
  ASSUME MapInv, NEW k \in Key, NEW v \in Value, Set(k, v)
  PROVE  TypeOK' /\ ListInv' /\ WalkInv' /\ Chain' = Chain
<1>1. TypeOK /\ ListInv /\ WalkInv /\ Linked(Chain, head, next)
  BY DEF MapInv, ListInv
<1>2. /\ UNCHANGED <<map, head, size, next, cells, iter, loop, lost>>
      /\ loop = Idle
  BY DEF Set, Calling
<1>3. Linked(Chain, head', next')
  BY <1>1, <1>2
<1>4. Chain' = Chain /\ Linked(Chain, head, next)'
  BY <1>3, NextChain
<1>5. displaced \in Nat /\ owned \in Nat /\ One \in Nat
      /\ One * Len(Chain) \in Nat /\ owned = One * Len(Chain) + displaced
  BY <1>1, ChainFacts, OneIs DEF TypeOK, ListInv
<1>6. WalkInv'
  BY <1>1, <1>2, <1>4 DEF WalkInv, Idle
<1>7. CASE findPair(k) = NULL
  <2>1. UNCHANGED <<pair, owned, displaced>>
    BY <1>7 DEF Set
  <2> QED BY <1>1, <1>2, <1>4, <1>6, <2>1 DEF TypeOK, ListInv, map
<1>8. CASE findPair(k) # NULL
  <2>1. findPair(k) \in Addresses(Chain)
    BY <1>1, <1>8, Found DEF Addresses
  <2> DEFINE a == findPair(k)
  <2>2. /\ pair' = [pair EXCEPT ![a] = <<k, v>>]
        /\ owned' = owned + One /\ displaced' = displaced + One
    BY <1>8 DEF Set
  <2>3. a \in Pair
    BY <1>1, <2>1, ChainFacts
  <2> HIDE DEF a
  <2>4. /\ pair' \in [Pair -> (Key \X Value) \cup {<<NULL, NULL>>}]
        /\ pair'[a] = <<k, v>> /\ \A b \in Pair : b # a => pair'[b] = pair[b]
    BY <1>1, <2>2, <2>3 DEF TypeOK
  <2>5. \A b \in Addresses(Chain) : pair'[b] \in Key \X Value
    BY <1>1, <2>4, ChainFacts DEF ListInv
  <2>6. owned' \in Nat /\ displaced' \in Nat /\ owned' = One * Len(Chain) + displaced'
    BY <1>5, <2>2
  <2>7. TypeOK'
    BY <1>1, <1>2, <2>4, <2>6 DEF TypeOK, map
  <2>8. ListInv'
    BY <1>1, <1>2, <1>4, <2>5, <2>6 DEF ListInv
  <2> QED BY <1>4, <1>6, <2>7, <2>8
<1> QED BY <1>7, <1>8

-----------------------------------------------------------------------------
(* The loops *)

\* What p points to is NULL only at the end of the list.
LEMMA HereIs ==
  ASSUME MapInv
  PROVE  \/ Here = NULL
         \/ \E i \in 1 .. Len(Chain) :
              /\ Here = Chain[i]
              /\ loop.p = IF i = 1 THEN NULL ELSE Chain[i - 1]
<1>1. /\ TypeOK /\ WalkInv /\ Linked(Chain, head, next) /\ Len(Chain) \in Nat
      /\ head # NULL => head = Chain[1] /\ 1 \in 1 .. Len(Chain)
  BY ChainFacts DEF MapInv, ListInv
<1>2. CASE loop.p = NULL
  BY <1>1, <1>2 DEF Here, Deref
<1>3. CASE loop.p # NULL
  <2>1. PICK j \in 1 .. Len(Chain) : loop.p = Chain[j]
    BY <1>1, <1>3 DEF WalkInv, Addresses
  <2>2. Here = At(Chain, j + 1)
    BY <1>1, <1>3, <2>1 DEF Here, Deref, Linked
  <2>3. CASE j + 1 \in 1 .. Len(Chain)
    <3>1. Here = Chain[j + 1] /\ j + 1 # 1 /\ (j + 1) - 1 = j
      BY <1>1, <2>2, <2>3 DEF At
    <3> QED BY <2>1, <2>3, <3>1
  <2>4. CASE j + 1 \notin 1 .. Len(Chain)
    BY <2>2, <2>4 DEF At
  <2> QED BY <2>3, <2>4
<1> QED BY <1>2, <1>3

\* Unlink takes the pair p points to out of the list, and clears it.
LEMMA Unlinks ==
  ASSUME MapInv, Here # NULL, Unlink(loop.p), owned' = owned - One,
         UNCHANGED <<displaced, iter, loop>>,
         \/ cells' = cells \ {Here} /\ lost' = lost
         \/ cells' = cells /\ lost' = lost \cup {Here}
  PROVE  /\ Here \in Addresses(Chain)
         /\ \E i \in 1 .. Len(Chain) : Here = Chain[i] /\ Chain' = Without(Chain, i)
         /\ Addresses(Chain') = Addresses(Chain) \ {Here}
         /\ Len(Chain) \in Nat \ {0} /\ Len(Chain') = Len(Chain) - 1
         /\ ListInv'
         /\ pair' \in [Pair -> (Key \X Value) \cup {<<NULL, NULL>>}]
         /\ \A a \in Addresses(Chain') : pair'[a] = pair[a]
         /\ head' \in Pair \cup {NULL} /\ next' \in [Pair -> Pair \cup {NULL}]
         /\ owned' \in Nat
         /\ loop.p # NULL => loop.p \in Addresses(Chain')
<1> DEFINE n == Len(Chain)
<1>1. /\ TypeOK /\ ListInv /\ WalkInv /\ Linked(Chain, head, next)
      /\ Chain \in Seq(Pair) /\ n \in Nat /\ Addresses(Chain) \subseteq Pair
      /\ NULL \notin Addresses(Chain)
      /\ \A i \in 1 .. n : Chain[i] \in Addresses(Chain) /\ Chain[i] \in Pair
  BY ChainFacts DEF MapInv, ListInv
<1>2. PICK i \in 1 .. n : /\ Here = Chain[i]
                          /\ loop.p = IF i = 1 THEN NULL ELSE Chain[i - 1]
  BY HereIs
<1> DEFINE s == Without(Chain, i)
<1>3. /\ Linked(s, IF i = 1 THEN next[Chain[i]] ELSE head,
                IF i = 1 THEN [next EXCEPT ![Chain[i]] = NULL]
                ELSE [next EXCEPT ![Chain[i - 1]] = next[Chain[i]], ![Chain[i]] = NULL])
      /\ Addresses(s) = Addresses(Chain) \ {Chain[i]}
      /\ Len(s) = n - 1
  BY <1>1, UnlinkLinked
<1>4. i # 1 => i - 1 \in 1 .. n /\ Chain[i - 1] # NULL
  BY <1>1
<1>5. i = 1 <=> loop.p = NULL
  BY <1>2, <1>4
<1>6. /\ pair' = [pair EXCEPT ![Here] = <<NULL, NULL>>]
      /\ loop.p = NULL => head' = next[Here] /\ next' = [next EXCEPT ![Here] = NULL]
      /\ loop.p # NULL =>
           head' = head /\ next' = [next EXCEPT ![loop.p] = next[Here], ![Here] = NULL]
  BY DEF Unlink, Here
<1> HIDE DEF s
<1>7. Linked(s, head', next')
  <2>1. CASE i = 1
    BY <1>2, <1>3, <1>5, <1>6, <2>1
  <2>2. CASE i # 1
    BY <1>2, <1>3, <1>5, <1>6, <2>2
  <2> QED BY <2>1, <2>2
<1>8. Chain' = s /\ Linked(Chain, head, next)'
  BY <1>7, NextChain
<1>9. Addresses(Chain') = Addresses(Chain) \ {Here} /\ n \in Nat \ {0} /\ Len(Chain') = n - 1
  BY <1>1, <1>2, <1>3, <1>8
<1>10. /\ pair' \in [Pair -> (Key \X Value) \cup {<<NULL, NULL>>}]
       /\ \A a \in Addresses(Chain') : pair'[a] = pair[a]
  BY <1>1, <1>2, <1>6, <1>9 DEF TypeOK
<1>11. owned' \in Nat /\ owned' = One * Len(Chain') + displaced'
  <2>1. One * ((n - 1) + 1) = One * (n - 1) + One /\ One * (n - 1) \in Nat /\ One \in Nat
    BY <1>9, OneIs
  <2>2. (n - 1) + 1 = n /\ displaced \in Nat /\ owned = One * n + displaced
    BY <1>1 DEF TypeOK, ListInv
  <2>3. owned = One * (n - 1) + One + displaced
    BY <2>1, <2>2
  <2>4. owned' = One * (n - 1) + displaced
    BY <2>1, <2>2, <2>3
  <2> QED BY <1>9, <2>1, <2>2, <2>4
<1>12. ListInv'
  <2>1. cells' = Addresses(Chain') \cup lost' /\ Addresses(Chain') \cap lost' = {}
    BY <1>1, <1>2, <1>9 DEF ListInv
  <2>2. \A a \in Addresses(Chain') : pair'[a] \in Key \X Value
    BY <1>1, <1>9, <1>10 DEF ListInv
  <2> QED BY <1>8, <1>11, <2>1, <2>2 DEF ListInv
<1>13. loop.p # NULL => loop.p \in Addresses(Chain')
  <2> SUFFICES ASSUME i # 1 PROVE Chain[i - 1] \in Addresses(Chain) \ {Here}
    BY <1>2, <1>5, <1>9
  <2>1. i - 1 \in 1 .. n /\ i - 1 # i
    BY <1>4
  <2> QED BY <1>1, <1>2, <2>1 DEF Linked, Distinct
<1>14. head' \in Pair \cup {NULL} /\ next' \in [Pair -> Pair \cup {NULL}]
  <2>1. Linked(Chain', head', next')
    BY <1>8
  <2>2. head' # NULL => head' \in Pair
    BY <2>1, ChainFacts
  <2>3. next' \in [Pair -> Pair \cup {NULL}]
    BY <2>1 DEF Linked
  <2> QED BY <2>2, <2>3
<1>15. Here \in Addresses(Chain)
  BY <1>1, <1>2
<1>16. \E j \in 1 .. n : Here = Chain[j] /\ Chain' = Without(Chain, j)
  BY <1>2, <1>8 DEF s
<1> QED BY <1>9, <1>10, <1>11, <1>12, <1>13, <1>14, <1>15, <1>16

LEMMA UnlinkPairKeeps ==
  ASSUME MapInv, UnlinkPair
  PROVE  MapInv'
<1>1. /\ Here # NULL /\ Unlink(loop.p) /\ owned' = owned - One /\ size' = size - 1
      /\ UNCHANGED <<map, iter, loop, displaced>>
      /\ loop.op \in {"removeItem", "setNull"} /\ pair[Here][1] = loop.key
      /\ \/ cells' = cells \ {Here} /\ lost' = lost
         \/ cells' = cells /\ lost' = lost \cup {Here}
  BY DEF UnlinkPair
<1>2. TypeOK /\ WalkInv /\ Linked(Chain, head, next)
  BY DEF MapInv, ListInv
<1>3. /\ Here \in Addresses(Chain)
      /\ Addresses(Chain') = Addresses(Chain) \ {Here}
      /\ Len(Chain) \in Nat \ {0} /\ Len(Chain') = Len(Chain) - 1
      /\ ListInv'
      /\ pair' \in [Pair -> (Key \X Value) \cup {<<NULL, NULL>>}]
      /\ \A a \in Addresses(Chain') : pair'[a] = pair[a]
      /\ head' \in Pair \cup {NULL} /\ next' \in [Pair -> Pair \cup {NULL}]
      /\ owned' \in Nat
      /\ loop.p # NULL => loop.p \in Addresses(Chain')
  BY <1>1, Unlinks
<1>4. Here \in Pair
  BY <1>2, <1>3, ChainFacts
<1>5. size = Len(Chain)
  BY <1>1, <1>2 DEF WalkInv
<1>6. size' \in Nat /\ size' = Len(Chain')
  BY <1>1, <1>3, <1>5
<1>7. cells' \subseteq Pair /\ lost' \subseteq Pair
  BY <1>1, <1>2, <1>4 DEF TypeOK
<1>8. TypeOK'
  BY <1>1, <1>2, <1>3, <1>6, <1>7 DEF TypeOK, map
<1>9. iter # NULL =>
        iter \in Addresses(Chain) /\ pair[iter][1] # loop.key /\ iter # Here
  BY <1>1, <1>2 DEF WalkInv
<1>10. iter # NULL => iter \in Addresses(Chain') /\ pair'[iter][1] # loop.key
  BY <1>3, <1>9
<1>11. WalkInv'
  BY <1>1, <1>3, <1>6, <1>10 DEF WalkInv
<1> QED BY <1>3, <1>8, <1>11 DEF MapInv

LEMMA DropHeadKeeps ==
  ASSUME MapInv, DropHead
  PROVE  MapInv'
<1>1. TypeOK /\ WalkInv /\ Linked(Chain, head, next)
  BY DEF MapInv, ListInv
<1>2. /\ loop.op \in {"removeAll", "destroy"} /\ head # NULL
      /\ Unlink(NULL) /\ cells' = cells \ {head} /\ owned' = owned - One
      /\ UNCHANGED <<map, size, iter, loop, displaced, lost>>
  BY DEF DropHead
<1>3. loop.p = NULL /\ iter = NULL
  BY <1>1, <1>2 DEF WalkInv
<1>4. Here = head
  BY <1>3 DEF Here, Deref
<1>5. Unlink(loop.p) /\ Here # NULL /\ cells' = cells \ {Here}
  BY <1>2, <1>3, <1>4
<1>6. /\ ListInv'
      /\ pair' \in [Pair -> (Key \X Value) \cup {<<NULL, NULL>>}]
      /\ head' \in Pair \cup {NULL} /\ next' \in [Pair -> Pair \cup {NULL}]
      /\ owned' \in Nat
  BY <1>2, <1>5, Unlinks
<1>7. TypeOK'
  BY <1>1, <1>2, <1>6 DEF TypeOK, map
<1>8. WalkInv'
  BY <1>2, <1>3 DEF WalkInv
<1> QED BY <1>6, <1>7, <1>8 DEF MapInv

LEMMA KeepPairKeeps ==
  ASSUME MapInv, KeepPair
  PROVE  MapInv'
<1>1. TypeOK /\ WalkInv /\ Linked(Chain, head, next)
  BY DEF MapInv, ListInv
<1>2. /\ loop.op \in {"removeItem", "setNull"} /\ Here # NULL
      /\ loop' = [loop EXCEPT !.p = Here]
      /\ UNCHANGED <<map, list, freed, iter, answer>>
  BY DEF KeepPair
<1>3. Here \in Addresses(Chain) /\ Here \in Pair
  BY <1>1, <1>2, HereIs, ChainFacts DEF Addresses
<1>4. ListInv' /\ Chain' = Chain
  BY <1>2, ListStays
<1>5. /\ loop' \in [op : {"idle", "removeItem", "setNull", "removeAll", "destroy"},
                    key : Key \cup {NULL}, p : Pair \cup {NULL}]
      /\ loop'.op = loop.op /\ loop'.key = loop.key /\ loop'.p = Here
  BY <1>1, <1>2, <1>3 DEF TypeOK
<1>6. TypeOK'
  BY <1>1, <1>2, <1>5 DEF TypeOK, map, list, freed
<1>7. WalkInv'
  BY <1>1, <1>2, <1>3, <1>4, <1>5 DEF WalkInv, list
<1> QED BY <1>4, <1>6, <1>7 DEF MapInv

LEMMA LoopEndsKeeps ==
  ASSUME MapInv, WalkEnds \/ ListEmpty
  PROVE  MapInv'
<1>1. TypeOK /\ WalkInv /\ ListInv /\ Linked(Chain, head, next)
  BY DEF MapInv, ListInv
<1>2. loop' = Idle /\ Idle.op = "idle" /\ Idle.p = NULL
      /\ UNCHANGED <<allowDuplicates, head, next, pair, cells, freed, iter>>
  BY DEF WalkEnds, ListEmpty, Idle, map, list
<1>3. Linked(Chain, head', next')
  BY <1>1, <1>2
<1>4. Chain' = Chain
  BY <1>3, NextChain
<1>5. ListInv'
  BY <1>1, <1>2, <1>3, <1>4, NextChain DEF ListInv, freed
<1>6. size' = Len(Chain) /\ size' \in Nat
  <2>1. Len(Chain) \in Nat /\ (head = NULL => Len(Chain) = 0)
    BY <1>1, ChainFacts
  <2>2. CASE WalkEnds
    BY <1>1, <2>1, <2>2 DEF WalkEnds, WalkInv, list
  <2>3. CASE ListEmpty
    BY <2>1, <2>3 DEF ListEmpty
  <2> QED BY <2>2, <2>3
<1>7. live' \in BOOLEAN
  BY <1>1 DEF WalkEnds, ListEmpty, TypeOK, map
<1>8. TypeOK'
  <2>1. Idle \in [op : {"idle", "removeItem", "setNull", "removeAll", "destroy"},
                  key : Key \cup {NULL}, p : Pair \cup {NULL}]
    BY DEF Idle
  <2> QED BY <1>1, <1>2, <1>6, <1>7, <2>1 DEF TypeOK, freed
<1>9. WalkInv'
  BY <1>1, <1>2, <1>4, <1>6 DEF WalkInv
<1> QED BY <1>5, <1>8, <1>9 DEF MapInv

-----------------------------------------------------------------------------
(* All steps *)

\* The calls that only ask, and those that only begin a loop.
LEMMA AskingKeeps ==
  ASSUME MapInv, Calling, UNCHANGED <<list, freed, loop>>,
         allowDuplicates' \in BOOLEAN, live' \in BOOLEAN,
         iter' # NULL => iter' \in Addresses(Chain)
  PROVE  MapInv'
<1>1. TypeOK /\ WalkInv /\ Linked(Chain, head, next) /\ loop = Idle
      /\ Addresses(Chain) \subseteq Pair
  BY ChainFacts DEF MapInv, ListInv, Calling
<1>2. ListInv' /\ Chain' = Chain
  BY ListStays
<1>3. TypeOK'
  BY <1>1 DEF TypeOK, list, freed
<1>4. WalkInv'
  BY <1>1, <1>2 DEF WalkInv, list, Idle
<1> QED BY <1>2, <1>3, <1>4 DEF MapInv

LEMMA BeginKeeps ==
  ASSUME MapInv, NEW op \in {"removeItem", "setNull", "removeAll", "destroy"},
         NEW k \in Key \cup {NULL}, Begin(op, k),
         op \in {"removeAll", "destroy"} => iter = NULL,
         op \in {"removeItem", "setNull"} /\ iter # NULL => pair[iter][1] # k
  PROVE  MapInv'
<1>1. TypeOK /\ WalkInv /\ loop = Idle
      /\ loop' = [op |-> op, key |-> k, p |-> NULL]
      /\ UNCHANGED <<map, list, freed, iter, answer>>
  BY DEF MapInv, Begin, Calling
<1>2. ListInv' /\ Chain' = Chain
  BY <1>1, ListStays
<1>3. /\ loop'.op = op /\ loop'.key = k /\ loop'.p = NULL
      /\ loop' \in [op : {"idle", "removeItem", "setNull", "removeAll", "destroy"},
                    key : Key \cup {NULL}, p : Pair \cup {NULL}]
  BY <1>1
<1>4. TypeOK'
  BY <1>1, <1>3 DEF TypeOK, map, list, freed
<1>5. size = Len(Chain)
  BY <1>1 DEF WalkInv, Idle
<1>6. WalkInv'
  BY <1>1, <1>2, <1>3, <1>5 DEF WalkInv, list
<1> QED BY <1>2, <1>4, <1>6 DEF MapInv

LEMMA IterIsListed ==
  ASSUME MapInv, GetNext
  PROVE  iter' # NULL => iter' \in Addresses(Chain)
<1>1. /\ WalkInv /\ Linked(Chain, head, next) /\ Len(Chain) \in Nat
      /\ head # NULL => head = Chain[1] /\ 1 \in 1 .. Len(Chain)
      /\ \A i \in 1 .. Len(Chain) : Chain[i] \in Addresses(Chain)
  BY ChainFacts DEF MapInv, ListInv
<1> DEFINE p == IF iter = NULL THEN head ELSE iter
<1>2. CASE p = NULL
  BY <1>2 DEF GetNext
<1>3. CASE p # NULL
  <2>1. p \in Addresses(Chain)
    BY <1>1, <1>3 DEF WalkInv
  <2>2. PICK i \in 1 .. Len(Chain) : p = Chain[i]
    BY <2>1 DEF Addresses
  <2>3. iter' = At(Chain, i + 1)
    BY <1>1, <1>3, <2>2 DEF GetNext, Linked
  <2> QED BY <1>1, <2>3 DEF At
<1> QED BY <1>2, <1>3

LEMMA MapStep == MapInv /\ [Next]_vars => MapInv'
<1> SUFFICES ASSUME MapInv, [Next]_vars PROVE MapInv'
  OBVIOUS
<1>1. TypeOK /\ WalkInv
  BY DEF MapInv
<1>2. iter # NULL => iter \in Addresses(Chain)
  BY <1>1 DEF WalkInv
<1>3. ASSUME NEW dups \in BOOLEAN, Create(dups) PROVE MapInv'
  BY <1>1, <1>2, <1>3, AskingKeeps DEF Create, map, TypeOK
<1>4. ASSUME NEW k \in Key, NEW v \in Value, Add(k, v) PROVE MapInv'
  <2>1. ListInv' /\ WalkInv'
    BY <1>4, AddKeeps
  <2>2. Fresh \in Pair
    BY <1>4, FreshIsFree DEF Add, Free
  <2>3. /\ UNCHANGED <<map, iter, loop, displaced, lost>>
        /\ cells' = cells \cup {Fresh} /\ size' = size + 1 /\ owned' = owned + One
    BY <1>4 DEF Add
  <2>4. Linked(Chain, head, next)'
    BY <2>1 DEF ListInv
  <2>5. next' \in [Pair -> Pair \cup {NULL}]
    BY <2>4 DEF Linked
  <2>6. pair' = [pair EXCEPT ![Fresh] = <<k, v>>]
    BY <1>4 DEF Add
  <2>7. pair' \in [Pair -> (Key \X Value) \cup {<<NULL, NULL>>}]
    BY <1>1, <2>2, <2>6 DEF TypeOK
  <2>8. head' \in Pair \cup {NULL}
    BY <1>1, <1>4, <2>2 DEF TypeOK, Add
  <2>9. size' \in Nat /\ owned' \in Nat
    BY <1>1, <2>3, OneIs DEF TypeOK
  <2>10. cells' \subseteq Pair
    BY <1>1, <2>2, <2>3 DEF TypeOK
  <2>11. TypeOK'
    BY <1>1, <2>3, <2>5, <2>7, <2>8, <2>9, <2>10 DEF TypeOK, map
  <2> QED BY <2>1, <2>11 DEF MapInv
<1>5. ASSUME NEW k \in Key, NEW v \in Value, Set(k, v) PROVE MapInv'
  BY <1>5, SetKeeps DEF MapInv
<1>6. ASSUME NEW k \in Key, Find(k) PROVE MapInv'
  BY <1>1, <1>2, <1>6, AskingKeeps DEF Find, map, TypeOK
<1>7. CASE AddRefused \/ GetSize
  BY <1>1, <1>2, <1>7, AskingKeeps DEF AddRefused, GetSize, map, TypeOK
<1>8. CASE GetNext
  <2>1. iter' # NULL => iter' \in Addresses(Chain)
    BY <1>8, IterIsListed
  <2> QED BY <1>1, <1>8, <2>1, AskingKeeps DEF GetNext, map, TypeOK
<1>9. CASE Rewind
  BY <1>1, <1>9, AskingKeeps DEF Rewind, map, TypeOK
<1>10. ASSUME NEW k \in Key, RemoveItem(k) PROVE MapInv'
  BY <1>10, BeginKeeps DEF RemoveItem
<1>11. ASSUME NEW k \in Key, SetNull(k) PROVE MapInv'
  BY <1>11, BeginKeeps DEF SetNull
<1>12. CASE RemoveAll
  BY <1>12, BeginKeeps DEF RemoveAll
<1>13. CASE Destroy
  BY <1>13, BeginKeeps DEF Destroy
<1>14. CASE LoopStep
  BY <1>14, KeepPairKeeps, UnlinkPairKeeps, DropHeadKeeps, LoopEndsKeeps DEF LoopStep
<1>15. CASE UNCHANGED vars
  <2>1. UNCHANGED <<list, freed>>
    BY <1>15 DEF vars
  <2>2. ListInv' /\ Chain' = Chain
    BY <2>1, ListStays
  <2>3. TypeOK'
    BY <1>1, <1>15 DEF vars, map, list, freed, TypeOK
  <2>4. WalkInv'
    BY <1>1, <1>15, <2>2 DEF vars, list, WalkInv
  <2> QED BY <2>2, <2>3, <2>4 DEF MapInv
<1> QED BY <1>3, <1>4, <1>5, <1>6, <1>7, <1>8, <1>9, <1>10, <1>11, <1>12, <1>13,
           <1>14, <1>15 DEF Next

LEMMA MapInvariant == Spec => []MapInv
BY MapInit, MapStep, PTL DEF Spec

\* For any number of pairs: the fields stay of their types, and the size, which
\* each unlinking decreases without looking at it, never goes below zero.
THEOREM MapTypes == Spec => []TypeOK
BY MapInvariant, PTL DEF MapInv

\* Whatever was added, replaced and removed in whatever order: nothing is lost
\* but the pairs that adm_map_setNull unlinks and the keys and values that
\* adm_map_set writes over.
THEOREM NothingElseLost == Spec => []Accounted
<1>1. MapInv => Accounted
  <2> SUFFICES ASSUME MapInv PROVE Accounted
    OBVIOUS
  <2>1. ListInv /\ Chain \in Seq(Pair)
    BY ChainFacts DEF MapInv, ListInv
  <2>2. DOMAIN Chain = 1 .. Len(Chain)
    BY <2>1
  <2>3. Addresses(Chain) = {Chain[i] : i \in DOMAIN Chain}
    BY <2>2 DEF Addresses
  <2> QED BY <2>1, <2>3 DEF ListInv, Accounted
<1> QED BY <1>1, MapInvariant, PTL
=============================================================================
