---------------------------- MODULE BudgetProofs ----------------------------
(***************************************************************************)
(* The budget engine, for every calendar, every budget, ledger and pot:    *)
(* cycles tile the calendar, a wage is credited once, what a pot saved     *)
(* does not change as the days pass, and a form says what the row it was   *)
(* opened for said.                                                        *)
(*                                                                         *)
(* Months, cycles and replayed ledgers are recursive functions.  That each *)
(* exists is shown of the least number it would fail at.                   *)
(***************************************************************************)
EXTENDS MCBudget, FiniteSetTheorems, WellFoundedInduction, TLAPS

-----------------------------------------------------------------------------
(* The calendar.                                                           *)

\* Numbers have a least one among them, in the library's words and in ours.
LEMMA NumbersAreWellFounded ==
  \E R : IsWellFoundedOn(R, Nat) /\ \A x, y \in Nat : x < y => <<x, y>> \in R
<1>1. \A x, y \in Nat : x < y => <<x, y>> \in OpToRel(<, Nat)
  BY DEF OpToRel
<1> QED
  BY <1>1, NatLessThanWellFounded, Zenon

LEMMA LeastNumber ==
  ASSUME NEW T, T \subseteq Nat, T # {}
  PROVE  \E m \in T : \A k \in T : m <= k
<1>1. PICK R : IsWellFoundedOn(R, Nat) /\ \A x, y \in Nat : x < y => <<x, y>> \in R
  BY NumbersAreWellFounded, Zenon
<1>2. PICK m \in T : \A k \in T : ~ (<<k, m>> \in R)
  BY <1>1, WFMin, ZenonT(60)
<1>3. \A k \in T : ~ (k < m)
  BY <1>1, <1>2, Zenon
<1>4. \A k \in T : m <= k
  BY <1>3
<1> QED
  BY <1>2, <1>4

\* What Elapsed computes, on the first n months.
ElapsedUpTo(n, g) ==
  g = [m \in 1 .. n |-> IF m = 1 THEN 0 ELSE g[m - 1] + MonthLengths[m - 1]]

LEMMA LengthsOfMonths ==
  /\ Len(MonthLengths) \in Nat \ {0}
  /\ \A m \in 1 .. Len(MonthLengths) : MonthLengths[m] \in Nat \ {0}
BY CalendarAssumption

LEMMA ElapsedExists ==
  \A n \in Nat : n <= Len(MonthLengths) + 1 => \E g : ElapsedUpTo(n, g)
<1> DEFINE T == {n \in Nat : n <= Len(MonthLengths) + 1 /\ ~ \E g : ElapsedUpTo(n, g)}
<1> SUFFICES ASSUME T # {} PROVE FALSE
  OBVIOUS
<1>1. T \subseteq Nat
  OBVIOUS
<1>2. PICK n \in T : \A k \in T : n <= k
  <2> HIDE DEF T
  <2> QED
    BY <1>1, LeastNumber
<1>3. n \in Nat /\ n <= Len(MonthLengths) + 1 /\ ~ \E g : ElapsedUpTo(n, g)
  OBVIOUS
<1>4. n # 0
  <2>1. ElapsedUpTo(0, [m \in 1 .. 0 |-> 0])
    BY DEF ElapsedUpTo
  <2> QED
    BY <2>1, <1>3
<1>5. n - 1 \in Nat /\ n - 1 <= Len(MonthLengths) + 1 /\ n - 1 \notin T
  BY <1>2, <1>3, <1>4, LengthsOfMonths
<1>6. PICK g : ElapsedUpTo(n - 1, g)
  BY <1>5
<1> DEFINE h == [m \in 1 .. n |-> IF m = 1 THEN 0 ELSE g[m - 1] + MonthLengths[m - 1]]
<1>7. \A m \in 1 .. n - 1 : h[m] = g[m]
  <2>1. \A m \in 1 .. n - 1 : m \in 1 .. n
    BY <1>3
  <2>2. \A m \in 1 .. n : h[m] = IF m = 1 THEN 0 ELSE g[m - 1] + MonthLengths[m - 1]
    OBVIOUS
  <2>3. \A m \in 1 .. n - 1 : g[m] = IF m = 1 THEN 0 ELSE g[m - 1] + MonthLengths[m - 1]
    BY <1>6, Zenon DEF ElapsedUpTo
  <2> QED
    BY <2>1, <2>2, <2>3, Zenon
<1>8. \A m \in 1 .. n : m # 1 => m - 1 \in 1 .. n - 1
  BY <1>3
<1>9. h = [m \in 1 .. n |-> IF m = 1 THEN 0 ELSE h[m - 1] + MonthLengths[m - 1]]
  BY <1>7, <1>8
<1>10. ElapsedUpTo(n, h)
  BY <1>9 DEF ElapsedUpTo
<1> QED
  BY <1>3, <1>10

\* Elapsed is the function that its definition describes.
LEMMA ElapsedDefined ==
  /\ Elapsed[1] = 0
  /\ \A m \in 1 .. Len(MonthLengths) : Elapsed[m + 1] = Elapsed[m] + MonthLengths[m]
<1>1. Len(MonthLengths) + 1 \in Nat
  BY LengthsOfMonths
<1>2. \E g : ElapsedUpTo(Len(MonthLengths) + 1, g)
  BY <1>1, ElapsedExists
<1>3. ElapsedUpTo(Len(MonthLengths) + 1, Elapsed)
  BY <1>2, Zenon DEF Elapsed, ElapsedUpTo
<1>4. \A m \in 1 .. Len(MonthLengths) + 1 :
        Elapsed[m] = IF m = 1 THEN 0 ELSE Elapsed[m - 1] + MonthLengths[m - 1]
  BY <1>3, Zenon DEF ElapsedUpTo
<1>5. Elapsed[1] = 0
  BY <1>1, <1>4
<1>6. ASSUME NEW m \in 1 .. Len(MonthLengths) PROVE Elapsed[m + 1] = Elapsed[m] + MonthLengths[m]
  <2>1. m + 1 \in 1 .. Len(MonthLengths) + 1 /\ m + 1 # 1 /\ (m + 1) - 1 = m
    BY LengthsOfMonths
  <2> QED
    BY <2>1, <1>4
<1> QED
  BY <1>5, <1>6

LEMMA ElapsedIsANumber ==
  \A n \in 1 .. Len(MonthLengths) + 1 : Elapsed[n] \in Nat /\ (n # 1 => Elapsed[n] # 0)
<1> DEFINE P(n) == Elapsed[n] \in Nat /\ (n # 1 => Elapsed[n] # 0)
           T == {n \in Nat : n \in 1 .. Len(MonthLengths) + 1 /\ ~ P(n)}
<1>0. Len(MonthLengths) \in Nat \ {0}
  BY LengthsOfMonths
<1> SUFFICES ASSUME T # {} PROVE FALSE
  BY <1>0
<1>1. T \subseteq Nat
  OBVIOUS
<1>2. PICK n \in T : \A k \in T : n <= k
  <2> HIDE DEF T
  <2> QED
    BY <1>1, LeastNumber
<1>3. n \in Nat /\ n \in 1 .. Len(MonthLengths) + 1 /\ ~ P(n)
  OBVIOUS
<1>4. n # 1
  BY <1>3, ElapsedDefined
<1>5. n - 1 \in 1 .. Len(MonthLengths) /\ n - 1 \notin T /\ (n - 1) + 1 = n
  BY <1>0, <1>2, <1>3, <1>4
<1>6. P(n - 1)
  BY <1>0, <1>5
<1>7. MonthLengths[n - 1] \in Nat \ {0} /\ Elapsed[n] = Elapsed[n - 1] + MonthLengths[n - 1]
  <2>1. Elapsed[(n - 1) + 1] = Elapsed[n - 1] + MonthLengths[n - 1]
    BY <1>5, ElapsedDefined
  <2> QED
    BY <1>5, <2>1, LengthsOfMonths
<1> QED
  BY <1>3, <1>6, <1>7

LEMMA RoundIsANumber == DaysOfAll \in Nat \ {0} /\ DaysOfAll \in Int
<1>1. Len(MonthLengths) + 1 \in 1 .. Len(MonthLengths) + 1 /\ Len(MonthLengths) + 1 # 1
  BY LengthsOfMonths
<1>2. Elapsed[Len(MonthLengths) + 1] \in Nat \ {0}
  BY <1>1, ElapsedIsANumber
<1> QED
  BY <1>2 DEF DaysOfAll

\* What a division leaves is less than the divisor; and it is the only such quotient.
LEMMA Quotients ==
  ASSUME NEW n \in Int, NEW k \in Nat \ {0}
  PROVE  /\ n \div k \in Int /\ (n \div k) * k <= n /\ n < (n \div k) * k + k
BY n = (n \div k) * k + (n % k), n % k \in 0 .. k - 1

LEMMA OneQuotient ==
  ASSUME NEW k \in Nat \ {0}, NEW n \in Int, NEW p \in Int, NEW q \in Int,
         p * k <= n, n < p * k + k, q * k <= n, n < q * k + k
  PROVE  p = q
<1>1. ASSUME NEW a \in Int, NEW b \in Int, a * k <= n, n < b * k + k, b < a PROVE FALSE
  <2>1. (b + 1) * k <= a * k
    BY <1>1
  <2>2. (b + 1) * k = b * k + k
    OBVIOUS
  <2>3. a * k \in Int /\ b * k \in Int
    OBVIOUS
  <2> QED
    BY <1>1, <2>1, <2>2, <2>3
<1> QED
  BY <1>1

LEMMA Remainders ==
  ASSUME NEW n \in Int, NEW k \in Nat \ {0}
  PROVE  n % k \in 0 .. k - 1 /\ n % k \in Int /\ n = (n \div k) * k + (n % k) /\ n \div k \in Int
BY n = (n \div k) * k + (n % k), n % k \in 0 .. k - 1

LEMMA DivisionOf ==
  ASSUME NEW k \in Nat \ {0}, NEW q \in Int, NEW r \in 0 .. k - 1, NEW n \in Int, n = q * k + r
  PROVE  n \div k = q /\ n % k = r
<1>1. q * k \in Int /\ q * k <= n /\ n < q * k + k /\ r \in Int
  OBVIOUS
<1>2. n \div k \in Int /\ (n \div k) * k <= n /\ n < (n \div k) * k + k
  BY Quotients
<1>3. n \div k = q
  BY <1>1, <1>2, OneQuotient
<1>4. n % k \in Int /\ n = (n \div k) * k + (n % k)
  BY Remainders
<1>5. n = q * k + (n % k)
  BY <1>3, <1>4
<1> QED
  BY <1>1, <1>3, <1>4, <1>5

\* The month after q rounds and r months more.
LEMMA MonthInRound ==
  ASSUME NEW q \in Int, NEW r \in 0 .. Len(MonthLengths) - 1, NEW m \in Int,
         m - 1 = q * Len(MonthLengths) + r
  PROVE  /\ MonthStart(m) = 1 + q * DaysOfAll + Elapsed[r + 1]
         /\ MonthLength(m) = MonthLengths[r + 1]
<1> DEFINE n == m - 1
           k == Len(MonthLengths)
<1>0. k \in Nat \ {0} /\ n \in Int /\ n = q * k + r /\ r \in 0 .. k - 1
  BY LengthsOfMonths
<1> HIDE DEF n, k
<1>1. n \div k = q /\ n % k = r
  BY <1>0, DivisionOf
<1> QED
  BY <1>1 DEF MonthStart, MonthLength, n, k

\* A month begins where the one before it ends.
LEMMA MonthsFollow ==
  ASSUME NEW m \in Int
  PROVE  /\ MonthLength(m) \in Nat \ {0} /\ MonthStart(m) \in Int
         /\ MonthStart(m + 1) \in Int /\ MonthStart(m + 1) = MonthStart(m) + MonthLength(m)
<1> DEFINE N == Len(MonthLengths)
           q == (m - 1) \div N
           r == (m - 1) % N
<1>0. N \in Nat \ {0} /\ DaysOfAll \in Int
  BY LengthsOfMonths, RoundIsANumber
<1>1. q \in Int /\ r \in 0 .. N - 1 /\ r \in Int /\ m - 1 = q * N + r
  <2>1. m - 1 \in Int
    OBVIOUS
  <2> HIDE DEF N
  <2> QED
    BY <1>0, <2>1, Remainders
<1> HIDE DEF q, r
<1>2. MonthStart(m) = 1 + q * DaysOfAll + Elapsed[r + 1] /\ MonthLength(m) = MonthLengths[r + 1]
  BY <1>1, MonthInRound
<1>3. r + 1 \in 1 .. N /\ r + 1 \in 1 .. N + 1
  BY <1>0, <1>1
<1>4. Elapsed[r + 1] \in Nat /\ MonthLengths[r + 1] \in Nat \ {0}
      /\ Elapsed[(r + 1) + 1] = Elapsed[r + 1] + MonthLengths[r + 1]
  BY <1>3, ElapsedIsANumber, ElapsedDefined, LengthsOfMonths
<1>5. q * DaysOfAll \in Int
  BY <1>0, <1>1
<1>6. CASE r + 1 # N
  <2>1. r + 1 \in 0 .. N - 1 /\ (m + 1) - 1 = q * N + (r + 1) /\ m + 1 \in Int
    <3>1. q * N \in Int
      BY <1>0, <1>1
    <3> HIDE DEF N
    <3> QED
      BY <1>0, <1>1, <1>6, <3>1
  <2>2. MonthStart(m + 1) = 1 + q * DaysOfAll + Elapsed[(r + 1) + 1]
    BY <1>1, <2>1, MonthInRound
  <2> QED
    BY <1>2, <1>4, <1>5, <2>2
<1>7. CASE r + 1 = N
  <2>1. (m + 1) - 1 = (q + 1) * N + 0 /\ q + 1 \in Int /\ 0 \in 0 .. N - 1 /\ m + 1 \in Int
    <3>1. q * N \in Int /\ (q + 1) * N = q * N + N
      BY <1>0, <1>1
    <3> HIDE DEF N
    <3> QED
      BY <1>0, <1>1, <1>7, <3>1
  <2>2. MonthStart(m + 1) = 1 + (q + 1) * DaysOfAll + Elapsed[0 + 1]
    BY <2>1, MonthInRound
  <2>3. (q + 1) * DaysOfAll = q * DaysOfAll + DaysOfAll
    BY <1>0, <1>1
  <2>4. DaysOfAll = Elapsed[r + 1] + MonthLengths[r + 1]
    BY <1>4, <1>7 DEF DaysOfAll
  <2>5. Elapsed[0 + 1] = 0 /\ 0 + 1 = 1
    BY ElapsedDefined
  <2>6. MonthStart(m + 1) = 1 + (q * DaysOfAll + DaysOfAll)
    <3> DEFINE x == (q + 1) * DaysOfAll
               y == q * DaysOfAll
    <3>1. x = y + DaysOfAll /\ MonthStart(m + 1) = 1 + x + 0 /\ y \in Int
      BY <1>5, <2>2, <2>3, <2>5
    <3> HIDE DEF x, y
    <3>2. MonthStart(m + 1) = 1 + (y + DaysOfAll)
      BY <1>0, <3>1
    <3> QED
      BY <3>2 DEF y
  <2> HIDE DEF N
  <2> QED
    BY <1>0, <1>2, <1>4, <1>5, <2>4, <2>6
<1> QED
  BY <1>6, <1>7

LEMMA StartsAreOrdered ==
  ASSUME NEW m \in Int, NEW n \in Int, m <= n
  PROVE  /\ MonthStart(m) \in Int /\ MonthStart(n) \in Int
         /\ MonthStart(m) <= MonthStart(n) /\ (m < n => MonthStart(m) < MonthStart(n))
<1> DEFINE P(k) == MonthStart(m) <= MonthStart(m + k) /\ (k > 0 => MonthStart(m) < MonthStart(m + k))
           T == {k \in Nat : ~ P(k)}
<1>1. ASSUME T # {} PROVE FALSE
  <2>1. T \subseteq Nat
    OBVIOUS
  <2>2. PICK k \in T : \A j \in T : k <= j
    <3> HIDE DEF T
    <3> QED
      BY <1>1, <2>1, LeastNumber
  <2>3. k \in Nat /\ ~ P(k)
    OBVIOUS
  <2>4. k # 0
    <3>1. m + 0 = m /\ MonthStart(m) \in Int
      BY MonthsFollow
    <3> QED
      BY <2>3, <3>1
  <2>5. k - 1 \in Nat /\ k - 1 \notin T
    BY <2>2, <2>3, <2>4
  <2>6. P(k - 1)
    BY <2>5
  <2>7. m + (k - 1) \in Int /\ (m + (k - 1)) + 1 = m + k
    BY <2>3
  <2>8. /\ MonthStart(m + k) = MonthStart(m + (k - 1)) + MonthLength(m + (k - 1))
        /\ MonthLength(m + (k - 1)) \in Nat \ {0} /\ MonthStart(m + (k - 1)) \in Int
        /\ MonthStart(m) \in Int
    <3>1. /\ MonthStart((m + (k - 1)) + 1) = MonthStart(m + (k - 1)) + MonthLength(m + (k - 1))
          /\ MonthLength(m + (k - 1)) \in Nat \ {0} /\ MonthStart(m + (k - 1)) \in Int
      BY <2>7, MonthsFollow
    <3> QED
      BY <2>7, <3>1, MonthsFollow
  <2> HIDE DEF T
  <2> QED
    BY <2>3, <2>6, <2>8
<1>2. n - m \in Nat /\ m + (n - m) = n
  OBVIOUS
<1>3. P(n - m)
  BY <1>1, <1>2
<1> QED
  BY <1>2, <1>3, MonthsFollow

InMonth(d, m) == MonthStart(m) <= d /\ d < MonthStart(m + 1)

\* A day is in one month, and in that one only.
LEMMA OneMonth ==
  ASSUME NEW d \in Int, NEW m \in Int, NEW n \in Int, InMonth(d, m), InMonth(d, n)
  PROVE  n = m
<1>1. ASSUME NEW a \in Int, NEW b \in Int, InMonth(d, a), InMonth(d, b), a < b PROVE FALSE
  <2>1. a + 1 \in Int /\ a + 1 <= b
    BY <1>1
  <2>2. MonthStart(a + 1) \in Int /\ MonthStart(b) \in Int /\ MonthStart(a + 1) <= MonthStart(b)
    BY <2>1, StartsAreOrdered
  <2> QED
    BY <1>1, <2>2 DEF InMonth
<1> QED
  BY <1>1

LEMMA EveryDayHasAMonth ==
  ASSUME NEW d \in Int
  PROVE  MonthOf(d) \in Int /\ InMonth(d, MonthOf(d))
<1> DEFINE N == Len(MonthLengths)
           q == (d - 1) \div DaysOfAll
           day == (d - 1) % DaysOfAll
           Holds(m) == Elapsed[m] <= day /\ day < Elapsed[m + 1]
           n == CHOOSE m \in 1 .. N : Holds(m)
           T == {k \in Nat : k \in 1 .. N /\ day < Elapsed[k + 1]}
<1>0. N \in Nat \ {0} /\ DaysOfAll \in Nat \ {0} /\ DaysOfAll \in Int
  BY LengthsOfMonths, RoundIsANumber
<1>1. /\ q \in Int /\ day \in 0 .. DaysOfAll - 1 /\ d - 1 = q * DaysOfAll + day
      /\ q * DaysOfAll \in Int
  <2>1. \A e \in Int : /\ e % DaysOfAll \in 0 .. DaysOfAll - 1 /\ e \div DaysOfAll \in Int
                       /\ e = (e \div DaysOfAll) * DaysOfAll + (e % DaysOfAll)
    BY <1>0, Remainders
  <2>2. d - 1 \in Int
    OBVIOUS
  <2>3. q \in Int /\ day \in 0 .. DaysOfAll - 1 /\ d - 1 = q * DaysOfAll + day
    BY <2>1, <2>2, Zenon
  <2> HIDE DEF q, day
  <2> QED
    BY <1>0, <2>3
<1>2. MonthOf(d) = q * N + n
  BY DEF MonthOf
<1> HIDE DEF q, day, N
<1>3. \A k \in 1 .. N : Elapsed[k] \in Nat /\ Elapsed[k + 1] \in Nat
  <2>1. \A k \in 1 .. N : k \in 1 .. N + 1 /\ k + 1 \in 1 .. N + 1
    BY <1>0
  <2> QED
    BY <2>1, ElapsedIsANumber DEF N
<1>4. T \subseteq Nat /\ T # {}
  <2>1. N \in Nat /\ N \in 1 .. N /\ day < Elapsed[N + 1]
    BY <1>0, <1>1 DEF DaysOfAll, N
  <2> QED
    BY <2>1
<1>5. PICK k \in T : \A j \in T : k <= j
  <2> HIDE DEF T
  <2> QED
    BY <1>4, LeastNumber
<1>6. k \in Nat /\ k \in 1 .. N /\ day < Elapsed[k + 1]
  OBVIOUS
<1>7. Elapsed[k] <= day
  <2>1. CASE k = 1
    BY <1>0, <1>1, <2>1, ElapsedDefined
  <2>2. CASE k # 1
    <3>1. k - 1 \in Nat /\ k - 1 \in 1 .. N /\ k - 1 \notin T /\ (k - 1) + 1 = k
      BY <1>0, <1>5, <1>6, <2>2
    <3>2. ~ (day < Elapsed[k])
      BY <3>1
    <3> QED
      BY <1>0, <1>1, <1>3, <1>6, <3>2
  <2> QED
    BY <2>1, <2>2
<1>8. n \in 1 .. N /\ Holds(n)
  <2>1. \E m \in 1 .. N : Holds(m)
    BY <1>6, <1>7
  <2> HIDE DEF Holds
  <2> QED
    BY <2>1
<1>9. Elapsed[n] <= day /\ day < Elapsed[n + 1]
  BY <1>8
<1> HIDE DEF n, T
<1> DEFINE m == q * N + n
<1>10. m \in Int /\ m - 1 = q * N + (n - 1) /\ n - 1 \in 0 .. N - 1 /\ (n - 1) + 1 = n
  <2>1. q * N \in Int
    BY <1>0, <1>1
  <2> QED
    BY <1>0, <1>8, <2>1
<1> HIDE DEF m
<1>11. MonthStart(m) = 1 + q * DaysOfAll + Elapsed[n] /\ MonthLength(m) = MonthLengths[n]
  <2> DEFINE r == n - 1
  <2>1. q \in Int /\ m \in Int /\ r \in 0 .. Len(MonthLengths) - 1 /\ m - 1 = q * Len(MonthLengths) + r
    BY <1>1, <1>10 DEF N
  <2> HIDE DEF r
  <2>2. /\ MonthStart(m) = 1 + q * DaysOfAll + Elapsed[r + 1]
        /\ MonthLength(m) = MonthLengths[r + 1]
    BY <2>1, MonthInRound
  <2> QED
    BY <1>10, <2>2 DEF r
<1>12. MonthStart(m + 1) = MonthStart(m) + MonthLengths[n]
  BY <1>10, <1>11, MonthsFollow
<1>13. Elapsed[n + 1] = Elapsed[n] + MonthLengths[n] /\ MonthLengths[n] \in Nat
  BY <1>8, ElapsedDefined, LengthsOfMonths DEF N
<1>14. InMonth(d, m)
  <2> DEFINE x == q * DaysOfAll
  <2>1. /\ x \in Int /\ d - 1 = x + day /\ MonthStart(m) = 1 + x + Elapsed[n]
        /\ MonthStart(m + 1) = MonthStart(m) + MonthLengths[n]
    BY <1>1, <1>11, <1>12
  <2> HIDE DEF x
  <2> QED
    BY <1>0, <1>1, <1>3, <1>8, <1>9, <1>13, <2>1 DEF InMonth
<1> QED
  BY <1>2, <1>10, <1>14 DEF m

LEMMA MonthIsUnique ==
  ASSUME NEW d \in Int, NEW m \in Int, InMonth(d, m)
  PROVE  MonthOf(d) = m
BY EveryDayHasAMonth, OneMonth

LEMMA DayInIsInItsMonth ==
  ASSUME NEW m \in Int, NEW day \in Nat \ {0}
  PROVE  /\ DayIn(m, day) \in Int /\ InMonth(DayIn(m, day), m) /\ MonthOf(DayIn(m, day)) = m
<1>1. /\ MonthStart(m) \in Int /\ MonthLength(m) \in Nat \ {0}
      /\ MonthStart(m + 1) = MonthStart(m) + MonthLength(m)
  BY MonthsFollow
<1>2. AtMost(day, MonthLength(m)) \in 1 .. MonthLength(m)
  BY <1>1 DEF AtMost
<1>3. DayIn(m, day) \in Int /\ InMonth(DayIn(m, day), m)
  BY <1>1, <1>2 DEF DayIn, InMonth
<1> QED
  BY <1>3, MonthIsUnique

LEMMA MonthsAreOrdered ==
  ASSUME NEW d \in Int, NEW e \in Int, d <= e
  PROVE  MonthOf(d) <= MonthOf(e)
<1> DEFINE m == MonthOf(d)
           n == MonthOf(e)
<1>1. m \in Int /\ InMonth(d, m) /\ n \in Int /\ InMonth(e, n)
  BY EveryDayHasAMonth
<1> HIDE DEF m, n
<1>2. ASSUME n < m PROVE FALSE
  <2>1. n + 1 \in Int /\ n + 1 <= m
    BY <1>1, <1>2
  <2>2. MonthStart(n + 1) \in Int /\ MonthStart(m) \in Int /\ MonthStart(n + 1) <= MonthStart(m)
    BY <1>1, <2>1, StartsAreOrdered
  <2> QED
    BY <1>1, <2>2 DEF InMonth
<1> QED
  BY <1>1, <1>2 DEF m, n

-----------------------------------------------------------------------------
(* Cycles.                                                                 *)

\* The settings of a cycle that the engine works with.
IsSettings(s) ==
  \/ s.kind = "days" /\ s.lengthDays \in Nat \ {0} /\ s.anchorDate \in Int
  \/ s.kind = "monthly" /\ s.anchorDay \in 1..31

IsCycle(c) == /\ c = [start |-> c.start, end |-> c.end]
              /\ c.start \in Int /\ c.end \in Int /\ c.start < c.end

\* The cycles of so many days.
LEMMA DaysCycleHolds ==
  ASSUME NEW length \in Nat \ {0}, NEW anchor \in Int, NEW d \in Int
  PROVE  LET c == DaysCycle(d, length, anchor) IN
         /\ IsCycle(c) /\ c.start <= d /\ d < c.end /\ c.end = c.start + length
         /\ \A e \in Int : c.start <= e /\ e < c.end => DaysCycle(e, length, anchor) = c
         /\ DaysCycle(c.end, length, anchor).start = c.end
<1> DEFINE q(e) == (e - anchor) \div length
           c == DaysCycle(d, length, anchor)
<1>1. \A e \in Int : /\ q(e) \in Int
                     /\ q(e) * length <= e - anchor /\ e - anchor < q(e) * length + length
  BY Quotients
<1>2. c = [start |-> anchor + q(d) * length, end |-> anchor + q(d) * length + length]
  BY DEF DaysCycle
<1>3. \A e \in Int : DaysCycle(e, length, anchor)
                       = [start |-> anchor + q(e) * length, end |-> anchor + q(e) * length + length]
  BY DEF DaysCycle
<1> HIDE DEF q, c
<1>4. q(d) * length \in Int /\ q(d) \in Int
  BY <1>1
<1>5. IsCycle(c) /\ c.start <= d /\ d < c.end /\ c.end = c.start + length
  BY <1>1, <1>2, <1>4 DEF IsCycle
<1>6. ASSUME NEW e \in Int, c.start <= e, e < c.end PROVE DaysCycle(e, length, anchor) = c
  <2>1. q(d) * length <= e - anchor /\ e - anchor < q(d) * length + length
    BY <1>2, <1>4, <1>6
  <2>2. q(e) = q(d)
    <3>1. e - anchor \in Int /\ q(e) \in Int /\ q(e) * length <= e - anchor
          /\ e - anchor < q(e) * length + length
      BY <1>1
    <3> QED
      BY <1>4, <2>1, <3>1, OneQuotient
  <2> QED
    BY <1>2, <1>3, <2>2
<1>7. DaysCycle(c.end, length, anchor).start = c.end
  <2>1. c.end \in Int /\ c.end - anchor = (q(d) + 1) * length
    BY <1>2, <1>4
  <2>2. (q(d) + 1) * length <= c.end - anchor /\ c.end - anchor < (q(d) + 1) * length + length
        /\ c.end - anchor \in Int /\ q(d) + 1 \in Int
    BY <1>4, <2>1
  <2>3. q(c.end) \in Int /\ q(c.end) * length <= c.end - anchor
        /\ c.end - anchor < q(c.end) * length + length
    BY <1>1, <2>1
  <2>4. q(c.end) = q(d) + 1
    BY <2>2, <2>3, OneQuotient
  <2> QED
    BY <1>2, <1>3, <2>1, <2>4
<1> QED
  BY <1>5, <1>6, <1>7 DEF c

\* The cycles of a month, from the month in which one turns.
TurnsIn(m, day) == [start |-> DayIn(m, day), end |-> DayIn(m + 1, day)]

LEMMA TurnsFollow ==
  ASSUME NEW m \in Int, NEW day \in 1..31
  PROVE  /\ IsCycle(TurnsIn(m, day)) /\ MonthOf(DayIn(m, day)) = m
         /\ \A e \in Int : DayIn(m, day) <= e /\ e < DayIn(m + 1, day) =>
                             MonthlyCycle(e, day) = TurnsIn(m, day)
         /\ MonthlyCycle(DayIn(m + 1, day), day).start = DayIn(m + 1, day)
<1>0. day \in Nat \ {0} /\ m + 1 \in Int /\ (m + 1) - 1 = m
  OBVIOUS
<1>1. /\ DayIn(m, day) \in Int /\ InMonth(DayIn(m, day), m) /\ MonthOf(DayIn(m, day)) = m
      /\ DayIn(m + 1, day) \in Int /\ InMonth(DayIn(m + 1, day), m + 1)
      /\ MonthOf(DayIn(m + 1, day)) = m + 1
  BY <1>0, DayInIsInItsMonth
<1>2. MonthStart(m) \in Int /\ MonthStart(m + 1) \in Int /\ MonthStart((m + 1) + 1) \in Int
  BY <1>0, MonthsFollow
<1> DEFINE a == DayIn(m, day)
           b == DayIn(m + 1, day)
<1> HIDE DEF a, b
<1>3. a \in Int /\ b \in Int /\ a < b
  BY <1>1, <1>2 DEF InMonth, a, b
<1>4. IsCycle(TurnsIn(m, day))
  BY <1>3 DEF IsCycle, TurnsIn, a, b
<1>5. ASSUME NEW e \in Int, a <= e, e < b PROVE MonthlyCycle(e, day) = TurnsIn(m, day)
  <2>1. CASE e < MonthStart(m + 1)
    <3>1. InMonth(e, m)
      BY <1>1, <1>2, <1>3, <1>5, <2>1 DEF InMonth, a
    <3>2. MonthOf(e) = m
      BY <3>1, MonthIsUnique
    <3> QED
      BY <1>5, <3>2 DEF MonthlyCycle, CycleFromMonth, TurnedIn, TurnsIn, a
  <2>2. CASE ~ (e < MonthStart(m + 1))
    <3>1. InMonth(e, m + 1)
      BY <1>1, <1>2, <1>3, <1>5, <2>2 DEF InMonth, b
    <3>2. MonthOf(e) = m + 1
      BY <1>0, <3>1, MonthIsUnique
    <3>3. ~ (DayIn(m + 1, day) <= e)
      BY <1>3, <1>5 DEF b
    <3> QED
      BY <1>0, <3>2, <3>3 DEF MonthlyCycle, CycleFromMonth, TurnedIn, TurnsIn
  <2> QED
    BY <2>1, <2>2
<1>6. MonthlyCycle(b, day).start = b
  BY <1>1, <1>3 DEF MonthlyCycle, CycleFromMonth, TurnedIn, b
<1> QED
  BY <1>1, <1>4, <1>5, <1>6 DEF a, b

LEMMA MonthlyCycleOf ==
  ASSUME NEW d \in Int, NEW day \in 1..31
  PROVE  \E m \in Int : /\ MonthlyCycle(d, day) = TurnsIn(m, day)
                        /\ DayIn(m, day) <= d /\ d < DayIn(m + 1, day)
<1> DEFINE n == MonthOf(d)
<1>1. n \in Int /\ InMonth(d, n)
  BY EveryDayHasAMonth
<1> HIDE DEF n
<1>2. n - 1 \in Int /\ n + 1 \in Int /\ (n - 1) + 1 = n /\ day \in Nat \ {0}
  BY <1>1
<1>3. /\ DayIn(n - 1, day) \in Int /\ InMonth(DayIn(n - 1, day), n - 1)
      /\ DayIn(n, day) \in Int
      /\ DayIn(n + 1, day) \in Int /\ InMonth(DayIn(n + 1, day), n + 1)
  BY <1>1, <1>2, DayInIsInItsMonth
<1>4. MonthStart(n) \in Int /\ MonthStart(n + 1) \in Int
  BY <1>1, MonthsFollow
<1>5. CASE DayIn(n, day) <= d
  <2>1. MonthlyCycle(d, day) = TurnsIn(n, day)
    BY <1>5 DEF MonthlyCycle, CycleFromMonth, TurnedIn, TurnsIn, n
  <2>2. d < DayIn(n + 1, day)
    BY <1>1, <1>3, <1>4 DEF InMonth
  <2> QED
    BY <1>1, <1>5, <2>1, <2>2
<1>6. CASE ~ (DayIn(n, day) <= d)
  <2>1. MonthlyCycle(d, day) = TurnsIn(n - 1, day)
    BY <1>6 DEF MonthlyCycle, CycleFromMonth, TurnedIn, TurnsIn, n
  <2>2. DayIn(n - 1, day) <= d
    BY <1>1, <1>2, <1>3, <1>4 DEF InMonth
  <2>3. d < DayIn((n - 1) + 1, day)
    BY <1>2, <1>3, <1>6
  <2> QED
    BY <1>2, <2>1, <2>2, <2>3
<1> QED
  BY <1>5, <1>6

\* A cycle holds its days and no others, and meets the next one: of days, and of months.
Fits(d, s) ==
  LET c == CycleFor(d, s) IN
    /\ IsCycle(c) /\ c.start <= d /\ d < c.end
    /\ \A e \in Int : c.start <= e /\ e < c.end => CycleFor(e, s) = c
    /\ CycleFor(c.end, s).start = c.end
    /\ ShiftCycle(c, 1, s).start = c.end
    /\ ShiftCycle(ShiftCycle(c, 1, s), -1, s) = c

LEMMA DaysFit ==
  ASSUME NEW s, s.kind = "days", IsSettings(s), NEW d \in Int
  PROVE  Fits(d, s)
<1> DEFINE k == s.lengthDays
           a == s.anchorDate
           c == DaysCycle(d, k, a)
           n == DaysCycle(c.end, k, a)
<1>1. k \in Nat \ {0} /\ a \in Int
  BY DEF IsSettings
<1>2. \A e : CycleFor(e, s) = DaysCycle(e, k, a)
  BY <1>1 DEF CycleFor, AtLeast
<1> HIDE DEF k, a
<1>3. /\ IsCycle(c) /\ c.start <= d /\ d < c.end /\ c.end = c.start + k
      /\ \A e \in Int : c.start <= e /\ e < c.end => DaysCycle(e, k, a) = c
      /\ n.start = c.end
  BY <1>1, DaysCycleHolds
<1>4. c.start \in Int /\ c.end \in Int
  BY <1>3 DEF IsCycle
<1>5. n.end = n.start + k
  BY <1>1, <1>4, DaysCycleHolds
<1> HIDE DEF c, n
<1>6. ShiftCycle(c, 1, s) = n
  <2>1. c.start + 1 * DaysTotal(c) = c.end
    BY <1>4 DEF DaysTotal
  <2> QED
    BY <1>2, <2>1 DEF ShiftCycle, n
<1>7. ShiftCycle(n, -1, s) = c
  <2>1. n.start + (-1) * DaysTotal(n) = c.start
    BY <1>1, <1>3, <1>4, <1>5 DEF DaysTotal
  <2>2. DaysCycle(c.start, k, a) = c
    BY <1>3, <1>4 DEF IsCycle
  <2> QED
    BY <1>2, <2>1, <2>2 DEF ShiftCycle
<1>8. CycleFor(d, s) = c /\ CycleFor(c.end, s) = n
  BY <1>2 DEF c, n
<1> QED
  BY <1>2, <1>3, <1>6, <1>7, <1>8 DEF Fits

LEMMA MonthsFit ==
  ASSUME NEW s, s.kind = "monthly", IsSettings(s), NEW d \in Int
  PROVE  Fits(d, s)
<1> DEFINE day == s.anchorDay
<1>1. day \in 1..31 /\ day \in Nat \ {0}
  BY DEF IsSettings
<1>2. \A e : CycleFor(e, s) = MonthlyCycle(e, day)
  BY <1>1 DEF CycleFor, AtLeast, AtMost
<1> HIDE DEF day
<1>3. PICK m \in Int : /\ MonthlyCycle(d, day) = TurnsIn(m, day)
                       /\ DayIn(m, day) <= d /\ d < DayIn(m + 1, day)
  BY <1>1, MonthlyCycleOf
<1> DEFINE c == TurnsIn(m, day)
           n == MonthlyCycle(DayIn(m + 1, day), day)
<1>4. /\ c.start = DayIn(m, day) /\ c.end = DayIn(m + 1, day)
      /\ m + 1 \in Int /\ (m + 1) + -1 = m
  BY DEF TurnsIn
<1>5. /\ IsCycle(c) /\ MonthOf(c.start) = m
      /\ \A e \in Int : c.start <= e /\ e < c.end => MonthlyCycle(e, day) = c
      /\ n.start = c.end
  BY <1>1, <1>4, TurnsFollow
<1>6. MonthOf(DayIn(m + 1, day)) = m + 1
  BY <1>1, <1>4, DayInIsInItsMonth
<1> HIDE DEF c, n
<1>7. ShiftCycle(c, 1, s) = n
  BY <1>2, <1>4, <1>5 DEF ShiftCycle, n, day
<1>8. ShiftCycle(n, -1, s) = c
  <2>1. MonthOf(n.start) + -1 = m
    BY <1>4, <1>5, <1>6
  <2>2. MonthlyCycle(DayIn(m, day), day) = c
    BY <1>4, <1>5 DEF IsCycle
  <2> QED
    BY <1>2, <2>1, <2>2 DEF ShiftCycle, day
<1>9. CycleFor(d, s) = c /\ CycleFor(c.end, s) = n
  BY <1>2, <1>3, <1>4 DEF c, n
<1>10. c.start <= d /\ d < c.end
  BY <1>3, <1>4
<1> QED
  BY <1>2, <1>5, <1>7, <1>8, <1>9, <1>10 DEF Fits

LEMMA CyclesFit ==
  ASSUME NEW s, IsSettings(s), NEW d \in Int
  PROVE  Fits(d, s)
BY DaysFit, MonthsFit DEF IsSettings

\* An earlier day is in no later cycle.
LEMMA CyclesAreOrdered ==
  ASSUME NEW s, IsSettings(s), NEW d \in Int, NEW e \in Int, d <= e
  PROVE  CycleFor(d, s).start <= CycleFor(e, s).start
<1> DEFINE a == CycleFor(d, s)
           b == CycleFor(e, s)
<1>1. Fits(d, s) /\ Fits(e, s)
  BY CyclesFit
<1>2. /\ IsCycle(a) /\ a.start <= d /\ IsCycle(b) /\ e < b.end
      /\ \A x \in Int : a.start <= x /\ x < a.end => CycleFor(x, s) = a
      /\ \A x \in Int : b.start <= x /\ x < b.end => CycleFor(x, s) = b
  BY <1>1 DEF Fits
<1> HIDE DEF a, b
<1>3. ASSUME b.start < a.start PROVE FALSE
  <2>1. /\ a.start \in Int /\ a.end \in Int /\ a.start < a.end
        /\ b.start \in Int /\ b.end \in Int /\ a.start < b.end
    BY <1>1, <1>2 DEF IsCycle
  <2>2. CycleFor(a.start, s) = a /\ CycleFor(a.start, s) = b
    BY <1>2, <1>3, <2>1
  <2> QED
    BY <1>3, <2>1, <2>2
<1>4. a.start \in Int /\ b.start \in Int
  BY <1>2 DEF IsCycle
<1> QED
  BY <1>3, <1>4 DEF a, b

\* What `walk` computes, on the days from `first` on (see CyclesBetween).
Follows(d, s) == ShiftCycle(CycleFor(d, s), 1, s).start
Walks(first, last, s, w) ==
  w = [d \in first .. last |->
         <<CycleFor(d, s)>> \o (IF Follows(d, s) > last THEN <<>> ELSE w[Follows(d, s)])]

LEMMA WalkExists ==
  ASSUME NEW s, NEW first \in Int, NEW last \in Int, \A d \in first .. last : Fits(d, s)
  PROVE  \E w : Walks(first, last, s, w)
<1> DEFINE T == {n \in Nat : n <= last + 1 - first /\ ~ \E w : Walks(last + 1 - n, last, s, w)}
<1> USE DEF Walks
<1>1. T = {} => \A n \in Nat : n <= last + 1 - first => \E w : Walks(last + 1 - n, last, s, w)
  OBVIOUS
<1>2. ASSUME T # {} PROVE FALSE
  <2>1. T \subseteq Nat
    OBVIOUS
  <2>2. PICK n \in T : \A k \in T : n <= k
    <3> HIDE DEF T
    <3> QED
      BY <1>2, <2>1, LeastNumber
  <2>3. n \in Nat /\ n <= last + 1 - first /\ ~ \E w : Walks(last + 1 - n, last, s, w)
    OBVIOUS
  <2>4. n # 0
    <3>1. (last + 1 - 0) .. last = {}
      OBVIOUS
    <3>2. Walks(last + 1 - 0, last, s, [d \in {} |-> <<>>])
      BY <3>1
    <3> QED
      BY <2>3, <3>2
  <2> DEFINE k == last + 1 - n
  <2>5. k \in first .. last /\ last + 1 - (n - 1) = k + 1 /\ n - 1 \in Nat
    BY <2>3, <2>4
  <2>6. n - 1 \notin T /\ n - 1 <= last + 1 - first
    BY <2>2, <2>3, <2>4
  <2>7. PICK v : Walks(k + 1, last, s, v)
    BY <2>5, <2>6
  <2> DEFINE w == [d \in k .. last |->
                     <<CycleFor(d, s)>> \o (IF Follows(d, s) > last THEN <<>> ELSE v[Follows(d, s)])]
  <2> HIDE DEF T, k
  <2>8. \A d \in k + 1 .. last : v[d] = w[d]
    <3>1. \A d \in k + 1 .. last : d \in k .. last
      BY <2>5
    <3>2. \A d \in k + 1 .. last :
            v[d] = <<CycleFor(d, s)>> \o (IF Follows(d, s) > last THEN <<>> ELSE v[Follows(d, s)])
      BY <2>7, Zenon
    <3> QED
      BY <3>1, <3>2, Zenon
  <2>9. \A d \in k .. last : ~ (Follows(d, s) > last) => Follows(d, s) \in k + 1 .. last
    <3> SUFFICES ASSUME NEW d \in k .. last, ~ (Follows(d, s) > last)
                 PROVE  Follows(d, s) \in k + 1 .. last
      OBVIOUS
    <3>1. d \in first .. last /\ k \in Int /\ d \in Int /\ d >= k
      BY <2>5
    <3>2. Follows(d, s) = CycleFor(d, s).end /\ CycleFor(d, s).end \in Int /\ d < CycleFor(d, s).end
      BY <3>1, Zenon DEF Fits, IsCycle, Follows
    <3> QED
      BY <3>1, <3>2
  <2>10. w = [d \in k .. last |->
                <<CycleFor(d, s)>> \o (IF Follows(d, s) > last THEN <<>> ELSE w[Follows(d, s)])]
    <3> DEFINE B(d, f) == <<CycleFor(d, s)>> \o (IF Follows(d, s) > last THEN <<>> ELSE f[Follows(d, s)])
    <3>1. \A d \in k .. last : B(d, v) = B(d, w)
      <4> HIDE DEF w
      <4> QED
        BY <2>8, <2>9, Zenon
    <3> QED
      BY <3>1, Zenon
  <2>11. Walks(k, last, s, w)
    BY <2>10
  <2> QED
    BY <2>3, <2>11 DEF k
<1>3. CASE first <= last + 1
  <2>1. last + 1 - first \in Nat /\ last + 1 - (last + 1 - first) = first
    BY <1>3
  <2>2. T = {}
    <3> HIDE DEF T, Walks
    <3> QED
      BY <1>2
  <2> HIDE DEF T, Walks
  <2>3. \E w : Walks(last + 1 - (last + 1 - first), last, s, w)
    <3> DEFINE n == last + 1 - first
    <3>1. n \in Nat /\ n <= last + 1 - first
      BY <2>1
    <3> HIDE DEF n
    <3>2. \E w : Walks(last + 1 - n, last, s, w)
      BY <1>1, <2>2, <3>1, Zenon
    <3> QED
      BY <3>2 DEF n
  <2> QED
    BY <2>1, <2>3
<1>4. CASE ~ (first <= last + 1)
  <2>1. first .. last = {}
    BY <1>4
  <2>2. Walks(first, last, s, [d \in {} |-> <<>>])
    BY <2>1
  <2> QED
    BY <2>2
<1> QED
  BY <1>3, <1>4

CyclesOf(days, s) == {CycleFor(d, s) : d \in days}

LEMMA WalkIsOfCycles ==
  ASSUME NEW s, NEW first \in Int, NEW last \in Int, \A d \in first .. last : Fits(d, s),
         NEW w, Walks(first, last, s, w)
  PROVE  \A d \in first .. last : w[d] \in Seq(CyclesOf(first .. last, s))
<1> DEFINE S == CyclesOf(first .. last, s)
           T == {n \in Nat : last - n \in first .. last /\ w[last - n] \notin Seq(S)}
<1>1. \A d \in first .. last :
        w[d] = <<CycleFor(d, s)>> \o (IF Follows(d, s) > last THEN <<>> ELSE w[Follows(d, s)])
  BY Zenon DEF Walks
<1>2. ASSUME T # {} PROVE FALSE
  <2>1. T \subseteq Nat
    OBVIOUS
  <2>2. PICK n \in T : \A k \in T : n <= k
    <3> HIDE DEF T
    <3> QED
      BY <1>2, <2>1, LeastNumber
  <2> DEFINE d == last - n
  <2>3. n \in Nat /\ d \in first .. last /\ w[d] \notin Seq(S)
    OBVIOUS
  <2>4. CycleFor(d, s) \in S
    BY <2>3 DEF CyclesOf
  <2>5. /\ Follows(d, s) = CycleFor(d, s).end /\ CycleFor(d, s).end \in Int
        /\ d < CycleFor(d, s).end
    BY <2>3, Zenon DEF Fits, IsCycle, Follows
  <2> HIDE DEF S
  <2>6. CASE Follows(d, s) > last
    <3>1. w[d] = <<CycleFor(d, s)>> \o <<>>
      BY <1>1, <2>3, <2>6, Zenon
    <3> QED
      BY <2>3, <2>4, <3>1
  <2>7. CASE ~ (Follows(d, s) > last)
    <3> DEFINE e == Follows(d, s)
               k == last - e
    <3>1. k \in Nat /\ k < n /\ last - k = e /\ e \in first .. last
      BY <2>3, <2>5, <2>7
    <3>2. k \notin T
      <4> HIDE DEF k, T
      <4> QED
        BY <2>2, <2>3, <3>1
    <3>3. w[e] \in Seq(S)
      BY <3>1, <3>2
    <3>4. w[d] = <<CycleFor(d, s)>> \o w[e]
      BY <1>1, <2>3, <2>7, Zenon
    <3> HIDE DEF e, d
    <3> QED
      BY <2>3, <2>4, <3>3, <3>4
  <2> QED
    BY <2>6, <2>7
<1>3. ASSUME NEW d \in first .. last PROVE w[d] \in Seq(S)
  <2> DEFINE n == last - d
  <2>1. n \in Nat /\ last - n = d
    OBVIOUS
  <2>2. n \notin T
    BY <1>2
  <2> QED
    BY <2>1, <2>2
<1> QED
  BY <1>3

\* Every cycle of a walk is the cycle of each of its days.
LEMMA CyclesBetweenAreCycles ==
  ASSUME NEW s, NEW from, NEW to,
         CycleFor(from, s).start \in Int, CycleFor(to, s).start \in Int,
         \A d \in CycleFor(from, s).start .. CycleFor(to, s).start : Fits(d, s)
  PROVE  /\ CyclesBetween(from, to, s)
              \in Seq(CyclesOf(CycleFor(from, s).start .. CycleFor(to, s).start, s))
         /\ \A i \in DOMAIN CyclesBetween(from, to, s) :
              LET c == CyclesBetween(from, to, s)[i]
              IN IsCycle(c) /\ \A e \in Int : c.start <= e /\ e < c.end => CycleFor(e, s) = c
<1> DEFINE first == CycleFor(from, s).start
           last == CycleFor(to, s).start
           w == CHOOSE f : Walks(first, last, s, f)
           S == CyclesOf(first .. last, s)
           between == CyclesBetween(from, to, s)
<1>1. Walks(first, last, s, w)
  <2> HIDE DEF first, last
  <2>1. \E f : Walks(first, last, s, f)
    BY WalkExists DEF first, last
  <2> QED
    BY <2>1, Zenon
<1>2. between = IF first > last THEN <<>> ELSE w[first]
  BY Zenon DEF CyclesBetween, CyclesFrom, Walks, Follows
<1>3. between \in Seq(S)
  <2> HIDE DEF first, last, w, S
  <2>1. first \in Int /\ last \in Int /\ \A d \in first .. last : Fits(d, s)
    BY DEF first, last
  <2>2. CASE first > last
    BY <1>2, <2>2
  <2>3. CASE ~ (first > last)
    <3>1. first \in first .. last
      BY <2>1, <2>3
    <3>2. w[first] \in Seq(S)
      BY <1>1, <2>1, <3>1, WalkIsOfCycles, Zenon DEF S
    <3> QED
      BY <1>2, <2>3, <3>2
  <2> QED
    BY <2>2, <2>3
<1>4. ASSUME NEW i \in DOMAIN between
      PROVE  /\ IsCycle(between[i])
             /\ \A e \in Int : between[i].start <= e /\ e < between[i].end =>
                                  CycleFor(e, s) = between[i]
  <2> HIDE DEF between, S
  <2>1. between[i] \in S
    BY <1>3
  <2>2. PICK d \in first .. last : between[i] = CycleFor(d, s)
    BY <2>1 DEF S, CyclesOf
  <2>3. Fits(d, s)
    BY <2>2
  <2> QED
    BY <2>2, <2>3 DEF Fits, IsCycle
<1> QED
  BY <1>3, <1>4

-----------------------------------------------------------------------------
(* The household.                                                          *)

\* What the run plays of the household is a behaviour of the household.
THEOREM PlayedHousehold == BudgetSpec => HouseholdSpec
<1>1. BudgetInit => HouseholdInit
  BY DEF BudgetInit
<1>2. ASSUME [BudgetNext]_budgetVars PROVE [HouseholdNext]_householdVars
  BY <1>2 DEF BudgetNext, budgetVars, householdVars
<1> QED
  BY <1>1, <1>2, PTL DEF BudgetSpec, HouseholdSpec

\* The settings of the budget are those that are stored, and it starts where they say.
HouseholdInv ==
  /\ today \in FirstDay .. LastDay /\ now \in FirstDay .. today
  /\ set \in BudgetSettings /\ set.budgetStart \in {None} \cup FirstDay .. today
  /\ budget.settings = CycleSettingsOf(set)
  /\ budget.start = BudgetStartOf(set, CycleFor(now, budget.settings))

LEMMA DaysPlayed ==
  FirstDay \in Int /\ LastDay \in Int /\ FirstDay <= LastDay
BY HouseholdAssumption

LEMMA StoredSettings ==
  ASSUME NEW x \in BudgetSettings
  PROVE  IsSettings(CycleSettingsOf(x))
BY PotsAssumption DEF BudgetSettings, CycleSettingsOf, IsSettings

LEMMA BudgetIsOf ==
  ASSUME NEW x, NEW c, NEW T, NEW d
  PROVE  LET b == BuildBudget(x, c, T, d) IN
         /\ b.settings = CycleSettingsOf(x)
         /\ b.start = BudgetStartOf(x, CycleFor(d, b.settings))
BY DEF BuildBudget, Replayed, BudgetFrom

LEMMA HouseholdStarts == HouseholdInit => HouseholdInv
<1> SUFFICES ASSUME HouseholdInit PROVE HouseholdInv
  OBVIOUS
<1>1. today \in FirstDay .. LastDay /\ now \in FirstDay .. today
  BY DaysPlayed, HouseholdAssumption DEF HouseholdInit
<1>2. set \in BudgetSettings /\ set.budgetStart \in {None} \cup FirstDay .. today
  BY DaysPlayed, HouseholdAssumption DEF HouseholdInit
<1>3. budget = BuildBudget(set, cats, txs, now)
  BY DEF HouseholdInit
<1> QED
  BY <1>1, <1>2, <1>3, BudgetIsOf DEF HouseholdInv

LEMMA HouseholdSteps == HouseholdInv /\ [HouseholdNext]_householdVars => HouseholdInv'
<1> SUFFICES ASSUME HouseholdInv, [HouseholdNext]_householdVars PROVE HouseholdInv'
  OBVIOUS
<1>0. today \in Int /\ now \in Int /\ FirstDay \in Int /\ LastDay \in Int
  BY DaysPlayed DEF HouseholdInv
<1>1. CASE NextDay
  <2>1. today' \in FirstDay .. LastDay /\ now' \in FirstDay .. today'
    BY <1>0, <1>1 DEF NextDay, HouseholdInv
  <2>2. set.budgetStart \in {None} \cup FirstDay .. today'
    BY <1>0, <1>1 DEF NextDay, HouseholdInv
  <2> QED
    BY <1>1, <2>1, <2>2 DEF NextDay, HouseholdInv
<1>2. ASSUME Recomputed, today' = today, now' \in FirstDay .. today, set' \in BudgetSettings,
             set'.budgetStart \in {None} \cup FirstDay .. today
      PROVE  HouseholdInv'
  BY <1>2, BudgetIsOf DEF HouseholdInv, Recomputed
<1>3. CASE Reopen
  <2>1. now' \in FirstDay .. today
    BY <1>0, <1>3 DEF Reopen, HouseholdInv
  <2> QED
    BY <1>2, <1>3, <2>1 DEF Reopen, HouseholdInv
<1>4. CASE EnterSpending \/ EnterIncome \/ PutAsideOrTakeBack
  <2>1. UNCHANGED <<today, now, set>> /\ Recomputed
    BY <1>4 DEF EnterSpending, EnterIncome, PutAsideOrTakeBack, Add
  <2> QED
    BY <1>2, <2>1 DEF HouseholdInv
<1>5. CASE RemoveEntry \/ CreditMissing \/ RemoveCategory
  <2>1. UNCHANGED <<today, now, set>> /\ Recomputed
    BY <1>5 DEF RemoveEntry, CreditMissing, RemoveCategory
  <2> QED
    BY <1>2, <2>1 DEF HouseholdInv
<1>6. CASE MeasureCash
  <2>1. PICK n \in Amounts : set' = [set EXCEPT !.openingCash = n, !.budgetStart = today]
    BY <1>6 DEF MeasureCash
  <2>2. today \in Int /\ n \in Int
    BY DaysPlayed, HouseholdAssumption DEF HouseholdInv
  <2>3. set' \in BudgetSettings
    BY <2>1, <2>2 DEF HouseholdInv, BudgetSettings
  <2>4. set'.budgetStart \in FirstDay .. today
    BY <1>0, <2>1 DEF HouseholdInv, BudgetSettings
  <2> QED
    BY <1>2, <1>6, <2>3, <2>4 DEF MeasureCash, HouseholdInv
<1>7. CASE UNCHANGED householdVars
  BY <1>7 DEF householdVars, HouseholdInv
<1> QED
  BY <1>1, <1>3, <1>4, <1>5, <1>6, <1>7 DEF HouseholdNext

LEMMA HouseholdHolds == HouseholdSpec => []HouseholdInv
BY HouseholdStarts, HouseholdSteps, PTL DEF HouseholdSpec

\* The cycles tile the calendar, whatever its months, the settings and the day.
THEOREM CyclesTileTheCalendar == BudgetSpec => []CyclesTile
<1>1. HouseholdInv => CyclesTile
  <2> SUFFICES ASSUME HouseholdInv PROVE CyclesTile
    OBVIOUS
  <2> DEFINE s == budget.settings
             c == CycleFor(today, s)
  <2>1. IsSettings(s) /\ today \in Int
    BY StoredSettings, DaysPlayed DEF HouseholdInv
  <2>2. Fits(today, s)
    BY <2>1, CyclesFit
  <2>3. /\ IsCycle(c) /\ c.start <= today /\ today < c.end
        /\ \A e \in Int : c.start <= e /\ e < c.end => CycleFor(e, s) = c
        /\ CycleFor(c.end, s).start = c.end
        /\ ShiftCycle(c, 1, s).start = c.end
        /\ ShiftCycle(ShiftCycle(c, 1, s), -1, s) = c
    BY <2>2 DEF Fits
  <2> HIDE DEF c
  <2>4. c.start \in Int /\ c.end \in Int /\ c.start < c.end
    BY <2>3 DEF IsCycle
  <2>5. InCycle(today, c) /\ DaysLeft(c, today) \in 1 .. DaysTotal(c)
    BY <2>1, <2>3, <2>4 DEF InCycle, DaysLeft, DaysTotal
  <2>6. CycleFor(c.end - 1, s) = c
    BY <2>3, <2>4
  <2> QED
    BY <2>3, <2>5, <2>6 DEF CyclesTile, c
<1> QED
  BY <1>1, PlayedHousehold, HouseholdHolds, PTL

\* The budget starts, and its cycles are, where the calendar reaches: as of the day the app
\* was opened, and of any other when the start does not move with it.
LEMMA WalkedDaysFit ==
  ASSUME HouseholdInv, NEW on \in FirstDay .. LastDay, set.budgetStart # None \/ on = now
  PROVE  LET s == budget.settings
             first == CycleFor(budget.start, s).start
             last == CycleFor(on, s).start
         IN first \in Int /\ last \in Int /\ \A d \in first .. last : Fits(d, s)
<1> DEFINE s == budget.settings
<1>1. IsSettings(s) /\ on \in Int /\ now \in Int
  BY StoredSettings, DaysPlayed DEF HouseholdInv
<1>2. \A d \in Int : Fits(d, s)
  BY <1>1, CyclesFit
<1> HIDE DEF s
<1>3. \A d \in Int : CycleFor(d, s).start \in Int
  BY <1>2 DEF Fits, IsCycle
<1>4. budget.start \in Int
  BY <1>1, <1>3, DaysPlayed DEF HouseholdInv, BudgetStartOf, s
<1> QED
  BY <1>1, <1>2, <1>3, <1>4 DEF s

\* A wage is credited once: on a payday between the day the balance was measured and the day
\* the app was opened, in a cycle that had no income and gets no other.
THEOREM WagesAreCreditedOnce == BudgetSpec => WageCreditedOnce
<1> DEFINE Credited == \A t \in txs' \ txs : t.auto =>
             /\ t.day >= budget.start /\ t.day <= now
             /\ Income(During(txs', CycleFor(t.day, budget.settings))) = {t}
<1>1. ASSUME HouseholdInv, HouseholdNext PROVE Credited
  <2>1. CASE NextDay \/ Reopen \/ MeasureCash \/ RemoveCategory
    BY <2>1 DEF NextDay, Reopen, MeasureCash, RemoveCategory
  <2>2. CASE EnterSpending \/ EnterIncome \/ PutAsideOrTakeBack
    BY <2>2 DEF EnterSpending, EnterIncome, PutAsideOrTakeBack, Add, Entry
  <2>3. CASE RemoveEntry
    BY <2>3 DEF RemoveEntry
  <2>4. CASE CreditMissing
    <3> DEFINE s == budget.settings
               cycles == CyclesBetween(budget.start, now, s)
               due == MissingPaydays(s, budget.start, now, set.expected, txs)
               credit(p) == [id |-> p.day, kind |-> "income", cat |-> NoCategory,
                             amount |-> p.amount, day |-> p.day, auto |-> TRUE]
    <3>1. txs' = txs \cup {credit(p) : p \in due}
      BY <2>4 DEF CreditMissing
    <3>2. \A i \in DOMAIN cycles :
            /\ IsCycle(cycles[i])
            /\ \A e \in Int : cycles[i].start <= e /\ e < cycles[i].end => CycleFor(e, s) = cycles[i]
      <4>1. now \in FirstDay .. LastDay
        BY <1>1, DaysPlayed DEF HouseholdInv
      <4> QED
        BY <1>1, <4>1, WalkedDaysFit, CyclesBetweenAreCycles
    <3>3. ASSUME NEW p \in due
          PROVE  \E i \in DOMAIN cycles :
                   /\ p = [day |-> cycles[i].start, amount |-> set.expected]
                   /\ budget.start <= cycles[i].start /\ cycles[i].start <= now
                   /\ Income(During(txs, cycles[i])) = {}
      <4> HIDE DEF cycles
      <4> QED
        BY <3>3, Zenon DEF MissingPaydays, Creditable, cycles
    <3> HIDE DEF s, cycles, due
    <3>4. ASSUME NEW t \in txs' \ txs PROVE
            /\ t.day >= budget.start /\ t.day <= now
            /\ Income(During(txs', CycleFor(t.day, s))) = {t}
      <4>1. PICK p \in due : t = credit(p)
        BY <3>1, <3>4
      <4>2. PICK i \in DOMAIN cycles :
              /\ p = [day |-> cycles[i].start, amount |-> set.expected]
              /\ budget.start <= cycles[i].start /\ cycles[i].start <= now
              /\ Income(During(txs, cycles[i])) = {}
        BY <3>3
      <4> DEFINE c == cycles[i]
      <4>3. /\ IsCycle(c) /\ t.day = c.start /\ t.kind = "income"
            /\ \A e \in Int : c.start <= e /\ e < c.end => CycleFor(e, s) = c
        BY <3>2, <4>1, <4>2
      <4>4. t \in Income(During(txs', c))
        BY <3>4, <4>3 DEF Income, During, Between, IsCycle
      <4>5. ASSUME NEW x \in Income(During(txs', c)) PROVE x = t
        <5>1. x \in txs' /\ x.kind = "income" /\ c.start <= x.day /\ x.day < c.end
          BY <4>5 DEF Income, During, Between
        <5>2. x \notin txs
          BY <4>2, <5>1 DEF Income, During, Between
        <5>3. PICK q \in due : x = credit(q)
          BY <3>1, <5>1, <5>2
        <5>4. PICK j \in DOMAIN cycles : q = [day |-> cycles[j].start, amount |-> set.expected]
          BY <3>3
        <5>5. IsCycle(cycles[j]) /\ CycleFor(x.day, s) = cycles[j] /\ x.day = cycles[j].start
          BY <3>2, <5>3, <5>4 DEF IsCycle
        <5>6. CycleFor(x.day, s) = c
          BY <4>3, <5>1, <5>5 DEF IsCycle
        <5>7. q = p
          BY <4>2, <5>4, <5>5, <5>6
        <5> QED
          BY <4>1, <5>3, <5>7
      <4> HIDE DEF c
      <4>6. Income(During(txs', c)) = {t}
        BY <4>4, <4>5
      <4> QED
        <5>1. CycleFor(t.day, s) = c
          BY <4>3 DEF IsCycle
        <5> QED
          BY <4>2, <4>3, <4>6, <5>1 DEF c, IsCycle
    <3> QED
      BY <3>4 DEF s
  <2> QED
    BY <1>1, <2>1, <2>2, <2>3, <2>4 DEF HouseholdNext
<1>2. HouseholdInv /\ [HouseholdNext]_householdVars => [Credited]_householdVars
  BY <1>1
<1> QED
  BY <1>2, PlayedHousehold, HouseholdHolds, PTL DEF HouseholdSpec, WageCreditedOnce

-----------------------------------------------------------------------------
(* The past.                                                               *)

\* One sequence begins with the other.
Extends(new, old) == Len(old) <= Len(new) /\ \A k \in 1 .. Len(old) : new[k] = old[k]

\* A walk that goes further passes the same cycles first.
LEMMA WalkGoesOn ==
  ASSUME NEW s, NEW first \in Int, NEW last \in Int, NEW later \in Int, last <= later,
         \A d \in first .. later : Fits(d, s),
         NEW w, Walks(first, last, s, w), NEW v, Walks(first, later, s, v)
  PROVE  \A d \in first .. last : Extends(v[d], w[d])
<1> DEFINE T == {n \in Nat : last - n \in first .. last /\ ~ Extends(v[last - n], w[last - n])}
<1>0. \A d \in first .. last : d \in first .. later /\ Fits(d, s)
  OBVIOUS
<1>1. /\ \A d \in first .. last :
           w[d] = <<CycleFor(d, s)>> \o (IF Follows(d, s) > last THEN <<>> ELSE w[Follows(d, s)])
      /\ \A d \in first .. later :
           v[d] = <<CycleFor(d, s)>> \o (IF Follows(d, s) > later THEN <<>> ELSE v[Follows(d, s)])
  BY Zenon DEF Walks
<1>2. /\ \A d \in first .. last : w[d] \in Seq(CyclesOf(first .. last, s))
      /\ \A d \in first .. later : v[d] \in Seq(CyclesOf(first .. later, s))
  BY <1>0, WalkIsOfCycles
<1>3. ASSUME T # {} PROVE FALSE
  <2>1. T \subseteq Nat
    OBVIOUS
  <2>2. PICK n \in T : \A k \in T : n <= k
    <3> HIDE DEF T
    <3> QED
      BY <1>3, <2>1, LeastNumber
  <2> DEFINE d == last - n
             e == Follows(d, s)
             c == CycleFor(d, s)
             k == last - e
  <2>3. n \in Nat /\ d \in first .. last /\ d \in first .. later /\ ~ Extends(v[d], w[d])
    OBVIOUS
  <2>4. e = c.end /\ e \in Int /\ d < e
    BY <1>0, <2>3, Zenon DEF Fits, IsCycle, Follows
  <2>5. ASSUME NEW t, t \in Seq(CyclesOf(first .. later, s)) PROVE Extends(<<c>> \o t, <<c>>)
    BY <2>5 DEF Extends
  <2>6. CASE e > last
    <3>1. w[d] = <<c>> \o <<>>
      BY <1>1, <2>3, <2>6, Zenon
    <3>2. CASE e > later
      <4>1. v[d] = <<c>> \o <<>>
        BY <1>1, <2>3, <3>2, Zenon
      <4> QED
        BY <2>3, <3>1, <4>1 DEF Extends
    <3>3. CASE ~ (e > later)
      <4>1. v[d] = <<c>> \o v[e]
        BY <1>1, <2>3, <3>3, Zenon
      <4>2. e \in first .. later
        BY <2>3, <2>4, <3>3
      <4>3. v[e] \in Seq(CyclesOf(first .. later, s))
        BY <1>2, <4>2
      <4>4. <<c>> \o <<>> = <<c>>
        OBVIOUS
      <4> QED
        BY <2>3, <2>5, <3>1, <4>1, <4>3, <4>4
    <3> QED
      BY <3>2, <3>3
  <2>7. CASE ~ (e > last)
    <3>1. e \in first .. last /\ e \in first .. later /\ ~ (e > later)
      BY <2>3, <2>4, <2>7
    <3>2. k \in Nat /\ k < n /\ last - k = e
      BY <2>3, <2>4, <2>7
    <3>3. Extends(v[e], w[e])
      <4>1. k \notin T
        <5> HIDE DEF T, k
        <5> QED
          BY <2>2, <2>3, <3>2
      <4> QED
        BY <3>1, <3>2, <4>1
    <3>4. w[d] = <<c>> \o w[e] /\ v[d] = <<c>> \o v[e]
      BY <1>1, <2>3, <2>7, <3>1, Zenon
    <3>5. w[e] \in Seq(CyclesOf(first .. last, s)) /\ v[e] \in Seq(CyclesOf(first .. later, s))
      BY <1>2, <3>1
    <3> HIDE DEF e, d, c
    <3>6. Extends(<<c>> \o v[e], <<c>> \o w[e])
      <4> DEFINE a == w[e]
                 b == v[e]
      <4>1. Len(<<c>> \o a) = Len(a) + 1 /\ Len(<<c>> \o b) = Len(b) + 1
            /\ Len(a) \in Nat /\ Len(b) \in Nat
        BY <3>5
      <4>2. /\ \A i \in 1 .. Len(a) + 1 : (<<c>> \o a)[i] = IF i = 1 THEN c ELSE a[i - 1]
            /\ \A i \in 1 .. Len(b) + 1 : (<<c>> \o b)[i] = IF i = 1 THEN c ELSE b[i - 1]
        BY <3>5
      <4> HIDE DEF a, b
      <4> QED
        BY <3>3, <4>1, <4>2 DEF Extends, a, b
    <3> QED
      BY <2>3, <3>4, <3>6
  <2> QED
    BY <2>6, <2>7
<1>4. ASSUME NEW d \in first .. last PROVE Extends(v[d], w[d])
  <2> DEFINE n == last - d
  <2>1. n \in Nat /\ last - n = d
    OBVIOUS
  <2>2. n \notin T
    BY <1>3
  <2> QED
    BY <2>1, <2>2
<1> QED
  BY <1>4

LEMMA CyclesGoOn ==
  ASSUME NEW s, NEW from, NEW to, NEW until,
         CycleFor(from, s).start \in Int, CycleFor(to, s).start \in Int,
         CycleFor(until, s).start \in Int, CycleFor(to, s).start <= CycleFor(until, s).start,
         \A d \in CycleFor(from, s).start .. CycleFor(until, s).start : Fits(d, s)
  PROVE  Extends(CyclesBetween(from, until, s), CyclesBetween(from, to, s))
<1> DEFINE first == CycleFor(from, s).start
           last == CycleFor(to, s).start
           later == CycleFor(until, s).start
           w == CHOOSE f : Walks(first, last, s, f)
           v == CHOOSE f : Walks(first, later, s, f)
<1>1. /\ CyclesBetween(from, to, s) = IF first > last THEN <<>> ELSE w[first]
      /\ CyclesBetween(from, until, s) = IF first > later THEN <<>> ELSE v[first]
  BY Zenon DEF CyclesBetween, CyclesFrom, Walks, Follows
<1>2. CyclesBetween(from, until, s) \in Seq(CyclesOf(first .. later, s))
  BY CyclesBetweenAreCycles
<1> DEFINE old == CyclesBetween(from, to, s)
           new == CyclesBetween(from, until, s)
<1>3. /\ first \in Int /\ last \in Int /\ later \in Int /\ last <= later
      /\ \A d \in first .. later : Fits(d, s)
  OBVIOUS
<1> HIDE DEF first, last, later, w, v, old, new
<1>4. CASE first > last
  <2>1. old = <<>>
    BY <1>1, <1>4 DEF old
  <2> QED
    BY <1>2, <2>1 DEF Extends, old, new
<1>5. CASE ~ (first > last)
  <2>1. first \in first .. last /\ ~ (first > later) /\ \A d \in first .. last : Fits(d, s)
    BY <1>3, <1>5
  <2>2. Walks(first, last, s, w) /\ Walks(first, later, s, v)
    <3>1. (\E f : Walks(first, last, s, f)) /\ (\E f : Walks(first, later, s, f))
      BY <1>3, <2>1, WalkExists
    <3> QED
      BY <3>1, Zenon DEF w, v
  <2>3. Extends(v[first], w[first])
    BY <1>3, <2>1, <2>2, WalkGoesOn
  <2> QED
    BY <1>1, <1>5, <2>1, <2>3
<1> QED
  BY <1>4, <1>5

\* Row i of a pot's ledger, after the rows of r.
RowAfter(pot, s, cycles, paid, moved, i, r) ==
  RowToward(TargetDue(pot, cycles[i].start, cycles[1].end), pot, s, cycles, i,
            IF i = 1 THEN pot.opening ELSE r[i - 1].balance, paid, moved)

\* What `row` computes of a pot's ledger, on its first n rows (see PotLedger).
Replays(pot, s, cycles, paid, moved, n, r) ==
  r = [i \in 1 .. n |-> RowAfter(pot, s, cycles, paid, moved, i, r)]

LEMMA ReplayExists ==
  ASSUME NEW pot, NEW s, NEW cycles, NEW paid, NEW moved
  PROVE  \A n \in Nat : \E r : Replays(pot, s, cycles, paid, moved, n, r)
<1> DEFINE R(n, r) == Replays(pot, s, cycles, paid, moved, n, r)
           Row(i, r) == RowAfter(pot, s, cycles, paid, moved, i, r)
           T == {n \in Nat : ~ \E r : R(n, r)}
<1> SUFFICES ASSUME T # {} PROVE FALSE
  OBVIOUS
<1>1. T \subseteq Nat
  OBVIOUS
<1>2. PICK n \in T : \A k \in T : n <= k
  <2> HIDE DEF T
  <2> QED
    BY <1>1, LeastNumber
<1>3. n \in Nat /\ ~ \E r : R(n, r)
  OBVIOUS
<1> HIDE DEF T
<1>4. n # 0
  <2>1. R(0, [i \in 1 .. 0 |-> 0])
    BY DEF Replays
  <2> HIDE DEF R
  <2> QED
    BY <1>3, <2>1
<1>5. PICK q : R(n - 1, q)
  <2>1. n - 1 \in Nat /\ n - 1 \notin T
    BY <1>2, <1>3, <1>4
  <2> HIDE DEF R
  <2> QED
    BY <2>1 DEF T
<1> DEFINE r == [i \in 1 .. n |-> Row(i, q)]
<1>6. \A i \in 1 .. n - 1 : q[i] = r[i]
  <2>1. \A i \in 1 .. n - 1 : i \in 1 .. n
    BY <1>3
  <2>2. \A i \in 1 .. n - 1 : q[i] = Row(i, q)
    BY <1>5, Zenon DEF Replays
  <2> QED
    BY <2>1, <2>2, Zenon
<1>7. \A i \in 1 .. n : i # 1 => i - 1 \in 1 .. n - 1
  BY <1>3
<1>8. \A i \in 1 .. n : Row(i, q) = Row(i, r)
  <2> HIDE DEF r
  <2> SUFFICES ASSUME NEW i \in 1 .. n PROVE Row(i, q) = Row(i, r)
    OBVIOUS
  <2>1. i # 1 => q[i - 1] = r[i - 1]
    BY <1>6, <1>7
  <2>2. (IF i = 1 THEN pot.opening ELSE q[i - 1].balance)
           = (IF i = 1 THEN pot.opening ELSE r[i - 1].balance)
    BY <2>1
  <2> QED
    BY <2>2, Zenon DEF RowAfter
<1>9. r = [i \in 1 .. n |-> Row(i, r)]
  BY <1>8, Zenon
<1>10. R(n, r)
  BY <1>9 DEF Replays
<1> QED
  BY <1>3, <1>10

LEMMA PotLedgerIsReplayed ==
  ASSUME NEW pot, NEW s, NEW cycles, NEW paid, NEW moved, Len(cycles) \in Nat
  PROVE  /\ Replays(pot, s, cycles, paid, moved, Len(cycles), PotLedger(pot, s, cycles, paid, moved))
         /\ Len(PotLedger(pot, s, cycles, paid, moved)) = Len(cycles)
<1> DEFINE n == Len(cycles)
           r == PotLedger(pot, s, cycles, paid, moved)
<1>1. \E q : Replays(pot, s, cycles, paid, moved, n, q)
  BY ReplayExists
<1>2. Replays(pot, s, cycles, paid, moved, n, r)
  BY <1>1, Zenon DEF Replays, RowAfter, PotLedger
<1> HIDE DEF r
<1>3. DOMAIN r = 1 .. n /\ r = [i \in 1 .. n |-> r[i]]
  BY <1>2, Zenon DEF Replays
<1>4. Len(r) = n
  <2> DEFINE S == {r[i] : i \in 1 .. n}
  <2>1. \A i \in 1 .. n : r[i] \in S
    OBVIOUS
  <2> HIDE DEF S, n
  <2>2. n \in Nat
    BY DEF n
  <2>3. r \in [1 .. n -> S]
    BY <1>3, <2>1, Zenon
  <2>4. r \in Seq(S)
    BY <2>2, <2>3
  <2> QED
    BY <1>3, <2>2, <2>4
<1> QED
  BY <1>2, <1>4 DEF r

\* The same pot, replayed over cycles that go on, has the same rows first.
LEMMA ReplayGoesOn ==
  ASSUME NEW pot, NEW s, NEW old, NEW new, NEW paidOld, NEW paidNew, NEW movedOld, NEW movedNew,
         Len(old) \in Nat, Len(new) \in Nat, Extends(new, old),
         \A k \in 1 .. Len(old) : paidNew[k] = paidOld[k] /\ movedNew[k] = movedOld[k]
  PROVE  Extends(PotLedger(pot, s, new, paidNew, movedNew), PotLedger(pot, s, old, paidOld, movedOld))
<1> DEFINE n == Len(old)
           q == PotLedger(pot, s, old, paidOld, movedOld)
           r == PotLedger(pot, s, new, paidNew, movedNew)
           T == {k \in Nat : k \in 1 .. n /\ r[k] # q[k]}
<1>1. /\ Replays(pot, s, old, paidOld, movedOld, n, q) /\ Len(q) = n
      /\ Replays(pot, s, new, paidNew, movedNew, Len(new), r) /\ Len(r) = Len(new)
  BY PotLedgerIsReplayed
<1>2. n \in Nat /\ n <= Len(new) /\ \A k \in 1 .. n : new[k] = old[k]
  BY DEF Extends
<1> HIDE DEF n, q, r
<1>3. \A k \in 1 .. n : k \in 1 .. Len(new)
  BY <1>2
<1>4. /\ \A k \in 1 .. n : q[k] = RowAfter(pot, s, old, paidOld, movedOld, k, q)
      /\ \A k \in 1 .. Len(new) : r[k] = RowAfter(pot, s, new, paidNew, movedNew, k, r)
  BY <1>1, Zenon DEF Replays
<1>5. ASSUME T # {} PROVE FALSE
  <2>1. T \subseteq Nat
    OBVIOUS
  <2>2. PICK k \in T : \A j \in T : k <= j
    <3> HIDE DEF T
    <3> QED
      BY <1>5, <2>1, LeastNumber
  <2>3. k \in Nat /\ k \in 1 .. n /\ r[k] # q[k]
    OBVIOUS
  <2>4. k # 1 => r[k - 1] = q[k - 1]
    <3> SUFFICES ASSUME k # 1 PROVE r[k - 1] = q[k - 1]
      OBVIOUS
    <3>1. k - 1 \in Nat /\ k - 1 \in 1 .. n /\ k - 1 < k
      BY <1>2, <2>3
    <3>2. k - 1 \notin T
      <4> HIDE DEF T
      <4> QED
        BY <2>2, <2>3, <3>1
    <3> QED
      BY <3>1, <3>2
  <2>5. (IF k = 1 THEN pot.opening ELSE r[k - 1].balance)
          = (IF k = 1 THEN pot.opening ELSE q[k - 1].balance)
    BY <2>4
  <2>6. new[k] = old[k] /\ paidNew[k] = paidOld[k] /\ movedNew[k] = movedOld[k]
    BY <1>2, <2>3 DEF n
  <2>7. new[1] = old[1]
    <3>1. 1 \in 1 .. n
      BY <1>2, <2>3
    <3> QED
      BY <1>2, <3>1
  <2>8. RowAfter(pot, s, new, paidNew, movedNew, k, r) = RowAfter(pot, s, old, paidOld, movedOld, k, q)
    BY <2>5, <2>6, <2>7, Zenon DEF RowAfter, RowToward
  <2> QED
    BY <1>3, <1>4, <2>3, <2>8
<1>6. \A k \in 1 .. n : r[k] = q[k]
  <2> SUFFICES ASSUME NEW k \in 1 .. n PROVE r[k] = q[k]
    OBVIOUS
  <2>1. k \in Nat /\ k \notin T
    BY <1>2, <1>5
  <2> QED
    BY <2>1
<1> QED
  BY <1>1, <1>2, <1>6 DEF Extends, q, r

\* A later day replays the same past: the ledger of a pot as of today begins with its ledger
\* as of the day the app was opened before.
THEOREM PotsKeepTheirPast == BudgetSpec => PastIsFixed
<1> DEFINE Kept == now' # now /\ set.budgetStart # None =>
                     \A i \in DOMAIN budget.pots :
                       LET before == Ledger(budget.pots[i].pot, now)
                           after == Ledger(budget.pots[i].pot, now')
                       IN Len(before) <= Len(after) /\ \A k \in 1 .. Len(before) : after[k] = before[k]
<1>1. ASSUME HouseholdInv, HouseholdNext PROVE Kept
  <2> SUFFICES ASSUME now' # now, set.budgetStart # None, NEW pot
               PROVE  Extends(Ledger(pot, now'), Ledger(pot, now))
    BY DEF Extends
  <2>1. Reopen
    BY <1>1 DEF HouseholdNext, NextDay, EnterSpending, EnterIncome, PutAsideOrTakeBack, Add,
                RemoveEntry, CreditMissing, MeasureCash, RemoveCategory
  <2>2. /\ now \in FirstDay .. LastDay /\ today \in FirstDay .. LastDay /\ now < today
        /\ now' = today
    BY <1>1, <2>1, DaysPlayed DEF HouseholdInv, Reopen
  <2> DEFINE s == budget.settings
             start == budget.start
             old == CyclesBetween(start, now, s)
             new == CyclesBetween(start, today, s)
  <2>3. /\ IsSettings(s) /\ now \in Int /\ today \in Int
    BY <1>1, <2>2, StoredSettings, DaysPlayed DEF HouseholdInv
  <2> HIDE DEF s, start
  <2>4. /\ CycleFor(start, s).start \in Int /\ CycleFor(now, s).start \in Int
        /\ \A d \in CycleFor(start, s).start .. CycleFor(now, s).start : Fits(d, s)
    BY <1>1, <2>2, WalkedDaysFit DEF s, start
  <2>5. /\ CycleFor(today, s).start \in Int
        /\ \A d \in CycleFor(start, s).start .. CycleFor(today, s).start : Fits(d, s)
    BY <1>1, <2>2, WalkedDaysFit DEF s, start
  <2>6. CycleFor(now, s).start <= CycleFor(today, s).start
    BY <2>2, <2>3, CyclesAreOrdered
  <2>7. Extends(new, old)
    BY <2>4, <2>5, <2>6, CyclesGoOn
  <2>8. Len(old) \in Nat /\ Len(new) \in Nat /\ DOMAIN old = 1 .. Len(old) /\ DOMAIN new = 1 .. Len(new)
    <3>1. old \in Seq(CyclesOf(CycleFor(start, s).start .. CycleFor(now, s).start, s))
      BY <2>4, CyclesBetweenAreCycles
    <3>2. new \in Seq(CyclesOf(CycleFor(start, s).start .. CycleFor(today, s).start, s))
      BY <2>4, <2>5, CyclesBetweenAreCycles
    <3> HIDE DEF old, new
    <3> QED
      BY <3>1, <3>2
  <2> HIDE DEF old, new
  <2> DEFINE paid(cycles) == [k \in DOMAIN cycles |-> SpentOn(txs, pot.id, cycles[k])]
             moved(cycles) == [k \in DOMAIN cycles |-> 0]
  <2>9. \A k \in 1 .. Len(old) : paid(new)[k] = paid(old)[k] /\ moved(new)[k] = moved(old)[k]
    <3> SUFFICES ASSUME NEW k \in 1 .. Len(old)
                 PROVE  paid(new)[k] = paid(old)[k] /\ moved(new)[k] = moved(old)[k]
      OBVIOUS
    <3>1. k \in DOMAIN old /\ k \in DOMAIN new /\ new[k] = old[k]
      BY <2>7, <2>8 DEF Extends
    <3> QED
      BY <3>1
  <2>10. Extends(PotLedger(pot, s, new, paid(new), moved(new)),
                 PotLedger(pot, s, old, paid(old), moved(old)))
    <3> HIDE DEF paid, moved
    <3> QED
      BY <2>7, <2>8, <2>9, ReplayGoesOn
  <2>11. Ledger(pot, now) = PotLedger(pot, s, old, paid(old), moved(old))
    BY Zenon DEF Ledger, s, start, old
  <2>12. Ledger(pot, today) = PotLedger(pot, s, new, paid(new), moved(new))
    BY Zenon DEF Ledger, s, start, new
  <2> QED
    BY <2>2, <2>10, <2>11, <2>12, Zenon
<1>2. HouseholdInv /\ [HouseholdNext]_householdVars => [Kept]_householdVars
  BY <1>1
<1> QED
  BY <1>2, PlayedHousehold, HouseholdHolds, PTL DEF HouseholdSpec, PastIsFixed

-----------------------------------------------------------------------------
(* The category editor.                                                    *)

\* What the run plays of the editor is a behaviour of the editor.
THEOREM PlayedForm == BudgetSpec => FormSpec
<1>1. BudgetInit => FormInit
  BY DEF BudgetInit
<1>2. ASSUME [BudgetNext]_budgetVars PROVE [FormNext]_formVars
  BY <1>2 DEF BudgetNext, budgetVars, formVars
<1> QED
  BY <1>1, <1>2, PTL DEF BudgetSpec, FormSpec

\* A row is of the day to day, a bill from before bills were pots, a bill whose anchor was made
\* from its day, or a goal; and holds nothing of what it was before.
OldBillRow(due) == [FlowRow EXCEPT !.fixed = TRUE, !.dueDay = due]
FormInv ==
  /\ edited \in EditDays
  /\ \/ row = FlowRow
     \/ \E due \in DueDays : row = OldBillRow(due)
     \/ \E r \in Offered, d \in EditDays, opening \in {0, 1}, n \in {None, 1, 2},
           due \in DueDays \cup {None} :
          row = BillRow(r, AnchorFromDueDay(due, d), opening, n, due)
     \/ \E n \in {None, 1, 2} : row = GoalRow(n)

LEMMA FormStarts == FormInit => FormInv
BY DEF FormInit, FormInv, OldBillRow, Offered

LEMMA FormSteps == FormInv /\ [FormNext]_formVars => FormInv'
<1> SUFFICES ASSUME FormInv, [FormNext]_formVars PROVE FormInv'
  OBVIOUS
<1>1. CASE Edit
  <2>1. PICK f \in Forms : row' = SavedFor(f)
    BY <1>1 DEF Edit
  <2>2. edited' = edited /\ edited \in EditDays
    BY <1>1 DEF Edit, FormInv
  <2>3. f.kind = "bill" => row' = BillRow(f.recurrence, AnchorFromDueDay(f.dueDay, edited), 0,
                                          f.installments, f.dueDay)
    BY <2>1 DEF SavedFor
  <2>4. f.kind = "goal" => row' = GoalRow(f.installments)
    BY <2>1 DEF SavedFor
  <2>5. f.kind = "flow" => row' = FlowRow
    BY <2>1 DEF SavedFor
  <2>6. /\ f.kind \in {"flow", "bill", "goal"} /\ f.dueDay \in DueDays \cup {None}
        /\ f.installments \in {None, 1, 2} /\ f.recurrence \in Offered
    BY DEF Forms
  <2> QED
    BY <2>2, <2>3, <2>4, <2>5, <2>6 DEF FormInv
<1>2. CASE LaterDay
  BY <1>2 DEF LaterDay, FormInv
<1>3. CASE UNCHANGED formVars
  BY <1>3 DEF formVars, FormInv
<1> QED
  BY <1>1, <1>2, <1>3 DEF FormNext

LEMMA FormHolds == FormSpec => []FormInv
BY FormStarts, FormSteps, PTL DEF FormSpec

LEMMA DueDaysAreDays ==
  ASSUME NEW due \in DueDays \cup {None}, NEW d \in EditDays
  PROVE  LET a == AnchorFromDueDay(due, d) IN
         /\ a \in Int /\ a # None
         /\ due # None => a = DayIn(MonthOf(a), due)
<1> DEFINE m == MonthOf(d)
           day == IF due = None THEN 1 ELSE due
<1>1. d \in Int /\ day \in Nat \ {0} /\ (due # None => day = due)
  BY FormAssumption
<1>2. m \in Int
  BY <1>1, EveryDayHasAMonth
<1> HIDE DEF m, day
<1>3. DayIn(m, day) \in Int /\ MonthOf(DayIn(m, day)) = m
  BY <1>1, <1>2, DayInIsInItsMonth
<1>4. AnchorFromDueDay(due, d) = DayIn(m, day)
  BY DEF AnchorFromDueDay, m, day
<1> QED
  BY <1>1, <1>3, <1>4, PotsAssumption

LEMMA RowFields ==
  /\ FlowRow.fixed = FALSE /\ FlowRow.potKind = "unset" /\ FlowRow.dueDay = None
  /\ \A due : LET c == OldBillRow(due) IN
       c.fixed = TRUE /\ c.potKind = "unset" /\ c.dueDay = due /\ c.anchor = None
       /\ c.recurrence = "unset" /\ c.installments = None
  /\ \A r, a, o, n, due : LET c == BillRow(r, a, o, n, due) IN
       c.fixed = TRUE /\ c.potKind = "bill" /\ c.dueDay = due /\ c.anchor = a
       /\ c.recurrence = r /\ c.installments = n
  /\ \A n : LET c == GoalRow(n) IN
       c.fixed = TRUE /\ c.potKind = "goal" /\ c.installments = n
BY DEF FlowRow, OldBillRow, BillRow, GoalRow

LEMMA PotFields ==
  ASSUME NEW c, NEW d
  PROVE  /\ PotOf(c, d).kind = IF c.potKind = "unset" THEN "bill" ELSE c.potKind
         /\ PotOf(c, d).kind = "bill" => PotOf(c, d).anchor = Anchor(c, d)
BY DEF PotOf

LEMMA ShownFields ==
  ASSUME NEW c
  PROVE  /\ ShownOf(c).kind = ShownKind(c) /\ ShownOf(c).dueDay = c.dueDay
         /\ ShownOf(c).installments = c.installments
         /\ ShownOf(c).recurrence = IF c.recurrence = "unset" THEN "monthly" ELSE c.recurrence
         /\ ShownOf(c) = [kind |-> ShownKind(c), dueDay |-> c.dueDay, installments |-> c.installments,
                          recurrence |-> ShownOf(c).recurrence]
BY DEF ShownOf

LEMMA SavedRows ==
  ASSUME NEW f
  PROVE  /\ f.kind = "bill" => SavedFor(f) = BillRow(f.recurrence, AnchorFromDueDay(f.dueDay, edited),
                                                     0, f.installments, f.dueDay)
         /\ f.kind = "goal" => SavedFor(f) = GoalRow(f.installments)
         /\ f.kind = "flow" => SavedFor(f) = FlowRow
BY DEF SavedFor

\* The editor shows what is budgeted, saves what was chosen, and changes nothing of a row whose
\* form is left untouched; for every day of the month and every day of editing.
THEOREM FormsKeepTheirMeaning == BudgetSpec => []FormKeepsItsMeaning
<1>1. ASSUME FormInv PROVE EditorAgreesWithBudget
  <2>1. CASE row = FlowRow
    BY <2>1, RowFields DEF EditorAgreesWithBudget, ShownKind, IsPot
  <2>2. CASE row # FlowRow
    <3>1. row.fixed = TRUE /\ row.potKind \in {"unset", "bill", "goal"}
      BY <1>1, <2>2, RowFields DEF FormInv
    <3> QED
      BY <3>1, PotFields DEF EditorAgreesWithBudget, ShownKind, IsPot
  <2> QED
    BY <2>1, <2>2
<1>2. ASSUME FormInv PROVE DueOnTheDayChosen
  <2> DEFINE due == PotOf(row, edited).anchor
  <2> SUFFICES ASSUME ShownKind(row) = "bill", row.dueDay # None
               PROVE  due = DayIn(MonthOf(due), row.dueDay)
    BY DEF DueOnTheDayChosen
  <2>1. row # FlowRow /\ \A n : row # GoalRow(n)
    BY RowFields DEF ShownKind
  <2>2. CASE \E x \in DueDays : row = OldBillRow(x)
    <3>1. PICK x \in DueDays : row = OldBillRow(x)
      BY <2>2
    <3>2. row.potKind = "unset" /\ row.anchor = None /\ row.dueDay = x
      BY <3>1, RowFields
    <3>3. due = AnchorFromDueDay(x, edited)
      BY <3>2, PotFields DEF Anchor
    <3> QED
      BY <1>1, <1>2, <3>2, <3>3, DueDaysAreDays DEF FormInv
  <2>3. CASE ~ \E x \in DueDays : row = OldBillRow(x)
    <3>1. PICK r \in Offered, d \in EditDays, opening \in {0, 1}, n \in {None, 1, 2},
               x \in DueDays \cup {None} :
                 row = BillRow(r, AnchorFromDueDay(x, d), opening, n, x)
      BY <1>2, <2>1, <2>3 DEF FormInv
    <3>2. row.potKind = "bill" /\ row.anchor = AnchorFromDueDay(x, d) /\ row.dueDay = x
      BY <3>1, RowFields
    <3>3. AnchorFromDueDay(x, d) # None /\ AnchorFromDueDay(x, d) = DayIn(MonthOf(AnchorFromDueDay(x, d)), x)
      BY <3>1, <3>2, DueDaysAreDays
    <3>4. due = AnchorFromDueDay(x, d)
      BY <3>2, <3>3, PotFields DEF Anchor
    <3> QED
      BY <3>2, <3>3, <3>4
  <2> QED
    BY <2>2, <2>3
<1>3. ASSUME FormInv PROVE UntouchedFormKeeps
  <2> DEFINE once == SavedFor(ShownOf(row))
             Settled == SavedFor(ShownOf(once)) = once /\ (ShownKind(row) # "bill" => once = row)
  <2>1. ASSUME NEW f, f.kind = "bill", f.recurrence \in Offered
        PROVE  LET c == SavedFor(f) IN
               /\ ShownKind(c) = "bill" /\ ShownOf(c).dueDay = f.dueDay
               /\ ShownOf(c).installments = f.installments /\ ShownOf(c).recurrence = f.recurrence
    BY <2>1, SavedRows, RowFields, ShownFields DEF ShownKind, Offered
  <2>2. ASSUME NEW f, f.kind = "goal" PROVE
          LET c == SavedFor(f) IN ShownKind(c) = "goal" /\ ShownOf(c).installments = f.installments
    BY <2>2, SavedRows, RowFields, ShownFields DEF ShownKind
  <2>3. ASSUME NEW f, f.kind = "flow" PROVE ShownKind(SavedFor(f)) = "flow"
    BY <2>3, SavedRows, RowFields DEF ShownKind
  <2>4. ShownKind(row) \in {"flow", "bill", "goal"} /\ ShownOf(row).kind = ShownKind(row)
    BY ShownFields DEF ShownKind
  <2>5. ASSUME ShownKind(row) = "bill" PROVE Settled
    <3> DEFINE f == ShownOf(row)
    <3>1. f.recurrence \in Offered
      BY <1>3, <2>5, RowFields, ShownFields DEF FormInv, ShownKind, Offered
    <3>2. f.kind = "bill"
      BY <2>4, <2>5
    <3> HIDE DEF f
    <3>3. SavedFor(ShownOf(SavedFor(f))) = SavedFor(f)
      <4>1. /\ ShownKind(SavedFor(f)) = "bill" /\ ShownOf(SavedFor(f)).dueDay = f.dueDay
            /\ ShownOf(SavedFor(f)).installments = f.installments
            /\ ShownOf(SavedFor(f)).recurrence = f.recurrence
        BY <2>1, <3>1, <3>2
      <4>2. ShownOf(SavedFor(f)).kind = "bill"
        BY <4>1, ShownFields
      <4> QED
        BY <3>2, <4>1, <4>2, SavedRows
    <3> QED
      BY <2>5, <3>3 DEF f
  <2>6. ASSUME ShownKind(row) = "goal" PROVE Settled
    <3>1. PICK n \in {None, 1, 2} : row = GoalRow(n)
      BY <1>3, <2>6, RowFields DEF FormInv, ShownKind
    <3>2. once = GoalRow(row.installments)
      BY <2>4, <2>6, SavedRows, ShownFields
    <3>3. once = row
      BY <3>1, <3>2, RowFields
    <3> QED
      BY <3>3
  <2>7. ASSUME ShownKind(row) = "flow" PROVE Settled
    <3>1. row = FlowRow
      BY <1>3, <2>7, RowFields DEF FormInv, ShownKind
    <3>2. once = FlowRow
      BY <2>4, <2>7, SavedRows
    <3> QED
      BY <3>1, <3>2
  <2>8. ASSUME NEW f \in Forms, f.kind = "bill" PROVE ShownOf(SavedFor(f)) = f
    <3>1. f = [kind |-> f.kind, dueDay |-> f.dueDay, installments |-> f.installments,
               recurrence |-> f.recurrence] /\ f.recurrence \in Offered
      BY DEF Forms
    <3>2. /\ ShownKind(SavedFor(f)) = "bill" /\ ShownOf(SavedFor(f)).dueDay = f.dueDay
          /\ ShownOf(SavedFor(f)).installments = f.installments
          /\ ShownOf(SavedFor(f)).recurrence = f.recurrence
      BY <2>1, <2>8, <3>1
    <3>3. ShownOf(SavedFor(f)) = [kind |-> "bill", dueDay |-> f.dueDay,
                                  installments |-> f.installments, recurrence |-> f.recurrence]
      BY <3>2, ShownFields
    <3> QED
      BY <2>8, <3>1, <3>3
  <2>9. \A f \in Forms :
          LET shown == ShownOf(SavedFor(f)) IN
            /\ f.kind = "bill" => shown = f
            /\ f.kind = "goal" => shown.kind = "goal" /\ shown.installments = f.installments
            /\ f.kind = "flow" => shown.kind = "flow"
    BY <2>2, <2>3, <2>8, ShownFields
  <2>10. Settled
    BY <2>4, <2>5, <2>6, <2>7
  <2> QED
    BY <2>9, <2>10 DEF UntouchedFormKeeps
<1>4. FormInv => FormKeepsItsMeaning
  BY <1>1, <1>2, <1>3 DEF FormKeepsItsMeaning
<1> QED
  BY <1>4, PlayedForm, FormHolds, PTL
=============================================================================
