--------------------------- MODULE PollTimer_proofs ---------------------------
(***************************************************************************)
(* Theorems about PollTimer: the tick that getMinTimerFrequency computes   *)
(* divides every interval, for all sets of intervals, and the wheel that   *)
(* turns by it polls and cuts off on time.                                 *)
(***************************************************************************)
EXTENDS PollTimer, TLAPS, WellFoundedInduction, FiniteSetTheorems

-----------------------------------------------------------------------------
(* Induction over the naturals, for sets *)

Less == {ss \in Nat \X Nat : ss[1] < ss[2]}

\* A set of numbers that is not empty has a least one.
LEMMA Least ==
  ASSUME NEW T \in SUBSET Nat, T # {}
  PROVE  \E x \in T : \A y \in T : x <= y
<1>1. IsWellFoundedOn(Less, Nat)
  BY NatLessThanWellFounded DEF OpToRel, Less
<1>2. PICK x \in T : \A y \in T : ~(<<y, x>> \in Less)
  BY <1>1, WFMin
<1>3. ASSUME NEW y \in T PROVE x <= y
  <2>1. x \in Nat /\ y \in Nat /\ <<y, x>> \notin Less
    BY <1>2
  <2> QED
    BY <2>1 DEF Less
<1> QED
  BY <1>3

\* A set that has 0, and each successor of what it has, has all numbers.
LEMMA Induction ==
  ASSUME NEW T, 0 \in T, \A n \in Nat : n \in T => n + 1 \in T
  PROVE  Nat \subseteq T
<1> SUFFICES ASSUME NEW k \in Nat, k \notin T PROVE FALSE
  OBVIOUS
<1>1. PICK x \in Nat \ T : \A y \in Nat \ T : x <= y
  BY Least
<1>2. x # 0 /\ x - 1 \in Nat
  BY <1>1
<1>3. x - 1 \in T
  BY <1>1, <1>2
<1> QED
  BY <1>1, <1>2, <1>3

-----------------------------------------------------------------------------
(* Multiples *)

Multiples(d) == {d * k : k \in Nat}

\* Sums, differences and remainders of multiples are multiples.
LEMMA MultiplesClosed ==
  ASSUME NEW d \in Nat, NEW a \in Multiples(d), NEW b \in Multiples(d)
  PROVE  /\ a \in Nat
         /\ a + b \in Multiples(d)
         /\ b <= a => a - b \in Multiples(d)
         /\ \A q \in Nat : a * q \in Multiples(d)
         /\ b # 0 => a % b \in Multiples(d)
<1>1. PICK j \in Nat : a = d * j
  BY DEF Multiples
<1>2. PICK k \in Nat : b = d * k
  BY DEF Multiples
<1>3. a \in Nat /\ b \in Nat
  BY <1>1, <1>2
<1>4. a + b \in Multiples(d)
  <2>1. j + k \in Nat /\ a + b = d * (j + k)
    BY <1>1, <1>2
  <2> QED
    BY <2>1 DEF Multiples
<1>5. ASSUME NEW x \in Multiples(d), NEW y \in Multiples(d), y <= x
      PROVE  x - y \in Multiples(d)
  <2>1. PICK u \in Nat : x = d * u
    BY DEF Multiples
  <2>2. PICK v \in Nat : y = d * v
    BY DEF Multiples
  <2>3. CASE v <= u
    <3>1. u - v \in Nat /\ x - y = d * (u - v)
      BY <2>1, <2>2, <2>3
    <3> QED
      BY <3>1 DEF Multiples
  <2>4. CASE u < v
    <3>1. x <= y
      <4>1. v - u \in Nat /\ y = x + d * (v - u)
        BY <2>1, <2>2, <2>4
      <4>2. d * (v - u) \in Nat
        BY <4>1
      <4> QED
        BY <2>1, <4>1, <4>2
    <3>2. x - y = d * 0
      BY <1>5, <2>1, <2>2, <3>1
    <3> QED
      BY <3>2 DEF Multiples
  <2> QED
    BY <2>3, <2>4
<1>6. ASSUME NEW q \in Nat, NEW x \in Multiples(d)
      PROVE  x * q \in Multiples(d)
  <2>1. PICK u \in Nat : x = d * u
    BY DEF Multiples
  <2>2. u * q \in Nat /\ x * q = d * (u * q)
    BY <2>1
  <2> QED
    BY <2>2 DEF Multiples
<1>7. b # 0 => a % b \in Multiples(d)
  <2> SUFFICES ASSUME b # 0 PROVE a % b \in Multiples(d)
    OBVIOUS
  <2>1. /\ a \div b \in Nat /\ a % b \in Nat
        /\ a = b * (a \div b) + (a % b)
    BY <1>3
  <2>2. b * (a \div b) \in Multiples(d)
    BY <1>6, <2>1
  <2>3. b * (a \div b) \in Nat /\ b * (a \div b) <= a /\ a % b = a - b * (a \div b)
    BY <1>3, <2>1
  <2> QED
    BY <1>5, <2>2, <2>3
<1> QED
  BY <1>3, <1>4, <1>5, <1>6, <1>7

\* One multiple is at least d away from the next.
LEMMA MultiplesGap ==
  ASSUME NEW d \in Nat, NEW a \in Multiples(d), NEW b \in Multiples(d), a < b
  PROVE  a + d <= b
<1>1. PICK j \in Nat : a = d * j
  BY DEF Multiples
<1>2. PICK k \in Nat : b = d * k
  BY DEF Multiples
<1>3. j < k
  <2>1. SUFFICES ASSUME k <= j PROVE b <= a
    BY <1>1, <1>2
  <2>2. j - k \in Nat /\ a = b + d * (j - k)
    BY <1>1, <1>2, <2>1
  <2>3. d * (j - k) \in Nat
    BY <2>2
  <2> QED
    BY <1>2, <2>2, <2>3
<1>4. k - (j + 1) \in Nat /\ b = a + d + d * (k - (j + 1))
  BY <1>1, <1>2, <1>3
<1>5. d * (k - (j + 1)) \in Nat
  BY <1>4
<1> QED
  BY <1>1, <1>4, <1>5

\* A divisor of a divisor is a divisor.
LEMMA MultiplesTransitive ==
  ASSUME NEW d \in Nat, NEW a \in Multiples(d), NEW b \in Multiples(a)
  PROVE  b \in Multiples(d)
  BY MultiplesClosed DEF Multiples

\* A divisor is not larger than what it divides.
LEMMA DivisorBound ==
  ASSUME NEW d \in Nat, NEW a \in Multiples(d), a # 0
  PROVE  d <= a /\ d # 0
<1>1. 0 \in Multiples(d)
  <2>1. 0 = d * 0
    OBVIOUS
  <2> QED
    BY <2>1 DEF Multiples
<1>2. a \in Nat
  BY MultiplesClosed
<1>3. d <= a
  BY <1>1, <1>2, MultiplesGap
<1>4. d # 0
  BY <1>2 DEF Multiples
<1> QED
  BY <1>3, <1>4

\* Every number divides itself and zero.
LEMMA SelfMultiple ==
  ASSUME NEW d \in Nat
  PROVE  d \in Multiples(d) /\ 0 \in Multiples(d)
<1>1. d = d * 1 /\ 0 = d * 0
  OBVIOUS
<1> QED
  BY <1>1 DEF Multiples

-----------------------------------------------------------------------------
(* The greatest common divisor *)

\* A number that is in a set and not exceeded there is its greatest.
LEMMA MaxIs ==
  ASSUME NEW S \in SUBSET Nat, NEW x \in S, \A y \in S : y <= x
  PROVE  Max(S) = x
<1>1. \E z \in S : \A y \in S : z >= y
  OBVIOUS
<1>2. Max(S) \in S /\ \A y \in S : Max(S) >= y
  BY <1>1 DEF Max
<1>3. Max(S) \in Nat /\ Max(S) >= x /\ Max(S) <= x /\ x \in Nat
  BY <1>2
<1> QED
  BY <1>3

CommonDivisors(m, n) == {d \in Nat \ {0} : m \in Multiples(d) /\ n \in Multiples(d)}

\* The step of the algorithm keeps the common divisors.
LEMMA SameDivisors ==
  ASSUME NEW m \in Nat, m # 0, NEW n \in Nat
  PROVE  CommonDivisors(m, n) = CommonDivisors(n % m, m)
<1>1. n \div m \in Nat /\ n % m \in Nat /\ n = m * (n \div m) + (n % m)
  OBVIOUS
<1>2. ASSUME NEW d \in Nat, m \in Multiples(d), n \in Multiples(d)
      PROVE  n % m \in Multiples(d)
  BY <1>2, MultiplesClosed
<1>3. ASSUME NEW d \in Nat, m \in Multiples(d), n % m \in Multiples(d)
      PROVE  n \in Multiples(d)
  <2>1. m * (n \div m) \in Multiples(d)
    BY <1>1, <1>3, MultiplesClosed
  <2> QED
    BY <1>1, <1>3, <2>1, MultiplesClosed
<1> QED
  BY <1>2, <1>3 DEF CommonDivisors

\* The recursive function gcd exists: there is one that satisfies its equation.
LEMMA GcdEquation ==
  gcd = [m \in Nat |-> [n \in Nat |-> IF m = 0 THEN n ELSE gcd[n % m][m]]]
<1> DEFINE greatest == [m \in Nat |-> [n \in Nat |-> IF m = 0 THEN n ELSE Max(CommonDivisors(m, n))]]
<1>1. ASSUME NEW m \in Nat, NEW n \in Nat, m # 0
      PROVE  Max(CommonDivisors(m, n)) = greatest[n % m][m]
  <2>1. n \div m \in Nat /\ n % m \in Nat /\ n = m * (n \div m) + (n % m)
    BY <1>1
  <2>2. CASE n % m = 0
    <3>1. m \in CommonDivisors(m, n)
      BY <1>1, <2>1, <2>2, SelfMultiple DEF CommonDivisors, Multiples
    <3>2. \A y \in CommonDivisors(m, n) : y <= m
      BY <1>1, DivisorBound DEF CommonDivisors
    <3>3. CommonDivisors(m, n) \in SUBSET Nat
      BY DEF CommonDivisors
    <3>4. Max(CommonDivisors(m, n)) = m
      BY <3>1, <3>2, <3>3, MaxIs
    <3> HIDE DEF CommonDivisors
    <3> QED
      BY <2>2, <3>4
  <2>3. CASE n % m # 0
    <3>1. greatest[n % m][m] = Max(CommonDivisors(n % m, m))
      BY <1>1, <2>1, <2>3
    <3> QED
      BY <1>1, <3>1, SameDivisors
  <2> QED
    BY <2>2, <2>3
<1>2. greatest = [m \in Nat |-> [n \in Nat |-> IF m = 0 THEN n ELSE greatest[n % m][m]]]
  <2>1. \A m \in Nat : [n \in Nat |-> IF m = 0 THEN n ELSE Max(CommonDivisors(m, n))]
                       = [n \in Nat |-> IF m = 0 THEN n ELSE greatest[n % m][m]]
    BY <1>1
  <2> QED
    BY <2>1, Zenon
<1> HIDE DEF greatest
<1>3. \E g : g = [m \in Nat |-> [n \in Nat |-> IF m = 0 THEN n ELSE g[n % m][m]]]
  BY <1>2
<1> QED
  BY <1>3, Zenon DEF gcd

\* gcd is a common divisor.
LEMMA GcdDivides ==
  ASSUME NEW m \in Nat, NEW n \in Nat
  PROVE  /\ gcd[m][n] \in Nat
         /\ m \in Multiples(gcd[m][n]) /\ n \in Multiples(gcd[m][n])
         /\ m # 0 \/ n # 0 => gcd[m][n] # 0
<1> DEFINE Good(a, b) == /\ gcd[a][b] \in Nat
                         /\ a \in Multiples(gcd[a][b]) /\ b \in Multiples(gcd[a][b])
           Bad == {a \in Nat : \E b \in Nat : ~Good(a, b)}
<1>1. Good(m, n)
  <2> SUFFICES ASSUME Bad # {} PROVE FALSE
    OBVIOUS
  <2>1. PICK a \in Bad : \A c \in Bad : a <= c
    <3>1. Bad \in SUBSET Nat
      OBVIOUS
    <3> HIDE DEF Bad
    <3> QED
      BY <3>1, Least
  <2>2. PICK b \in Nat : ~Good(a, b)
    OBVIOUS
  <2>3. a \in Nat /\ gcd[a][b] = IF a = 0 THEN b ELSE gcd[b % a][a]
    <3>1. a \in Nat
      OBVIOUS
    <3> QED
      BY <3>1, GcdEquation
  <2>4. CASE a = 0
    <3>1. gcd[a][b] = b
      BY <2>3, <2>4
    <3> QED
      BY <2>2, <2>4, <3>1, SelfMultiple
  <2>5. CASE a # 0
    <3>1. b % a \in Nat /\ b % a < a
      BY <2>3, <2>5
    <3>2. Good(b % a, a)
      BY <2>1, <2>3, <3>1
    <3> DEFINE g == gcd[b % a][a]
    <3>3. g \in Nat /\ b % a \in Multiples(g) /\ a \in Multiples(g)
      BY <3>2
    <3>4. b \in Multiples(g)
      <4>1. b \div a \in Nat /\ b = a * (b \div a) + (b % a)
        BY <2>3, <2>5
      <4>2. a * (b \div a) \in Multiples(g)
        BY <3>3, <4>1, MultiplesClosed
      <4> HIDE DEF g
      <4> QED
        BY <3>3, <4>1, <4>2, MultiplesClosed
    <3>5. gcd[a][b] = g
      BY <2>3, <2>5
    <3> HIDE DEF g
    <3> QED
      BY <2>2, <3>3, <3>4, <3>5
  <2> QED
    BY <2>4, <2>5
<1> DEFINE g == gcd[m][n]
<1>2. g \in Nat /\ m \in Multiples(g) /\ n \in Multiples(g)
  BY <1>1
<1> HIDE DEF g
<1>3. m # 0 \/ n # 0 => g # 0
  BY <1>2, DivisorBound
<1> QED
  BY <1>2, <1>3 DEF g

-----------------------------------------------------------------------------
(* getMinTimerFrequency *)

\* One round of its loop, for the intervals s, when f has what the rounds before gave.
Round(f, s, pct) ==
  IF s = {} THEN 0
  ELSE LET i == CHOOSE x \in s : TRUE IN gcd[CutoffOf(i, pct)][gcd[i][f[s \ {i}]]]

\* The fold has a value: there is a function that satisfies its equation.
LEMMA RoundsExist ==
  ASSUME NEW S, IsFiniteSet(S), NEW pct
  PROVE  \E f : f = [s \in SUBSET S |-> Round(f, s, pct)]
<1> DEFINE Upto(n) == {s \in SUBSET S : Cardinality(s) <= n}
           T == {n \in Nat : \E f : f = [s \in Upto(n) |-> Round(f, s, pct)]}
<1>1. \A s \in SUBSET S : IsFiniteSet(s) /\ Cardinality(s) \in Nat
  BY FS_Subset, FS_CardinalityType
<1>2. 0 \in T
  <2>1. \A s \in Upto(0) : s = {}
    <3>1. \A s \in Upto(0) : IsFiniteSet(s) /\ Cardinality(s) = 0
      BY <1>1
    <3> QED
      BY <3>1, FS_EmptySet
  <2> DEFINE f == [s \in Upto(0) |-> 0]
  <2>2. f = [s \in Upto(0) |-> Round(f, s, pct)]
    BY <2>1 DEF Round
  <2> HIDE DEF f, Upto
  <2> QED
    BY <2>2
<1>3. ASSUME NEW n \in Nat, n \in T
      PROVE  n + 1 \in T
  <2>1. PICK f : f = [s \in Upto(n) |-> Round(f, s, pct)]
    BY <1>3
  <2> DEFINE g == [s \in Upto(n + 1) |-> Round(f, s, pct)]
  <2>2. ASSUME NEW s \in Upto(n + 1)
        PROVE  Round(f, s, pct) = Round(g, s, pct)
    <3>1. CASE s = {}
      BY <3>1 DEF Round
    <3>2. CASE s # {}
      <4> DEFINE i == CHOOSE x \in s : TRUE
      <4>1. i \in s
        BY <3>2
      <4>2. s \ {i} \in Upto(n) /\ s \ {i} \in Upto(n + 1)
        <5> HIDE DEF i
        <5>1. Cardinality(s \ {i}) = Cardinality(s) - 1 /\ Cardinality(s) \in Nat
          BY <1>1, <4>1, FS_RemoveElement
        <5>2. Cardinality(s) <= n + 1 /\ s \ {i} \in SUBSET S
          OBVIOUS
        <5> QED
          BY <1>3, <5>1, <5>2
      <4>3. f[s \ {i}] = g[s \ {i}]
        <5> HIDE DEF i, Upto
        <5>1. f[s \ {i}] = Round(f, s \ {i}, pct)
          BY <2>1, <4>2
        <5>2. g[s \ {i}] = Round(f, s \ {i}, pct)
          BY <4>2
        <5> QED
          BY <5>1, <5>2
      <4> HIDE DEF Upto, g
      <4> QED
        BY <3>2, <4>3 DEF Round
    <3> QED
      BY <3>1, <3>2
  <2>3. g = [s \in Upto(n + 1) |-> Round(g, s, pct)]
    <3> HIDE DEF Upto
    <3> QED
      BY <2>2, Zenon
  <2> HIDE DEF g, Upto
  <2> QED
    BY <1>3, <2>3
<1>4. Cardinality(S) \in T
  <2> HIDE DEF T
  <2> QED
    BY <1>2, <1>3, Induction, FS_CardinalityType
<1>5. Upto(Cardinality(S)) = SUBSET S
  BY FS_Subset, FS_CardinalityType
<1> HIDE DEF Upto
<1> QED
  BY <1>4, <1>5

\* A cutoff comes between two polls.
LEMMA CutoffBetween ==
  ASSUME NEW i \in Nat \ {0, 1}, NEW pct \in 0..99
  PROVE  CutoffOf(i, pct) \in Nat /\ CutoffOf(i, pct) > 0 /\ CutoffOf(i, pct) < i
<1> DEFINE p == i * pct
<1>1. p \in Nat /\ p <= i * 99
  <2>1. 99 - pct \in Nat /\ i * 99 = p + i * (99 - pct)
    OBVIOUS
  <2>2. i * (99 - pct) \in Nat /\ p \in Nat
    BY <2>1
  <2> QED
    BY <2>1, <2>2
<1> HIDE DEF p
<1>2. p \div 100 \in Nat /\ p \div 100 < i
  BY <1>1
<1>3. (i * 9) \div 10 \in Nat /\ (i * 9) \div 10 > 0 /\ (i * 9) \div 10 < i
  OBVIOUS
<1> QED
  BY <1>2, <1>3 DEF CutoffOf, p

\* The tick divides every interval and every cutoff: checkTimer never steps
\* over a counter value.
LEMMA TickDivides ==
  ASSUME NEW S \in SUBSET (Nat \ {0, 1}), IsFiniteSet(S), S # {}, NEW pct \in 0..99
  PROVE  /\ MinTimerFrequency(S, pct) \in Nat \ {0}
         /\ \A i \in S : /\ i \in Multiples(MinTimerFrequency(S, pct))
                         /\ CutoffOf(i, pct) \in Multiples(MinTimerFrequency(S, pct))
<1> DEFINE f == CHOOSE it : it = [s \in SUBSET S |-> Round(it, s, pct)]
<1>1. MinTimerFrequency(S, pct) = f[S]
  BY Zenon DEF MinTimerFrequency, FoldSet, MapThenFoldSet, Round
<1>2. f = [s \in SUBSET S |-> Round(f, s, pct)]
  <2>1. \E it : it = [s \in SUBSET S |-> Round(it, s, pct)]
    BY RoundsExist
  <2> QED
    BY <2>1, Zenon
<1> HIDE DEF f
<1> DEFINE Good(s) == /\ f[s] \in Nat /\ (s # {} => f[s] # 0)
                      /\ \A i \in s : i \in Multiples(f[s]) /\ CutoffOf(i, pct) \in Multiples(f[s])
           T == {n \in Nat : \A s \in SUBSET S : Cardinality(s) = n => Good(s)}
<1>3. \A s \in SUBSET S : IsFiniteSet(s) /\ Cardinality(s) \in Nat
  BY FS_Subset, FS_CardinalityType
<1>4. Good({})
  <2>1. f[{}] = 0
    BY <1>2 DEF Round
  <2> QED
    BY <2>1
<1>5. 0 \in T
  <2>1. \A s \in SUBSET S : Cardinality(s) = 0 => s = {}
    BY <1>3, FS_EmptySet
  <2> HIDE DEF Good
  <2> QED
    BY <1>4, <2>1
<1>6. ASSUME NEW n \in Nat, n \in T
      PROVE  n + 1 \in T
  <2> SUFFICES ASSUME NEW s \in SUBSET S, Cardinality(s) = n + 1 PROVE Good(s)
    BY <1>6
  <2>1. s # {}
    <3>1. n + 1 # 0 /\ Cardinality({}) = 0
      BY <1>6, FS_EmptySet
    <3> QED
      BY <3>1
  <2> DEFINE i == CHOOSE x \in s : TRUE
  <2>2. i \in s
    BY <2>1
  <2>3. f[s] = gcd[CutoffOf(i, pct)][gcd[i][f[s \ {i}]]]
    BY <1>2, <2>1, Zenon DEF Round
  <2> HIDE DEF i
  <2>4. Good(s \ {i})
    <3>1. Cardinality(s \ {i}) = n
      BY <1>3, <1>6, <2>2, FS_RemoveElement
    <3>2. s \ {i} \in SUBSET S
      OBVIOUS
    <3> HIDE DEF Good
    <3> QED
      BY <1>6, <3>1, <3>2
  <2> DEFINE r == f[s \ {i}]
             h == gcd[i][r]
             c == CutoffOf(i, pct)
  <2>5. i \in Nat \ {0, 1} /\ c \in Nat /\ c > 0 /\ r \in Nat
    BY <2>2, <2>4, CutoffBetween
  <2>6. h \in Nat /\ i \in Multiples(h) /\ r \in Multiples(h)
    <3> HIDE DEF r
    <3> QED
      BY <2>5, GcdDivides
  <2>7. f[s] \in Nat /\ c \in Multiples(f[s]) /\ h \in Multiples(f[s]) /\ f[s] # 0
    <3> HIDE DEF r, h, c
    <3>1. f[s] = gcd[c][h]
      BY <2>3 DEF r, h, c
    <3> QED
      BY <2>5, <2>6, <3>1, GcdDivides
  <2>8. i \in Multiples(f[s]) /\ r \in Multiples(f[s])
    <3> HIDE DEF r, h, c
    <3> QED
      BY <2>6, <2>7, MultiplesTransitive
  <2>9. ASSUME NEW j \in s, j # i
        PROVE  j \in Multiples(f[s]) /\ CutoffOf(j, pct) \in Multiples(f[s])
    <3>1. j \in Multiples(r) /\ CutoffOf(j, pct) \in Multiples(r)
      BY <2>4, <2>9
    <3> HIDE DEF r
    <3> QED
      BY <2>7, <2>8, <3>1, MultiplesTransitive
  <2> QED
    BY <2>7, <2>8, <2>9
<1>7. Good(S)
  <2> HIDE DEF Good
  <2>1. Cardinality(S) \in T
    <3> HIDE DEF T
    <3> QED
      BY <1>5, <1>6, Induction, FS_CardinalityType
  <2> QED
    BY <2>1
<1> QED
  BY <1>1, <1>7

\* A finite set of numbers has a greatest one.
LEMMA MaxExists ==
  ASSUME NEW S \in SUBSET Nat, IsFiniteSet(S), S # {}
  PROVE  Max(S) \in S /\ \A y \in S : y <= Max(S)
<1> DEFINE Has(s) == \E x \in s : \A y \in s : y <= x
           T == {n \in Nat : \A s \in SUBSET S : Cardinality(s) = n /\ s # {} => Has(s)}
<1>1. \A s \in SUBSET S : IsFiniteSet(s) /\ Cardinality(s) \in Nat
  BY FS_Subset, FS_CardinalityType
<1>2. 0 \in T
  BY <1>1, FS_EmptySet
<1>3. ASSUME NEW n \in Nat, n \in T
      PROVE  n + 1 \in T
  <2> SUFFICES ASSUME NEW s \in SUBSET S, Cardinality(s) = n + 1, s # {} PROVE Has(s)
    BY <1>3
  <2>1. PICK z \in s : TRUE
    OBVIOUS
  <2>2. CASE s \ {z} = {}
    <3>1. \A y \in s : y = z
      BY <2>2
    <3> QED
      BY <2>1, <3>1
  <2>3. CASE s \ {z} # {}
    <3>1. Cardinality(s \ {z}) = n /\ s \ {z} \in SUBSET S
      <4>1. IsFiniteSet(s) /\ n \in Nat
        BY <1>1, <1>3
      <4>2. Cardinality(s \ {z}) = Cardinality(s) - 1
        BY <2>1, <4>1, FS_RemoveElement
      <4> QED
        BY <4>1, <4>2
    <3>2. Has(s \ {z})
      <4> HIDE DEF Has
      <4> QED
        BY <1>3, <2>3, <3>1
    <3>3. PICK x \in s \ {z} : \A y \in s \ {z} : y <= x
      BY <3>2
    <3>4. x \in Nat /\ z \in Nat /\ \A y \in s : y \in Nat
      BY <2>1
    <3>5. CASE z <= x
      BY <3>3, <3>4, <3>5
    <3>6. CASE x <= z
      BY <2>1, <3>3, <3>4, <3>6
    <3> QED
      BY <3>4, <3>5, <3>6
  <2> QED
    BY <2>2, <2>3
<1>4. Has(S)
  <2>1. Cardinality(S) \in T
    <3> HIDE DEF T
    <3> QED
      BY <1>2, <1>3, Induction, FS_CardinalityType
  <2> HIDE DEF Has
  <2> QED
    BY <2>1
<1>5. PICK x \in S : \A y \in S : y <= x
  BY <1>4
<1> QED
  BY <1>5, MaxIs

-----------------------------------------------------------------------------
(* The wheel *)

\* How far the counter c is from p, on a wheel of M; M is where 0 is.
Ahead(c, p, M) == IF p > c THEN p - c ELSE p - c + M
\* The place that is k ahead of c.
Place(c, k, M) == IF c = M /\ k = M THEN M ELSE IF c + k > M THEN (c + k) % M ELSE c + k

\* A tick brings every place closer by d, and passes none.
LEMMA WheelTurns ==
  ASSUME NEW d \in Nat \ {0}, NEW M \in Multiples(d), NEW a \in Multiples(d), a < M,
         NEW p \in Multiples(d), p \in 1..M
  PROVE  LET c == a + d
             b == IF c = M THEN 0 ELSE c
         IN /\ c \in 1..M /\ b < M /\ b \in Multiples(d)
            /\ Ahead(a, p, M) \in Nat /\ d <= Ahead(a, p, M)
            /\ p = c <=> Ahead(a, p, M) = d
            /\ p # c => Ahead(b, p, M) = Ahead(a, p, M) - d
<1>1. a \in Nat /\ M \in Nat /\ p \in Nat /\ d \in Nat /\ d > 0
  BY MultiplesClosed
<1>2. a + d <= M /\ (p > a => a + d <= p) /\ d <= p
  <2>1. 0 \in Multiples(d)
    BY SelfMultiple
  <2>2. d <= p
    BY <1>1, DivisorBound
  <2> QED
    BY <1>1, <2>2, MultiplesGap
<1>3. a + d = M => p <= a \/ p = M
  BY <1>1, <1>2
<1>4. a + d \in Multiples(d) /\ 0 \in Multiples(d)
  BY SelfMultiple, MultiplesClosed
<1> QED
  BY <1>1, <1>2, <1>3, <1>4 DEF Ahead

\* What is put k ahead of the counter is there.
LEMMA PlaceAhead ==
  ASSUME NEW d \in Nat \ {0}, NEW M \in Multiples(d), NEW c \in Multiples(d), c \in 1..M,
         NEW k \in Multiples(d), k \in 1..M
  PROVE  /\ Place(c, k, M) \in 1..M /\ Place(c, k, M) \in Multiples(d)
         /\ Ahead(IF c = M THEN 0 ELSE c, Place(c, k, M), M) = k
<1>1. c \in Nat /\ k \in Nat /\ M \in Nat /\ M > 0
  BY MultiplesClosed
<1>2. c + k \in Multiples(d)
  BY MultiplesClosed
<1>3. c + k > M /\ ~(c = M /\ k = M) => (c + k) % M = c + k - M /\ c + k - M > 0 /\ c + k - M < M
  BY <1>1
<1>4. Place(c, k, M) \in Multiples(d)
  <2>1. \A x \in Multiples(d) : x % M \in Multiples(d)
    BY <1>1, MultiplesClosed
  <2> QED
    BY <1>2, <2>1 DEF Place
<1>5. CASE c = M /\ k = M
  BY <1>1, <1>4, <1>5 DEF Place, Ahead
<1>6. CASE c + k > M /\ ~(c = M /\ k = M)
  <2>1. Place(c, k, M) = c + k - M
    BY <1>3, <1>6 DEF Place
  <2> QED
    BY <1>1, <1>3, <1>4, <1>6, <2>1 DEF Ahead
<1>7. CASE c + k <= M
  <2>1. Place(c, k, M) = c + k
    BY <1>1, <1>7 DEF Place
  <2> QED
    BY <1>1, <1>4, <1>7, <2>1 DEF Ahead
<1> QED
  BY <1>1, <1>5, <1>6, <1>7

-----------------------------------------------------------------------------
(* The types *)

Entry == [at : 1..maxCounter, interval : intervals, polling : BOOLEAN]

\* The tick fits all intervals and cutoffs, and the wheel.
Fits ==
  /\ intervals \in Configs /\ percent \in Percents /\ tick \in Nat \ {0}
  /\ tick = MinTimerFrequency(intervals, percent)
  /\ \A i \in intervals :
       /\ i \in Nat /\ i \in Multiples(tick) /\ i <= maxCounter
       /\ Cutoff(i) \in Multiples(tick) /\ Cutoff(i) > 0 /\ Cutoff(i) < i
  /\ maxCounter \in intervals
  /\ counter \in Multiples(tick) /\ counter < maxCounter

TInv == Fits /\ tracker \subseteq Entry /\ fired \subseteq Entry
             /\ since \in [intervals -> Nat] /\ polled \subseteq intervals

\* The wheel has a length.
LEMMA FitsLength ==
  ASSUME Fits
  PROVE  maxCounter \in Nat \ {0} /\ maxCounter \in Multiples(tick) /\ \A i \in intervals : i \in 1..maxCounter
<1>1. \A i \in intervals : Cutoff(i) \in Nat
  BY MultiplesClosed DEF Fits
<1>2. \A i \in intervals : i \in Nat /\ i > 0
  BY <1>1 DEF Fits
<1> QED
  BY <1>2 DEF Fits

\* The wheel starts fitting: what getMinTimerFrequency computes divides all.
LEMMA InitTInv == Init => TInv
<1> SUFFICES ASSUME Init PROVE TInv
  OBVIOUS
<1>1. /\ intervals \in SUBSET (Nat \ {0, 1}) /\ IsFiniteSet(intervals) /\ intervals # {}
      /\ percent \in 0..99
  BY ConfigAssumption DEF Init
<1>2. /\ tick \in Nat \ {0}
      /\ \A i \in intervals : i \in Multiples(tick) /\ Cutoff(i) \in Multiples(tick)
  BY <1>1, TickDivides DEF Init, Cutoff
<1>3. /\ maxCounter \in intervals
      /\ \A i \in intervals : i <= maxCounter
  BY <1>1, MaxExists DEF Init
<1>4. \A i \in intervals : Cutoff(i) > 0 /\ Cutoff(i) < i
  BY <1>1, CutoffBetween DEF Cutoff
<1>5. counter \in Multiples(tick) /\ counter < maxCounter
  BY <1>1, <1>2, <1>3, SelfMultiple DEF Init
<1>6. Fits
  BY <1>1, <1>2, <1>3, <1>4, <1>5 DEF Fits, Init
<1>7. tracker \subseteq Entry
  <2>1. \A i \in intervals : i \in 1..maxCounter
    BY <1>1, <1>3
  <2>2. \A i \in intervals : Poll(i, i) \in Entry
    BY <2>1 DEF Entry, Poll
  <2>3. tracker = {Poll(i, i) : i \in intervals}
    BY DEF Init
  <2> QED
    BY <2>2, <2>3
<1> QED
  BY <1>6, <1>7 DEF TInv, Init

\* Where the entries go that CheckTimer adds.
LEMMA NextPlaces ==
  ASSUME Fits, NEW c, c = counter + tick, NEW i \in intervals
  PROVE  /\ c \in 1..maxCounter /\ c \in Multiples(tick)
         /\ NextPolling(i, c) = Place(c, i, maxCounter)
         /\ NextCutoff(i, c) = Place(c, Cutoff(i), maxCounter)
         /\ NextPolling(i, c) \in 1..maxCounter /\ NextPolling(i, c) \in Multiples(tick)
         /\ NextCutoff(i, c) \in 1..maxCounter /\ NextCutoff(i, c) \in Multiples(tick)
<1>1. /\ tick \in Nat \ {0} /\ maxCounter \in Multiples(tick) /\ maxCounter \in Nat
      /\ counter \in Multiples(tick) /\ counter < maxCounter
      /\ i \in Multiples(tick) /\ i \in 1..maxCounter
      /\ Cutoff(i) \in Multiples(tick) /\ Cutoff(i) \in 1..maxCounter /\ Cutoff(i) # maxCounter
  <2>1. Cutoff(i) \in Nat
    BY MultiplesClosed DEF Fits
  <2>2. i \in Nat /\ maxCounter \in Nat /\ i <= maxCounter /\ Cutoff(i) > 0 /\ Cutoff(i) < i
    BY DEF Fits
  <2>3. i \in 1..maxCounter /\ Cutoff(i) \in 1..maxCounter /\ Cutoff(i) # maxCounter
    BY ONLY <2>1, <2>2
  <2> QED
    BY <2>3 DEF Fits
<1>2. c \in 1..maxCounter
  BY <1>1, WheelTurns
<1>3. c \in Multiples(tick)
  BY <1>1, SelfMultiple, MultiplesClosed
<1>4. /\ NextPolling(i, c) = Place(c, i, maxCounter)
      /\ NextCutoff(i, c) = Place(c, Cutoff(i), maxCounter)
  BY <1>1 DEF NextPolling, NextCutoff, Place
<1> QED
  BY <1>1, <1>2, <1>3, <1>4, PlaceAhead

\* A round of the timer thread leaves the tick fitting.
LEMMA TickFits ==
  ASSUME Fits, Tick
  PROVE  Fits'
<1>1. UNCHANGED <<intervals, percent, tick, maxCounter>>
  BY DEF Tick, CheckTimer, config
<1>2. counter' \in Multiples(tick) /\ counter' < maxCounter
  <2>1. maxCounter \in Multiples(tick) /\ maxCounter \in 1..maxCounter
    BY FitsLength DEF Fits
  <2>2. counter' = IF counter + tick = maxCounter THEN 0 ELSE counter + tick
    BY DEF Tick
  <2> QED
    BY <2>1, <2>2, WheelTurns DEF Fits
<1>3. \A i : Cutoff(i)' = Cutoff(i)
  BY <1>1 DEF Cutoff
<1> QED
  BY <1>1, <1>2, <1>3 DEF Fits

\* ... and every entry on the wheel.
LEMMA NextTInv == TInv /\ [Next]_vars => TInv'
<1> SUFFICES ASSUME TInv, [Next]_vars PROVE TInv'
  OBVIOUS
<1>1. CASE UNCHANGED vars
  BY <1>1 DEF TInv, Fits, Entry, Cutoff, vars, config
<1>2. CASE Tick
  <2> DEFINE c == counter + tick
  <2>1. Fits' /\ UNCHANGED <<intervals, maxCounter>>
    BY <1>2, TickFits DEF TInv, Tick, CheckTimer, config
  <2>2. Entry' = Entry
    BY <2>1 DEF Entry
  <2>3. CheckTimer(c)
    BY <1>2 DEF Tick
  <2>4. DuePolls(c) \subseteq intervals
    BY DEF DuePolls, Due, TInv, Entry
  <2>5. tracker' \subseteq Entry
    <3> HIDE DEF c
    <3>1. \A i \in DuePolls(c) : Poll(i, NextPolling(i, c)) \in Entry /\ CutoffAt(i, NextCutoff(i, c)) \in Entry
      BY <2>4, NextPlaces DEF TInv, Poll, CutoffAt, Entry, c
    <3> QED
      BY <2>3, <3>1 DEF CheckTimer, Due, TInv
  <2>6. fired' \subseteq Entry
    BY <2>3 DEF CheckTimer, Due, TInv
  <2>7. since' \in [intervals -> Nat]
    <3>1. TickSleep \in Nat
      BY DEF TickSleep, UnitsPerMs, UnitsInWord, TInv, Fits
    <3> QED
      BY <2>3, <3>1 DEF CheckTimer, TInv
  <2>8. polled' \subseteq intervals
    BY <2>3, <2>4 DEF CheckTimer, TInv
  <2> QED
    BY <2>1, <2>2, <2>5, <2>6, <2>7, <2>8 DEF TInv
<1> QED
  BY <1>1, <1>2 DEF Next

\* For every set of intervals and every percentage: the counter hits the longest
\* interval exactly and starts again there, and no entry is put where the
\* counter never comes.
THEOREM TypeCorrect == Spec => []TypeOK
<1>1. TInv => TypeOK
  <2> SUFFICES ASSUME TInv PROVE TypeOK
    OBVIOUS
  <2>1. maxCounter \in Nat \ {0} /\ counter \in 0..(maxCounter - 1)
    <3>1. counter \in Nat /\ counter < maxCounter
      BY MultiplesClosed DEF TInv, Fits
    <3> QED
      BY <3>1, FitsLength DEF TInv
  <2> QED
    BY <2>1 DEF TInv, Fits, Entry, TypeOK
<1> QED
  BY <1>1, InitTInv, NextTInv, PTL DEF Spec

-----------------------------------------------------------------------------
(* The entries of an interval *)

PollsOf(i)   == {e \in tracker : e.interval = i /\ e.polling}
CutoffsOf(i) == {e \in tracker : e.interval = i /\ ~e.polling}

\* The counter that a round of the timer thread serves.
Now == counter + tick

\* What is due at a counter value, by the entries of an interval.
LEMMA DueOf ==
  ASSUME TInv, NEW i \in intervals, NEW c
  PROVE  /\ i \in DuePolls(c) <=> \E e \in PollsOf(i) : e.at = c
         /\ (\E e \in Due(c) : e.interval = i /\ e.polling) <=> \E e \in PollsOf(i) : e.at = c
         /\ (\E e \in Due(c) : e.interval = i /\ ~e.polling) <=> \E e \in CutoffsOf(i) : e.at = c
  BY DEF DuePolls, Due, PollsOf, CutoffsOf

\* What a round does to the entries of an interval.
LEMMA EntriesNext ==
  ASSUME TInv, NEW c, CheckTimer(c), NEW i \in intervals
  PROVE  /\ PollsOf(i)' = {e \in PollsOf(i) : e.at # c}
                           \cup (IF i \in DuePolls(c) THEN {Poll(i, NextPolling(i, c))} ELSE {})
         /\ CutoffsOf(i)' = {e \in CutoffsOf(i) : e.at # c}
                             \cup (IF i \in DuePolls(c) THEN {CutoffAt(i, NextCutoff(i, c))} ELSE {})
         /\ since'[i] = IF i \in DuePolls(c) THEN 0 ELSE since[i] + TickSleep
         /\ i \in polled' <=> i \in polled \/ i \in DuePolls(c)
<1> DEFINE P == {Poll(j, NextPolling(j, c)) : j \in DuePolls(c)}
           C == {CutoffAt(j, NextCutoff(j, c)) : j \in DuePolls(c)}
<1>1. tracker' = (tracker \ Due(c)) \cup P \cup C
  BY DEF CheckTimer
<1>2. {e \in P : e.interval = i /\ e.polling}
        = IF i \in DuePolls(c) THEN {Poll(i, NextPolling(i, c))} ELSE {}
  BY DEF Poll
<1>3. {e \in P : e.interval = i /\ ~e.polling} = {}
  BY DEF Poll
<1>4. {e \in C : e.interval = i /\ ~e.polling}
        = IF i \in DuePolls(c) THEN {CutoffAt(i, NextCutoff(i, c))} ELSE {}
  BY DEF CutoffAt
<1>5. {e \in C : e.interval = i /\ e.polling} = {}
  BY DEF CutoffAt
<1> HIDE DEF P, C
<1>6. /\ {e \in tracker \ Due(c) : e.interval = i /\ e.polling} = {e \in PollsOf(i) : e.at # c}
      /\ {e \in tracker \ Due(c) : e.interval = i /\ ~e.polling} = {e \in CutoffsOf(i) : e.at # c}
  BY DEF PollsOf, CutoffsOf, Due
<1>7. PollsOf(i)' = {e \in PollsOf(i) : e.at # c}
                      \cup (IF i \in DuePolls(c) THEN {Poll(i, NextPolling(i, c))} ELSE {})
  <2>1. PollsOf(i)' = {e \in tracker \ Due(c) : e.interval = i /\ e.polling}
                        \cup {e \in P : e.interval = i /\ e.polling} \cup {e \in C : e.interval = i /\ e.polling}
    BY <1>1, Zenon DEF PollsOf
  <2> QED
    BY <1>2, <1>5, <1>6, <2>1
<1>8. CutoffsOf(i)' = {e \in CutoffsOf(i) : e.at # c}
                        \cup (IF i \in DuePolls(c) THEN {CutoffAt(i, NextCutoff(i, c))} ELSE {})
  <2>1. CutoffsOf(i)' = {e \in tracker \ Due(c) : e.interval = i /\ ~e.polling}
                          \cup {e \in P : e.interval = i /\ ~e.polling} \cup {e \in C : e.interval = i /\ ~e.polling}
    BY <1>1, Zenon DEF CutoffsOf
  <2> QED
    BY <1>3, <1>4, <1>6, <2>1
<1>9. /\ since'[i] = IF i \in DuePolls(c) THEN 0 ELSE since[i] + TickSleep
      /\ i \in polled' <=> i \in polled \/ i \in DuePolls(c)
  BY DEF CheckTimer
<1> QED
  BY <1>7, <1>8, <1>9

-----------------------------------------------------------------------------
(* On time *)

\* No tick of the configurations is longer than what 32 bits of nanoseconds
\* hold.  (SleepsOneTick says so of the tick; a longer one makes the timer fast.)
NoOverflow ==
  \A c \in Configs, p \in Percents : MinTimerFrequency(c, p) * UnitsPerMs < UnitsInWord

\* It holds as soon as each configuration has an interval of 4294 ms at most.
LEMMA NoOverflowIfShort ==
  ASSUME \A c \in Configs : \E i \in c : i <= 4294
  PROVE  NoOverflow
<1> SUFFICES ASSUME NEW c \in Configs, NEW pct \in Percents
             PROVE  MinTimerFrequency(c, pct) * UnitsPerMs < UnitsInWord
  BY DEF NoOverflow
<1>1. c \in SUBSET (Nat \ {0, 1}) /\ IsFiniteSet(c) /\ c # {} /\ pct \in 0..99
  BY ConfigAssumption
<1>2. PICK i \in c : i <= 4294
  OBVIOUS
<1> DEFINE t == MinTimerFrequency(c, pct)
<1>3. t \in Nat /\ i \in Multiples(t) /\ i \in Nat /\ i # 0
  BY <1>1, TickDivides
<1> HIDE DEF t
<1>4. t <= i
  BY <1>3, DivisorBound
<1>5. t * UnitsPerMs < UnitsInWord
  BY <1>2, <1>3, <1>4 DEF UnitsPerMs, UnitsInWord
<1> QED
  BY <1>5 DEF t

\* An interval has one poll to come, at a place that is as far ahead as is left
\* of the interval.
PollWaits(i) ==
  \E p \in Multiples(tick) :
    /\ p \in 1..maxCounter /\ PollsOf(i) = {Poll(i, p)}
    /\ since[i] + Ahead(counter, p, maxCounter) * UnitsPerMs = i * UnitsPerMs

\* After a poll, it has one cutoff to come until that is due, and none before
\* the first poll or after the cutoff.
CutoffWaits(i) ==
  IF i \in polled /\ since[i] < Cutoff(i) * UnitsPerMs
    THEN \E p \in Multiples(tick) :
           /\ p \in 1..maxCounter /\ CutoffsOf(i) = {CutoffAt(i, p)}
           /\ since[i] + Ahead(counter, p, maxCounter) * UnitsPerMs = Cutoff(i) * UnitsPerMs
    ELSE CutoffsOf(i) = {}

WInv == \A i \in intervals : PollWaits(i) /\ CutoffWaits(i)

\* A tick is slept in full.
LEMMA SleepIs ==
  ASSUME NoOverflow, Fits
  PROVE  TickSleep = tick * UnitsPerMs
<1>1. tick * UnitsPerMs \in Nat /\ tick * UnitsPerMs < UnitsInWord
  BY DEF NoOverflow, Fits, UnitsPerMs
<1> QED
  BY <1>1 DEF TickSleep, UnitsInWord

\* At the start, the first poll of an interval is one interval ahead.
LEMMA InitWInv == Init => WInv
<1> SUFFICES ASSUME Init, NEW i \in intervals PROVE PollWaits(i) /\ CutoffWaits(i)
  BY DEF WInv
<1>1. TInv
  BY InitTInv
<1>2. i \in Multiples(tick) /\ i \in 1..maxCounter
  BY <1>1, FitsLength DEF TInv, Fits
<1>3. PollsOf(i) = {Poll(i, i)}
  BY DEF Init, PollsOf, Poll
<1>4. CutoffsOf(i) = {} /\ polled = {}
  BY DEF Init, CutoffsOf, Poll
<1>5. since[i] = 0 /\ Ahead(counter, i, maxCounter) = i
  BY <1>2 DEF Init, Ahead
<1>6. PollWaits(i)
  BY <1>2, <1>3, <1>5 DEF PollWaits, UnitsPerMs
<1> QED
  BY <1>4, <1>6 DEF CutoffWaits

\* What a round does about an entry at p, r ticks ahead.
LEMMA TurnAt ==
  ASSUME Fits, Tick, NEW p \in Multiples(tick), p \in 1..maxCounter
  PROVE  /\ Ahead(counter, p, maxCounter) \in Nat /\ tick \in Nat /\ tick > 0
         /\ tick <= Ahead(counter, p, maxCounter)
         /\ p = Now <=> Ahead(counter, p, maxCounter) = tick
         /\ p # Now => Ahead(counter', p, maxCounter) = Ahead(counter, p, maxCounter) - tick
<1>1. /\ tick \in Nat \ {0} /\ maxCounter \in Multiples(tick)
      /\ counter \in Multiples(tick) /\ counter < maxCounter
  BY FitsLength DEF Fits
<1>2. counter' = IF counter + tick = maxCounter THEN 0 ELSE counter + tick
  BY DEF Tick
<1> QED
  BY <1>1, <1>2, WheelTurns DEF Now

\* Where a poll that is due puts the next poll and the cutoff.
LEMMA PutAhead ==
  ASSUME Fits, Tick, NEW i \in intervals
  PROVE  /\ NextPolling(i, Now) \in Multiples(tick) /\ NextPolling(i, Now) \in 1..maxCounter
         /\ Ahead(counter', NextPolling(i, Now), maxCounter) = i
         /\ NextCutoff(i, Now) \in Multiples(tick) /\ NextCutoff(i, Now) \in 1..maxCounter
         /\ Ahead(counter', NextCutoff(i, Now), maxCounter) = Cutoff(i)
<1>1. counter' = IF Now = maxCounter THEN 0 ELSE Now
  BY DEF Tick, Now
<1>2. /\ Now \in 1..maxCounter /\ Now \in Multiples(tick)
      /\ NextPolling(i, Now) = Place(Now, i, maxCounter)
      /\ NextCutoff(i, Now) = Place(Now, Cutoff(i), maxCounter)
      /\ NextPolling(i, Now) \in 1..maxCounter /\ NextPolling(i, Now) \in Multiples(tick)
      /\ NextCutoff(i, Now) \in 1..maxCounter /\ NextCutoff(i, Now) \in Multiples(tick)
  BY NextPlaces DEF Now
<1>3. /\ tick \in Nat \ {0} /\ maxCounter \in Multiples(tick) /\ i \in 1..maxCounter
      /\ i \in Multiples(tick) /\ Cutoff(i) \in Multiples(tick)
  BY FitsLength DEF Fits
<1>4. Cutoff(i) \in 1..maxCounter
  <2>1. Cutoff(i) \in Nat
    BY <1>3, MultiplesClosed
  <2>2. Cutoff(i) > 0 /\ Cutoff(i) < i
    BY DEF Fits
  <2> QED
    BY ONLY <1>3, <2>1, <2>2
<1> QED
  BY <1>1, <1>2, <1>3, <1>4, PlaceAhead

\* What stays the same in a round.
LEMMA ConfigSame ==
  ASSUME Tick
  PROVE  UNCHANGED <<intervals, percent, tick, maxCounter>> /\ \A i : Cutoff(i)' = Cutoff(i)
  BY DEF Tick, CheckTimer, config, Cutoff

\* A poll is due when its interval has passed, not before, and not passed by.
LEMMA PollNext ==
  ASSUME NoOverflow, TInv, Tick, NEW i \in intervals, PollWaits(i)
  PROVE  /\ PollWaits(i)'
         /\ since[i] + TickSleep <= i * UnitsPerMs
         /\ i \in DuePolls(Now) <=> since[i] + TickSleep = i * UnitsPerMs
<1>1. PICK p \in Multiples(tick) :
        /\ p \in 1..maxCounter /\ PollsOf(i) = {Poll(i, p)}
        /\ since[i] + Ahead(counter, p, maxCounter) * UnitsPerMs = i * UnitsPerMs
  BY DEF PollWaits
<1> DEFINE r == Ahead(counter, p, maxCounter)
<1>2. /\ r \in Nat /\ tick \in Nat /\ tick > 0 /\ tick <= r
      /\ p = Now <=> r = tick
      /\ p # Now => Ahead(counter', p, maxCounter) = r - tick
  BY <1>1, TurnAt DEF TInv
<1>3. TickSleep = tick * UnitsPerMs
  BY SleepIs DEF TInv
<1>4. since[i] \in Nat /\ i \in Nat
  BY DEF TInv, Fits
<1>5. i \in DuePolls(Now) <=> p = Now
  <2>1. (\E e \in PollsOf(i) : e.at = Now) <=> p = Now
    BY <1>1 DEF Poll
  <2> QED
    BY <2>1, DueOf
<1>6. CheckTimer(Now)
  BY DEF Tick, Now
<1> HIDE DEF r
<1>7. since[i] + r * UnitsPerMs = i * UnitsPerMs
  BY <1>1 DEF r
<1>8. since[i] + TickSleep <= i * UnitsPerMs
  BY <1>2, <1>3, <1>4, <1>7 DEF UnitsPerMs
<1>9. i \in DuePolls(Now) <=> since[i] + TickSleep = i * UnitsPerMs
  BY <1>2, <1>3, <1>4, <1>5, <1>7 DEF UnitsPerMs
<1>10. PollWaits(i)'
  <2>1. CASE p = Now
    <3> DEFINE q == NextPolling(i, Now)
    <3>1. q \in Multiples(tick) /\ q \in 1..maxCounter /\ Ahead(counter', q, maxCounter) = i
      BY PutAhead DEF TInv
    <3>2. PollsOf(i)' = {Poll(i, q)} /\ since'[i] = 0
      <4>1. {e \in PollsOf(i) : e.at # Now} = {}
        BY <1>1, <2>1 DEF Poll
      <4> QED
        BY <1>5, <1>6, <2>1, <4>1, EntriesNext
    <3> HIDE DEF q
    <3>3. since'[i] + Ahead(counter', q, maxCounter) * UnitsPerMs = i * UnitsPerMs
      BY <1>4, <3>1, <3>2 DEF UnitsPerMs
    <3> QED
      BY <3>1, <3>2, <3>3, ConfigSame DEF PollWaits, Poll
  <2>2. CASE p # Now
    <3>1. PollsOf(i)' = {Poll(i, p)} /\ since'[i] = since[i] + TickSleep
      <4>1. {e \in PollsOf(i) : e.at # Now} = {Poll(i, p)}
        BY <1>1, <2>2 DEF Poll
      <4> QED
        BY <1>5, <1>6, <2>2, <4>1, EntriesNext
    <3>2. since'[i] + Ahead(counter', p, maxCounter) * UnitsPerMs = i * UnitsPerMs
      BY <1>2, <1>3, <1>4, <1>7, <2>2, <3>1 DEF UnitsPerMs
    <3> QED
      BY <1>1, <3>1, <3>2, ConfigSame DEF PollWaits, Poll
  <2> QED
    BY <2>1, <2>2
<1> QED
  BY <1>8, <1>9, <1>10

\* A cutoff is due when the cutoff interval has passed since the poll.
LEMMA CutoffNext ==
  ASSUME NoOverflow, TInv, Tick, NEW i \in intervals, PollWaits(i), CutoffWaits(i)
  PROVE  /\ CutoffWaits(i)'
         /\ i \in polled /\ since[i] < Cutoff(i) * UnitsPerMs => since[i] + TickSleep <= Cutoff(i) * UnitsPerMs
         /\ (\E e \in CutoffsOf(i) : e.at = Now) <=> i \in polled /\ since[i] + TickSleep = Cutoff(i) * UnitsPerMs
<1> DEFINE due == Cutoff(i) * UnitsPerMs
<1>1. TickSleep = tick * UnitsPerMs /\ tick \in Nat \ {0}
  BY SleepIs DEF TInv, Fits
<1>2. since[i] \in Nat /\ i \in Nat /\ Cutoff(i) \in Nat /\ Cutoff(i) > 0 /\ Cutoff(i) + tick <= i
  <2>1. i \in Multiples(tick) /\ Cutoff(i) \in Multiples(tick) /\ Cutoff(i) > 0 /\ Cutoff(i) < i
    BY DEF TInv, Fits
  <2>2. since[i] \in Nat /\ i \in Nat
    BY DEF TInv, Fits
  <2> QED
    BY <1>1, <2>1, <2>2, MultiplesClosed, MultiplesGap
<1>3. CheckTimer(Now)
  BY DEF Tick, Now
<1>4. i \in DuePolls(Now) <=> since[i] + TickSleep = i * UnitsPerMs
  BY PollNext
<1>5. /\ CutoffsOf(i)' = {e \in CutoffsOf(i) : e.at # Now}
                           \cup (IF i \in DuePolls(Now) THEN {CutoffAt(i, NextCutoff(i, Now))} ELSE {})
      /\ since'[i] = IF i \in DuePolls(Now) THEN 0 ELSE since[i] + TickSleep
      /\ i \in polled' <=> i \in polled \/ i \in DuePolls(Now)
  BY <1>3, EntriesNext
<1>6. UNCHANGED <<tick, maxCounter>> /\ Cutoff(i)' = Cutoff(i)
  BY ConfigSame
<1>7. CASE i \in polled /\ since[i] < due
  <2>1. PICK p \in Multiples(tick) :
          /\ p \in 1..maxCounter /\ CutoffsOf(i) = {CutoffAt(i, p)}
          /\ since[i] + Ahead(counter, p, maxCounter) * UnitsPerMs = due
    BY <1>7 DEF CutoffWaits
  <2> DEFINE r == Ahead(counter, p, maxCounter)
  <2>2. /\ r \in Nat /\ tick <= r
        /\ p = Now <=> r = tick
        /\ p # Now => Ahead(counter', p, maxCounter) = r - tick
    BY <2>1, TurnAt DEF TInv
  <2>3. since[i] + r * UnitsPerMs = due
    BY <2>1
  <2> HIDE DEF r
  <2>4. since[i] + TickSleep <= due /\ (p = Now <=> since[i] + TickSleep = due)
    BY <1>1, <1>2, <2>2, <2>3 DEF UnitsPerMs
  <2>5. i \notin DuePolls(Now)
    BY <1>1, <1>2, <1>4, <2>4 DEF UnitsPerMs
  <2>6. (\E e \in CutoffsOf(i) : e.at = Now) <=> p = Now
    BY <2>1 DEF CutoffAt
  <2>7. CutoffWaits(i)'
    <3>1. CASE p = Now
      <4>1. CutoffsOf(i)' = {} /\ since'[i] = due
        BY <1>5, <2>1, <2>4, <2>5, <3>1 DEF CutoffAt
      <4> QED
        BY <1>2, <1>6, <4>1 DEF CutoffWaits, UnitsPerMs
    <3>2. CASE p # Now
      <4>1. CutoffsOf(i)' = {CutoffAt(i, p)} /\ since'[i] = since[i] + TickSleep /\ i \in polled'
        <5>1. {e \in CutoffsOf(i) : e.at # Now} = {CutoffAt(i, p)}
          BY <2>1, <3>2 DEF CutoffAt
        <5> QED
          BY <1>5, <1>7, <2>5, <5>1
      <4>2. since'[i] + Ahead(counter', p, maxCounter) * UnitsPerMs = due
        BY <1>1, <1>2, <2>2, <2>3, <3>2, <4>1 DEF UnitsPerMs
      <4>3. since'[i] < due
        BY <1>1, <1>2, <2>4, <3>2, <4>1 DEF UnitsPerMs
      <4> QED
        BY <1>6, <2>1, <4>1, <4>2, <4>3 DEF CutoffWaits, CutoffAt
    <3> QED
      BY <3>1, <3>2
  <2> QED
    BY <1>7, <2>4, <2>6, <2>7
<1>8. CASE ~(i \in polled /\ since[i] < due)
  <2>1. CutoffsOf(i) = {}
    BY <1>8 DEF CutoffWaits
  <2>2. i \in polled => since[i] + TickSleep > due
    BY <1>1, <1>2, <1>8 DEF UnitsPerMs
  <2>3. CutoffWaits(i)'
    <3>1. CASE i \in DuePolls(Now)
      <4> DEFINE q == NextCutoff(i, Now)
      <4>1. q \in Multiples(tick) /\ q \in 1..maxCounter /\ Ahead(counter', q, maxCounter) = Cutoff(i)
        BY PutAhead DEF TInv
      <4>2. CutoffsOf(i)' = {CutoffAt(i, q)} /\ since'[i] = 0 /\ i \in polled'
        BY <1>5, <2>1, <3>1
      <4> HIDE DEF q
      <4>3. since'[i] + Ahead(counter', q, maxCounter) * UnitsPerMs = due /\ since'[i] < due
        BY <1>2, <4>1, <4>2 DEF UnitsPerMs
      <4> QED
        BY <1>6, <4>1, <4>2, <4>3 DEF CutoffWaits, CutoffAt
    <3>2. CASE i \notin DuePolls(Now)
      <4>1. CutoffsOf(i)' = {} /\ since'[i] = since[i] + TickSleep /\ (i \in polled' <=> i \in polled)
        BY <1>5, <2>1, <3>2
      <4>2. i \in polled' => ~(since'[i] < due)
        BY <1>1, <1>2, <2>2, <4>1 DEF UnitsPerMs
      <4> QED
        BY <1>6, <4>1, <4>2 DEF CutoffWaits
    <3> QED
      BY <3>1, <3>2
  <2>4. i \in polled => since[i] + TickSleep # due
    BY <1>1, <1>2, <2>2 DEF UnitsPerMs
  <2> QED
    BY <1>8, <2>1, <2>3, <2>4
<1> QED
  BY <1>7, <1>8

\* Every round keeps what is left of every interval and cutoff.
LEMMA NextWInv ==
  ASSUME NoOverflow
  PROVE  TInv /\ WInv /\ [Next]_vars => WInv'
<1> SUFFICES ASSUME TInv, WInv, [Next]_vars PROVE WInv'
  OBVIOUS
<1>1. CASE UNCHANGED vars
  BY <1>1 DEF WInv, PollWaits, CutoffWaits, PollsOf, CutoffsOf, Poll, CutoffAt, Cutoff, vars, config
<1>2. CASE Tick
  <2>1. \A i \in intervals : PollWaits(i)' /\ CutoffWaits(i)'
    BY <1>2, PollNext, CutoffNext DEF WInv
  <2> QED
    BY <1>2, <2>1, ConfigSame DEF WInv
<1> QED
  BY <1>1, <1>2 DEF Next

(* For every set of intervals and every percentage, and however often the      *)
(* counter wraps: every interval is polled each time it has passed and at no   *)
(* other time, and its cutoff follows when the cutoff interval has passed, and *)
(* at no other time.  Provided only that no tick overflows 32 bits.            *)
THEOREM WheelCorrect == ASSUME NoOverflow PROVE Spec => WheelOnTime
<1>1. TInv /\ WInv /\ [Next]_vars =>
        [\A i \in intervals :
           LET now == since[i] + TickSleep
               due == i * UnitsPerMs
           IN /\ now <= due
              /\ (\E e \in fired' : e.interval = i /\ e.polling) <=> now = due]_vars
  <2> SUFFICES ASSUME TInv, WInv, Tick, NEW i \in intervals
               PROVE  /\ since[i] + TickSleep <= i * UnitsPerMs
                      /\ (\E e \in fired' : e.interval = i /\ e.polling)
                           <=> since[i] + TickSleep = i * UnitsPerMs
    BY DEF Next
  <2>1. fired' = Due(Now)
    BY DEF Tick, CheckTimer, Now
  <2>2. (\E e \in fired' : e.interval = i /\ e.polling) <=> i \in DuePolls(Now)
    BY <2>1, DueOf
  <2> QED
    BY <2>2, PollNext DEF WInv
<1>2. TInv /\ WInv /\ [Next]_vars =>
        [\A i \in intervals :
           LET now == since[i] + TickSleep
               due == Cutoff(i) * UnitsPerMs
           IN /\ i \in polled /\ since[i] < due => now <= due
              /\ (\E e \in fired' : e.interval = i /\ ~e.polling) <=> i \in polled /\ now = due]_vars
  <2> SUFFICES ASSUME TInv, WInv, Tick, NEW i \in intervals
               PROVE  /\ i \in polled /\ since[i] < Cutoff(i) * UnitsPerMs
                           => since[i] + TickSleep <= Cutoff(i) * UnitsPerMs
                      /\ (\E e \in fired' : e.interval = i /\ ~e.polling)
                           <=> i \in polled /\ since[i] + TickSleep = Cutoff(i) * UnitsPerMs
    BY DEF Next
  <2>1. fired' = Due(Now)
    BY DEF Tick, CheckTimer, Now
  <2>2. (\E e \in fired' : e.interval = i /\ ~e.polling) <=> \E e \in CutoffsOf(i) : e.at = Now
    BY <2>1, DueOf
  <2> QED
    BY <2>2, CutoffNext DEF WInv
<1> QED
  BY <1>1, <1>2, InitTInv, NextTInv, InitWInv, NextWInv, PTL
     DEF Spec, WheelOnTime, PollOnPeriod, CutoffOnTime
=============================================================================
