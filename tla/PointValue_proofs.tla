--------------------------- MODULE PointValue_proofs ---------------------------
(***************************************************************************)
(* Theorems about PointValue: for every width of a byte, every scale       *)
(* factor and every value, what is published is the scaled number in the   *)
(* device, and what is commanded is read back.                             *)
(***************************************************************************)
EXTENDS PointValue, TLAPS, WellFoundedInduction

-----------------------------------------------------------------------------
(* Recursive functions *)

\* A set of numbers that is not empty has a least one.
LEMMA Least ==
  ASSUME NEW T \in SUBSET Nat, T # {}
  PROVE  \E x \in T : \A y \in T : x <= y
<1> DEFINE Less == {ss \in Nat \X Nat : ss[1] < ss[2]}
<1>1. IsWellFoundedOn(Less, Nat)
  BY NatLessThanWellFounded DEF OpToRel
<1>2. PICK x \in T : \A y \in T : ~(<<y, x>> \in Less)
  <2> HIDE DEF Less
  <2> QED
    BY <1>1, WFMin
<1>3. ASSUME NEW y \in T PROVE x <= y
  <2>1. x \in Nat /\ y \in Nat /\ <<y, x>> \notin Less
    BY <1>2
  <2> QED
    BY <2>1
<1> QED
  BY <1>3

\* A set that has 0, and each successor of what it has, has all numbers.
LEMMA Induction ==
  ASSUME NEW T, 0 \in T, \A n \in Nat : n \in T => n + 1 \in T
  PROVE  \A n \in Nat : n \in T
<1> SUFFICES ASSUME NEW k \in Nat, k \notin T PROVE FALSE
  OBVIOUS
<1>1. PICK x \in Nat \ T : \A y \in Nat \ T : x <= y
  BY Least
<1>2. x # 0 /\ x - 1 \in Nat
  BY <1>1
<1>3. x - 1 \in T
  BY <1>1, <1>2
<1> QED
  BY <1>1, <1>2, <1>3

\* f satisfies the equation of Pow up to n.
PowUpTo(f, n) == f = [k \in 0..n |-> IF k = 0 THEN 1 ELSE Base * f[k - 1]]

\* The recursive function Pow exists.
LEMMA PowExists ==
  \E f : f = [k \in Nat |-> IF k = 0 THEN 1 ELSE Base * f[k - 1]]
<1> DEFINE T == {n \in Nat : \E f : PowUpTo(f, n)}
           F == [n \in Nat |-> CHOOSE f : PowUpTo(f, n)]
           G == [n \in Nat |-> F[n][n]]
<1>1. \A n \in Nat : n \in T
  <2>1. 0 \in T
    <3>1. PowUpTo([k \in 0..0 |-> 1], 0)
      BY DEF PowUpTo
    <3> QED
      BY <3>1
  <2>2. ASSUME NEW n \in Nat, n \in T PROVE n + 1 \in T
    <3>1. PICK f : PowUpTo(f, n)
      BY <2>2
    <3> DEFINE g == [k \in 0..(n + 1) |-> IF k = n + 1 THEN Base * f[n] ELSE f[k]]
    <3>2. \A k \in 0..n : f[k] = IF k = 0 THEN 1 ELSE Base * f[k - 1]
      BY <3>1 DEF PowUpTo
    <3>3. \A k \in 0..(n + 1) : g[k] = IF k = 0 THEN 1 ELSE Base * g[k - 1]
      BY <3>2
    <3>4. PowUpTo(g, n + 1)
      BY <3>3 DEF PowUpTo
    <3> QED
      BY <3>4
  <2> HIDE DEF T
  <2> QED
    BY <2>1, <2>2, Induction
<1>2. \A n \in Nat : PowUpTo(F[n], n)
  BY <1>1
<1>3. \A n \in Nat : \A k \in 0..n : F[n][k] = IF k = 0 THEN 1 ELSE Base * F[n][k - 1]
  <2> HIDE DEF F
  <2> TAKE n \in Nat
  <2>1. F[n] = [k \in 0..n |-> IF k = 0 THEN 1 ELSE Base * F[n][k - 1]]
    BY <1>2 DEF PowUpTo
  <2> QED
    BY <2>1
<1> DEFINE S == {k \in Nat : \A n \in Nat : k <= n => F[n][k] = F[k][k]}
<1>4. \A k \in Nat : k \in S
  <2>1. 0 \in S
    <3>1. \A n \in Nat : F[n][0] = 1
      <4> HIDE DEF F
      <4> QED
        BY <1>3
    <3> HIDE DEF F
    <3> QED
      BY <3>1
  <2>2. ASSUME NEW k \in Nat, k \in S PROVE k + 1 \in S
    <3> SUFFICES ASSUME NEW n \in Nat, k + 1 <= n PROVE F[n][k + 1] = F[k + 1][k + 1]
      OBVIOUS
    <3> HIDE DEF F
    <3>1. F[n][k + 1] = Base * F[n][k] /\ F[k + 1][k + 1] = Base * F[k + 1][k]
      BY <1>3
    <3>2. F[n][k] = F[k][k] /\ F[k + 1][k] = F[k][k]
      BY <2>2
    <3> QED
      BY <3>1, <3>2
  <2> HIDE DEF S
  <2> QED
    BY <2>1, <2>2, Induction
<1>5. \A n \in Nat : G[n] = IF n = 0 THEN 1 ELSE Base * G[n - 1]
  <2> HIDE DEF F
  <2> TAKE n \in Nat
  <2>1. CASE n = 0
    BY <1>3, <2>1
  <2>2. CASE n # 0
    <3>1. n - 1 \in Nat /\ n - 1 \in S
      BY <1>4, <2>2
    <3>2. F[n][n] = Base * F[n][n - 1]
      BY <1>3, <2>2
    <3>3. F[n][n - 1] = F[n - 1][n - 1]
      BY <3>1
    <3> QED
      BY <2>2, <3>1, <3>2, <3>3
  <2> QED
    BY <2>1, <2>2
<1>6. G = [k \in Nat |-> IF k = 0 THEN 1 ELSE Base * G[k - 1]]
  <2>1. G = [n \in Nat |-> G[n]]
    OBVIOUS
  <2> HIDE DEF G
  <2> QED
    BY <1>5, <2>1
<1> HIDE DEF G
<1> QED
  BY <1>6

\* The equation of Pow.
LEMMA PowEquation ==
  /\ Pow[0] = 1
  /\ \A k \in Nat : Pow[k + 1] = Base * Pow[k]
<1>1. Pow = [k \in Nat |-> IF k = 0 THEN 1 ELSE Base * Pow[k - 1]]
  BY PowExists, Zenon DEF Pow
<1>2. \A k \in Nat : Pow[k] = IF k = 0 THEN 1 ELSE Base * Pow[k - 1]
  BY <1>1
<1> QED
  BY <1>2

\* Powers are positive.
LEMMA PowType ==
  /\ Base \in Nat /\ Base >= 2
  /\ \A k \in Nat : Pow[k] \in Nat /\ Pow[k] >= 1
<1> DEFINE T == {k \in Nat : Pow[k] \in Nat /\ Pow[k] >= 1}
<1>1. Base \in Nat /\ Base >= 2
  BY ValuesAssumption DEF Base
<1>2. 0 \in T
  BY PowEquation
<1>3. ASSUME NEW k \in Nat, k \in T PROVE k + 1 \in T
  <2>1. Pow[k + 1] = Base * Pow[k] /\ Pow[k] \in Nat /\ Pow[k] >= 1
    BY <1>3, PowEquation
  <2>2. \A x, y \in Nat : x >= 1 /\ y >= 1 => x * y \in Nat /\ x * y >= 1
    OBVIOUS
  <2>3. Pow[k + 1] \in Nat /\ Pow[k + 1] >= 1
    BY <1>1, <2>1, <2>2
  <2> QED
    BY <2>3
<1> HIDE DEF T
<1>4. \A k \in Nat : k \in T
  BY <1>2, <1>3, Induction
<1> QED
  BY <1>1, <1>4 DEF T

-----------------------------------------------------------------------------
(* Bytes as a number *)

\* Partial sums of the function that Unsigned defines.
Sums(u, bs) == \A i \in 0..Len(bs) : u[i] = IF i = 0 THEN 0 ELSE u[i - 1] * Base + bs[i]

\* u satisfies the equation of that function up to n.
SumsUpTo(u, bs, n) == u = [i \in 0..n |-> IF i = 0 THEN 0 ELSE u[i - 1] * Base + bs[i]]

\* The function exists.
LEMMA SumsExist ==
  ASSUME NEW bs, NEW n \in Nat
  PROVE  \E u : u = [i \in 0..n |-> IF i = 0 THEN 0 ELSE u[i - 1] * Base + bs[i]]
<1> DEFINE T == {m \in Nat : \E u : SumsUpTo(u, bs, m)}
<1>1. 0 \in T
  <2>1. SumsUpTo([i \in 0..0 |-> 0], bs, 0)
    BY DEF SumsUpTo
  <2> QED
    BY <2>1
<1>2. ASSUME NEW m \in Nat, m \in T PROVE m + 1 \in T
  <2>1. PICK u : SumsUpTo(u, bs, m)
    BY <1>2
  <2> DEFINE v == [i \in 0..(m + 1) |-> IF i = m + 1 THEN u[m] * Base + bs[i] ELSE u[i]]
  <2>2. \A i \in 0..m : u[i] = IF i = 0 THEN 0 ELSE u[i - 1] * Base + bs[i]
    BY <2>1 DEF SumsUpTo
  <2>3. \A i \in 0..(m + 1) : v[i] = IF i = 0 THEN 0 ELSE v[i - 1] * Base + bs[i]
    BY <2>2
  <2>4. SumsUpTo(v, bs, m + 1)
    BY <2>3 DEF SumsUpTo
  <2> QED
    BY <2>4
<1> HIDE DEF T
<1>3. n \in T
  BY <1>1, <1>2, Induction
<1> QED
  BY <1>3 DEF T, SumsUpTo

\* What Unsigned computes.
LEMMA UnsignedSums ==
  ASSUME NEW bs, Len(bs) \in Nat
  PROVE  \E u : Sums(u, bs) /\ Unsigned(bs) = u[Len(bs)]
<1> DEFINE n == Len(bs)
           U == CHOOSE u : u = [i \in 0..n |-> IF i = 0 THEN 0 ELSE u[i - 1] * Base + bs[i]]
<1>1. Unsigned(bs) = U[n]
  BY Zenon DEF Unsigned
<1>2. U = [i \in 0..n |-> IF i = 0 THEN 0 ELSE U[i - 1] * Base + bs[i]]
  BY SumsExist, Zenon
<1> HIDE DEF U
<1>3. Sums(U, bs)
  BY <1>2 DEF Sums
<1> QED
  BY <1>1, <1>3

\* The sums of bytes are numbers of so many bytes.
LEMMA SumsRange ==
  ASSUME NEW bs \in Seq(Byte), NEW u, Sums(u, bs), NEW i \in 0..Len(bs)
  PROVE  u[i] \in Nat /\ u[i] < Pow[i]
<1> DEFINE T == {k \in Nat : k <= Len(bs) => u[k] \in Nat /\ u[k] < Pow[k]}
<1>1. 0 \in T
  <2>1. 0 \in 0..Len(bs)
    OBVIOUS
  <2>2. u[0] = 0
    BY <2>1 DEF Sums
  <2>3. 0 < Pow[0]
    BY PowEquation
  <2> QED
    BY <2>2, <2>3
<1>2. ASSUME NEW k \in Nat, k \in T PROVE k + 1 \in T
  <2> SUFFICES ASSUME k + 1 <= Len(bs) PROVE u[k + 1] \in Nat /\ u[k + 1] < Pow[k + 1]
    OBVIOUS
  <2>1. u[k + 1] = u[k] * Base + bs[k + 1] /\ u[k] \in Nat /\ u[k] < Pow[k]
    BY <1>2 DEF Sums
  <2>2. bs[k + 1] \in Nat /\ bs[k + 1] < Base
    BY PowType DEF Byte
  <2>3. Pow[k + 1] = Base * Pow[k] /\ Pow[k] \in Nat /\ Base \in Nat
    BY PowEquation, PowType
  <2>4. \A x, y, b \in Nat : x < y => x * b \in Nat /\ x * b + b <= b * y
    <3> TAKE x, y, b \in Nat
    <3> HAVE x < y
    <3>1. y - (x + 1) \in Nat /\ b * y = x * b + b + b * (y - (x + 1))
      OBVIOUS
    <3>2. b * (y - (x + 1)) \in Nat /\ x * b \in Nat
      BY <3>1
    <3> QED
      BY <3>1, <3>2
  <2>5. u[k] * Base \in Nat /\ u[k] * Base + Base <= Base * Pow[k]
    BY <2>1, <2>3, <2>4
  <2>6. u[k] * Base + bs[k + 1] \in Nat /\ u[k] * Base + bs[k + 1] < Base * Pow[k]
    <3> DEFINE a == u[k] * Base  b == bs[k + 1]  c == Base * Pow[k]
    <3>1. a \in Nat /\ b \in Nat /\ b < Base /\ a + Base <= c /\ Base \in Nat
      BY <2>2, <2>3, <2>5
    <3>2. c \in Nat
      BY <2>3
    <3> HIDE DEF a, b, c
    <3>3. a + b \in Nat /\ a + b < c
      BY <3>1, <3>2
    <3> QED
      BY <3>3 DEF a, b, c
  <2> QED
    BY <2>1, <2>3, <2>6
<1> HIDE DEF T
<1>3. \A k \in Nat : k \in T
  BY <1>1, <1>2, Induction
<1> QED
  BY <1>3 DEF T

LEMMA UnsignedRange ==
  ASSUME NEW bs \in Seq(Byte)
  PROVE  Unsigned(bs) \in Nat /\ Unsigned(bs) < Pow[Len(bs)]
<1>1. PICK u : Sums(u, bs) /\ Unsigned(bs) = u[Len(bs)]
  BY UnsignedSums
<1> QED
  BY <1>1, SumsRange

-----------------------------------------------------------------------------
(* A number as bytes *)

\* Division by a product.
LEMMA DivTwice ==
  ASSUME NEW n \in Nat, NEW p \in Nat, p >= 1, NEW b \in Nat, b >= 1
  PROVE  n \div (b * p) = (n \div p) \div b
<1> DEFINE q == n \div p
           s == q \div b
<1>1. q \in Nat /\ (n % p) \in Nat /\ (n % p) < p /\ n = p * q + (n % p)
  OBVIOUS
<1> HIDE DEF q
<1>2. s \in Nat /\ (q % b) \in Nat /\ (q % b) < b /\ q = b * s + (q % b)
  BY <1>1
<1> HIDE DEF s
<1> DEFINE r == p * (q % b) + (n % p)
<1>3. n = (b * p) * s + r
  <2>1. p * q = p * (b * s) + p * (q % b)
    BY <1>2
  <2>2. p * (b * s) = (b * p) * s
    BY <1>2
  <2> QED
    BY <1>1, <1>2, <2>1, <2>2
<1>4. r \in Nat /\ r < b * p
  <2>1. b - 1 - (q % b) \in Nat /\ b * p = p * (q % b) + p + p * (b - 1 - (q % b))
    BY <1>2
  <2>2. p * (q % b) \in Nat /\ p * (b - 1 - (q % b)) \in Nat
    BY <1>2, <2>1
  <2> QED
    BY <1>1, <2>1, <2>2
<1> HIDE DEF r
<1>5. b * p \in Nat /\ b * p >= 1
  OBVIOUS
<1> DEFINE m == b * p
<1>6. \A x \in Nat : n = m * s + x /\ x < m => n \div m = s
  BY <1>2, <1>5
<1> QED
  BY <1>3, <1>4, <1>6 DEF q, s

\* The bytes of a number.
LEMMA HexType ==
  ASSUME NEW x \in Int, NEW bytes \in Nat
  PROVE  IntegerToHex(x, bytes) \in Seq(Byte) /\ Len(IntegerToHex(x, bytes)) = bytes
<1> DEFINE n == x % Pow[bytes]
<1>1. n \in Nat
  BY PowType
<1> HIDE DEF n
<1>2. \A i \in 1..bytes : (n \div Pow[bytes - i]) % Base \in Byte
  <2> TAKE i \in 1..bytes
  <2>1. Pow[bytes - i] \in Nat /\ Pow[bytes - i] >= 1
    BY PowType
  <2>2. n \div Pow[bytes - i] \in Nat
    BY <1>1, <2>1
  <2> QED
    BY <2>2, PowType DEF Byte
<1>3. IntegerToHex(x, bytes) = [i \in 1..bytes |-> (n \div Pow[bytes - i]) % Base]
  BY DEF IntegerToHex, n
<1> QED
  BY <1>2, <1>3

\* They make up the number again.
LEMMA HexReadsBack ==
  ASSUME NEW x \in Int, NEW bytes \in Nat
  PROVE  Unsigned(IntegerToHex(x, bytes)) = x % Pow[bytes]
<1> DEFINE n == x % Pow[bytes]
           bs == IntegerToHex(x, bytes)
<1>1. n \in Nat /\ n < Pow[bytes]
  BY PowType
<1>2. \A i \in 1..bytes : bs[i] = (n \div Pow[bytes - i]) % Base
  BY DEF IntegerToHex
<1>3. Len(bs) = bytes
  BY HexType
<1> HIDE DEF n, bs
<1>4. PICK u : Sums(u, bs) /\ Unsigned(bs) = u[bytes]
  BY <1>3, UnsignedSums
<1> DEFINE T == {k \in Nat : k <= bytes => u[k] = n \div Pow[bytes - k]}
<1>5. 0 \in T
  <2>1. \A m \in Nat : n < m => n \div m = 0
    BY <1>1
  <2> QED
    BY <1>1, <1>3, <1>4, <2>1, PowType DEF Sums
<1>6. ASSUME NEW k \in Nat, k \in T PROVE k + 1 \in T
  <2> SUFFICES ASSUME k + 1 <= bytes PROVE u[k + 1] = n \div Pow[bytes - (k + 1)]
    OBVIOUS
  <2> DEFINE p == Pow[bytes - (k + 1)]
             m == n \div p
  <2>1. p \in Nat /\ p >= 1 /\ Pow[bytes - k] = Base * p
    <3>1. bytes - (k + 1) \in Nat /\ bytes - k = (bytes - (k + 1)) + 1
      OBVIOUS
    <3> QED
      BY <3>1, PowType, PowEquation
  <2>2. u[k] = m \div Base
    <3>1. u[k] = n \div Pow[bytes - k]
      BY <1>6
    <3>2. n \div (Base * p) = (n \div p) \div Base
      <4>1. p \in Nat /\ p >= 1 /\ Base \in Nat /\ Base >= 1
        BY <2>1, PowType
      <4> HIDE DEF p
      <4> QED
        BY <1>1, <4>1, DivTwice
    <3> QED
      BY <2>1, <3>1, <3>2
  <2>3. u[k + 1] = u[k] * Base + (m % Base)
    <3>1. k + 1 \in 1..bytes /\ k + 1 \in 0..Len(bs)
      BY <1>3
    <3> QED
      BY <1>2, <1>4, <3>1 DEF Sums
  <2>4. m \in Nat
    BY <1>1, <2>1
  <2>5. (m \div Base) * Base + (m % Base) = m
    BY <2>4, PowType
  <2> QED
    BY <2>2, <2>3, <2>5
<1> HIDE DEF T
<1>7. \A k \in Nat : k \in T
  BY <1>5, <1>6, Induction
<1>8. u[bytes] = n \div Pow[0]
  BY <1>7 DEF T
<1>9. n \div Pow[0] = n
  BY <1>1, PowEquation
<1> QED
  BY <1>4, <1>8, <1>9 DEF n, bs

-----------------------------------------------------------------------------
(* The order of the bytes *)

\* The cases of Source, by the place of k in a block of four.
LEMMA SourceCases ==
  ASSUME NEW n \in Nat, NEW q \in Nat, NEW r \in 0..3, 4 * q + r < n,
         NEW b \in BOOLEAN, NEW w \in BOOLEAN
  PROVE  LET k == 4 * q + r  s == Source(n, k, b, w) IN
         /\ 4 * q + 4 <= n =>
              s = 4 * q + (IF w THEN (IF r \in {0, 1} THEN 2 ELSE 0)
                                ELSE (IF r \in {0, 1} THEN 0 ELSE 2))
                  + (IF b THEN (IF r \in {0, 2} THEN 0 ELSE 1)
                          ELSE (IF r \in {0, 2} THEN 1 ELSE 0))
         /\ 4 * q + 4 > n /\ r \in {0, 1} /\ 4 * q + 2 <= n =>
              s = 4 * q + (IF b THEN r ELSE 1 - r)
         /\ 4 * q + 4 > n /\ ~(r \in {0, 1} /\ 4 * q + 2 <= n) => s = k
<1> DEFINE k == 4 * q + r
<1>1. k \in Nat /\ k \div 4 = q /\ k \div 2 = 2 * q + (IF r \in {0, 1} THEN 0 ELSE 1)
  OBVIOUS
<1> DEFINE four == 4 * q
           two  == 4 * q + (IF r \in {0, 1} THEN 0 ELSE 2)
           word == IF r \in {0, 1} THEN 0 ELSE 1
           off  == IF r \in {0, 2} THEN 0 ELSE 1
<1>2. (k \div 4) * 4 = four /\ (k \div 2) * 2 = two
  BY <1>1
<1>3. (two - four) \div 2 = word /\ k - two = off
  OBVIOUS
<1> DEFINE pos == IF b THEN off ELSE 1 - off
<1>4. Source(n, k, b, w) =
        CASE four + 4 <= n -> four + 2 * (IF w THEN 1 - word ELSE word) + pos
          [] four + 4 > n /\ two + 2 <= n -> two + pos
          [] OTHER -> k
  <2> HIDE DEF k, four, two, word, off
  <2> QED
    BY <1>2, <1>3 DEF Source
<1>5. CASE four + 4 <= n
  <2>1. Source(n, k, b, w) = four + 2 * (IF w THEN 1 - word ELSE word) + pos
    <3>1. four \in Int /\ two \in Int
      OBVIOUS
    <3> HIDE DEF k, four, two, word, pos
    <3> QED
      BY <1>4, <1>5, <3>1
  <2>2. 2 * (IF w THEN 1 - word ELSE word) = IF w THEN (IF r \in {0, 1} THEN 2 ELSE 0)
                                                ELSE (IF r \in {0, 1} THEN 0 ELSE 2)
    OBVIOUS
  <2> QED
    BY <1>5, <2>1, <2>2
<1>6. CASE four + 4 > n
  BY <1>4, <1>6
<1> QED
  BY <1>5, <1>6

\* It is a byte of the string.
LEMMA SourceInRange ==
  ASSUME NEW n \in Nat, NEW k \in Nat, k < n, NEW b \in BOOLEAN, NEW w \in BOOLEAN
  PROVE  Source(n, k, b, w) \in Nat /\ Source(n, k, b, w) < n
<1> DEFINE q == k \div 4
           r == k % 4
<1>1. q \in Nat /\ r \in 0..3 /\ k = 4 * q + r
  OBVIOUS
<1> HIDE DEF q, r
<1> QED
  BY <1>1, SourceCases

\* hex2bin exchanges the bytes of a register.
Other(k) == IF k % 2 = 0 THEN k + 1 ELSE k - 1

\* The order in a command and that in a response are inverse, for registers.
LEMMA SourceBack ==
  ASSUME NEW n \in Nat, n % 2 = 0, NEW k \in Nat, k < n,
         NEW b \in BOOLEAN, NEW c \in BOOLEAN, NEW w \in BOOLEAN, c <=> ~b,
         NEW s, s = Source(n, k, b, w)
  PROVE  /\ s \in Nat /\ Other(s) \in Nat /\ s < n /\ Other(s) < n
         /\ Source(n, Other(s), c, w) = k
         /\ ~b /\ ~w => Other(s) = k
<1>0. (b => ~c) /\ (~b => c)
  OBVIOUS
<1> DEFINE q == k \div 4
           r == k % 4
           h == n \div 2
<1>1. q \in Nat /\ r \in 0..3 /\ k = 4 * q + r /\ h \in Nat /\ n = 2 * h
  OBVIOUS
<1> HIDE DEF q, r, h
<1>2. \A x \in Nat : \A y \in 0..3 :
        Other(4 * x + y) = 4 * x + (IF y \in {0, 2} THEN y + 1 ELSE y - 1)
  BY DEF Other
<1>3. \E y \in 0..3 : /\ s = 4 * q + y /\ 4 * q + y < n
                      /\ Source(n, Other(s), c, w) = k
                      /\ ~b /\ ~w => Other(s) = k
  <2>1. CASE 4 * q + 4 <= n
    <3> DEFINE y == (IF w THEN (IF r \in {0, 1} THEN 2 ELSE 0)
                          ELSE (IF r \in {0, 1} THEN 0 ELSE 2))
                    + (IF b THEN (IF r \in {0, 2} THEN 0 ELSE 1)
                            ELSE (IF r \in {0, 2} THEN 1 ELSE 0))
               z == IF y \in {0, 2} THEN y + 1 ELSE y - 1
    <3>1. s = 4 * q + y /\ y \in 0..3 /\ z \in 0..3 /\ 4 * q + y < n
      BY <1>1, <2>1, SourceCases
    <3>2. Other(s) = 4 * q + z
      <4> HIDE DEF y
      <4> QED
        BY <1>1, <1>2, <3>1
    <3>3. 4 * q + z < n
      BY <1>1, <2>1, <3>1
    <3>4. Source(n, 4 * q + z, c, w)
            = 4 * q + (IF w THEN (IF z \in {0, 1} THEN 2 ELSE 0)
                            ELSE (IF z \in {0, 1} THEN 0 ELSE 2))
                    + (IF c THEN (IF z \in {0, 2} THEN 0 ELSE 1)
                             ELSE (IF z \in {0, 2} THEN 1 ELSE 0))
      <4> HIDE DEF z
      <4> QED
        BY <1>1, <2>1, <3>1, <3>3, SourceCases
    <3>5. Source(n, 4 * q + z, c, w) = k
      BY <1>0, <1>1, <3>4
    <3>6. ~b /\ ~w => z = r
      BY <1>1
    <3> HIDE DEF y, z
    <3> QED
      BY <1>1, <3>1, <3>2, <3>5, <3>6
  <2>2. CASE 4 * q + 4 > n
    <3>1. n = 4 * q + 2 /\ r \in {0, 1}
      BY <1>1, <2>2
    <3> DEFINE y == IF b THEN r ELSE 1 - r
    <3>2. s = 4 * q + y /\ y \in {0, 1} /\ 4 * q + y < n
      BY <1>1, <2>2, <3>1, SourceCases
    <3>3. Other(s) = 4 * q + (1 - y)
      <4> HIDE DEF y
      <4> QED
        BY <1>1, <1>2, <3>2
    <3>4. 1 - y \in {0, 1} /\ 4 * q + (1 - y) < n
      BY <1>1, <3>1, <3>2
    <3>5. Source(n, 4 * q + (1 - y), c, w) = 4 * q + (IF c THEN 1 - y ELSE 1 - (1 - y))
      <4> HIDE DEF y
      <4> QED
        BY <1>1, <2>2, <3>1, <3>2, <3>4, SourceCases
    <3>6. (IF c THEN 1 - y ELSE 1 - (1 - y)) = r /\ (~b => 1 - y = r)
      BY <1>0, <3>1
    <3> HIDE DEF y
    <3> QED
      BY <1>1, <3>1, <3>2, <3>3, <3>5, <3>6
  <2> QED
    BY <1>1, <2>1, <2>2
<1>4. \A y \in 0..3 : 4 * q + y < n =>
        Other(4 * q + y) \in Nat /\ Other(4 * q + y) < n
  BY <1>1, <1>2
<1> QED
  BY <1>1, <1>3, <1>4

\* Swap takes each byte from there.
LEMMA SwapType ==
  ASSUME NEW bs \in Seq(Byte), NEW b \in BOOLEAN, NEW w \in BOOLEAN
  PROVE  /\ Swap(bs, b, w) \in Seq(Byte) /\ Len(Swap(bs, b, w)) = Len(bs)
         /\ \A i \in 1..Len(bs) : Swap(bs, b, w)[i] = bs[Source(Len(bs), i - 1, b, w) + 1]
<1> DEFINE n == Len(bs)
<1>1. Swap(bs, b, w) = [i \in 1..n |-> bs[Source(n, i - 1, b, w) + 1]]
  BY DEF Swap
<1>2. n \in Nat /\ \A i \in 1..n : bs[i] \in Byte
  OBVIOUS
<1>3. \A i \in 1..n : bs[Source(n, i - 1, b, w) + 1] \in Byte
  <2> TAKE i \in 1..n
  <2>1. Source(n, i - 1, b, w) \in Nat /\ Source(n, i - 1, b, w) < n
    <3>1. i - 1 \in Nat /\ i - 1 < n
      BY <1>2
    <3> HIDE DEF n
    <3> QED
      BY <1>2, <3>1, SourceInRange
  <2>2. Source(n, i - 1, b, w) + 1 \in 1..n
    <3> HIDE DEF n
    <3> QED
      BY <1>2, <2>1
  <2> QED
    BY <1>2, <2>2
<1> HIDE DEF n
<1>4. Swap(bs, b, w) \in Seq(Byte) /\ Len(Swap(bs, b, w)) = n
  BY <1>1, <1>2, <1>3
<1> QED
  BY <1>1, <1>4 DEF n

\* So does hex2bin.
LEMMA BinType ==
  ASSUME NEW bs \in Seq(Byte), Len(bs) % 2 = 0
  PROVE  LET h == HexToBin(bs, Len(bs)) IN
         /\ h.kind = "data" /\ h.bytes \in Seq(Byte) /\ Len(h.bytes) = Len(bs)
         /\ \A i \in 1..Len(bs) : h.bytes[i] = bs[Other(i - 1) + 1]
<1> DEFINE n == Len(bs)
           f == [i \in 1..n |-> IF i % 2 = 0 THEN bs[i - 1] ELSE IF i < n THEN bs[i + 1] ELSE bs[i]]
<1>1. HexToBin(bs, n) = [kind |-> "data", bytes |-> f]
  BY DEF HexToBin
<1>2. n \in Nat /\ n % 2 = 0 /\ \A i \in 1..n : bs[i] \in Byte
  OBVIOUS
<1>3. \A i \in 1..n : Other(i - 1) + 1 \in 1..n /\ f[i] = bs[Other(i - 1) + 1]
  <2> HIDE DEF n
  <2> TAKE i \in 1..n
  <2>1. CASE i % 2 = 0
    <3>1. (i - 1) % 2 # 0 /\ i - 1 \in 1..n
      BY <1>2, <2>1
    <3>2. Other(i - 1) + 1 = i - 1
      BY <1>2, <3>1 DEF Other
    <3> QED
      BY <2>1, <3>1, <3>2
  <2>2. CASE i % 2 # 0
    <3>1. (i - 1) % 2 = 0 /\ i < n /\ i + 1 \in 1..n
      BY <1>2, <2>2
    <3>2. Other(i - 1) + 1 = i + 1
      BY <1>2, <3>1 DEF Other
    <3> QED
      BY <2>2, <3>1, <3>2
  <2> QED
    BY <2>1, <2>2
<1>4. f \in Seq(Byte) /\ Len(f) = n
  <2>1. f = [i \in 1..n |-> f[i]] /\ \A i \in 1..n : f[i] \in Byte
    <3>1. \A i \in 1..n : f[i] \in Byte
      <4> HIDE DEF f, n
      <4> QED
        BY <1>2, <1>3
    <3> QED
      BY <3>1
  <2> HIDE DEF f, n
  <2> QED
    BY <1>2, <2>1
<1> HIDE DEF f
<1> QED
  BY <1>1, <1>3, <1>4

\* The byte of the registers that a response has as byte k, and the byte of a command that is
\* byte k before hex2bin.
FromDevice(p, n, k) == Source(n, k, p.byteSwap, p.wordSwap)
FromCommand(p, n, k) ==
  IF p.byteSwap \/ p.wordSwap THEN Source(n, k, ~p.byteSwap, p.wordSwap) ELSE k

\* Byte k of a response is byte s of the registers, which is byte k of the command.
Inverse(p, n, k, s) ==
  /\ s \in Nat /\ Other(s) \in Nat /\ s < n /\ Other(s) < n
  /\ FromCommand(p, n, Other(s)) = k

LEMMA OrdersInverse ==
  ASSUME NEW p \in PointConfig, NEW n \in Nat, n % 2 = 0, NEW k \in Nat, k < n,
         NEW s, s = FromDevice(p, n, k)
  PROVE  Inverse(p, n, k, s)
<1>1. p.byteSwap \in BOOLEAN /\ p.wordSwap \in BOOLEAN
  BY DEF PointConfig
<1>2. PICK b \in BOOLEAN : b = p.byteSwap
  BY <1>1, Zenon
<1>3. PICK w \in BOOLEAN : w = p.wordSwap
  BY <1>1, Zenon
<1>4. PICK c \in BOOLEAN : c = ~b
  OBVIOUS
<1>5. s = Source(n, k, b, w) /\ (c <=> ~b)
  BY <1>2, <1>3, <1>4, Zenon DEF FromDevice
<1>6. /\ s \in Nat /\ Other(s) \in Nat /\ s < n /\ Other(s) < n
      /\ Source(n, Other(s), c, w) = k
      /\ ~b /\ ~w => Other(s) = k
  BY <1>5, SourceBack, SMT
<1>7. FromCommand(p, n, Other(s)) = IF b \/ w THEN Source(n, Other(s), c, w) ELSE Other(s)
  BY <1>2, <1>3, <1>4, Zenon DEF FromCommand
<1> QED
  BY <1>6, <1>7, Zenon DEF Inverse

LEMMA ReadOrder ==
  ASSUME NEW bs \in Seq(Byte), NEW p \in PointConfig
  PROVE  LET r == Swap(bs, p.byteSwap, p.wordSwap) IN
         /\ r \in Seq(Byte) /\ Len(r) = Len(bs)
         /\ \A i \in 1..Len(bs) : r[i] = bs[FromDevice(p, Len(bs), i - 1) + 1]
<1>1. p.byteSwap \in BOOLEAN /\ p.wordSwap \in BOOLEAN
  BY DEF PointConfig
<1> QED
  BY <1>1, SwapType, Zenon DEF FromDevice

LEMMA WriteOrder ==
  ASSUME NEW bs \in Seq(Byte), NEW p \in PointConfig
  PROVE  LET r == SwapForWrite(bs, p) IN
         /\ r \in Seq(Byte) /\ Len(r) = Len(bs)
         /\ \A i \in 1..Len(bs) : r[i] = bs[FromCommand(p, Len(bs), i - 1) + 1]
<1>1. PICK c \in BOOLEAN, w \in BOOLEAN : c = ~p.byteSwap /\ w = p.wordSwap
  BY DEF PointConfig
<1>2. CASE p.byteSwap \/ p.wordSwap
  <2>1. SwapForWrite(bs, p) = Swap(bs, c, w)
    BY <1>1, <1>2, Zenon DEF SwapForWrite
  <2>2. \A k : FromCommand(p, Len(bs), k) = Source(Len(bs), k, c, w)
    BY <1>1, <1>2, Zenon DEF FromCommand
  <2>3. /\ Swap(bs, c, w) \in Seq(Byte) /\ Len(Swap(bs, c, w)) = Len(bs)
        /\ \A i \in 1..Len(bs) : Swap(bs, c, w)[i] = bs[Source(Len(bs), i - 1, c, w) + 1]
    BY SwapType, Zenon
  <2> QED
    BY <2>1, <2>2, <2>3, Zenon
<1>3. CASE ~(p.byteSwap \/ p.wordSwap)
  <2>1. SwapForWrite(bs, p) = bs
    BY <1>3, Zenon DEF SwapForWrite
  <2>2. \A k : FromCommand(p, Len(bs), k) = k
    BY <1>3, Zenon DEF FromCommand
  <2> QED
    BY <2>1, <2>2
<1> QED
  BY <1>2, <1>3

\* What is written in registers is read as it was commanded.
LEMMA SwapBack ==
  ASSUME NEW bs \in Seq(Byte), Len(bs) % 2 = 0, NEW p \in PointConfig
  PROVE  LET h == HexToBin(SwapForWrite(bs, p), Len(bs)) IN
         /\ h.kind = "data" /\ h.bytes \in Seq(Byte) /\ Len(h.bytes) = Len(bs)
         /\ Swap(h.bytes, p.byteSwap, p.wordSwap) = bs
<1> DEFINE n == Len(bs)
           sw == SwapForWrite(bs, p)
           h == HexToBin(sw, n)
<1>1. n \in Nat /\ n % 2 = 0
  OBVIOUS
<1>2. /\ sw \in Seq(Byte) /\ Len(sw) = n
      /\ \A i \in 1..n : sw[i] = bs[FromCommand(p, n, i - 1) + 1]
  BY WriteOrder
<1> HIDE DEF sw
<1>3. /\ h.kind = "data" /\ h.bytes \in Seq(Byte) /\ Len(h.bytes) = n
      /\ \A i \in 1..n : h.bytes[i] = sw[Other(i - 1) + 1]
  BY <1>2, BinType
<1> HIDE DEF h
<1> DEFINE r == Swap(h.bytes, p.byteSwap, p.wordSwap)
<1>4. /\ r \in Seq(Byte) /\ Len(r) = n
      /\ \A i \in 1..n : r[i] = h.bytes[FromDevice(p, n, i - 1) + 1]
  BY <1>3, ReadOrder
<1> HIDE DEF r
<1>5. ASSUME NEW i \in 1..n PROVE r[i] = bs[i]
  <2>1. PICK k \in Nat : k = i - 1 /\ k < n
    BY <1>1
  <2>2. PICK s : s = FromDevice(p, n, k)
    OBVIOUS
  <2>3. /\ s \in Nat /\ Other(s) \in Nat /\ s < n /\ Other(s) < n
        /\ FromCommand(p, n, Other(s)) = k
    <3>1. Inverse(p, n, k, s)
      <4> HIDE DEF n
      <4> QED
        BY <1>1, <2>1, <2>2, OrdersInverse, Zenon
    <3> QED
      BY <3>1, Zenon DEF Inverse
  <2>4. r[i] = h.bytes[s + 1]
    BY <1>4, <2>1, <2>2
  <2>5. s + 1 \in 1..n /\ (s + 1) - 1 = s
    BY <1>1, <2>3
  <2>6. Other(s) + 1 \in 1..n /\ (Other(s) + 1) - 1 = Other(s)
    BY <1>1, <2>3
  <2>7. h.bytes[s + 1] = sw[Other(s) + 1]
    BY <1>3, <2>5
  <2>8. sw[Other(s) + 1] = bs[k + 1]
    BY <1>2, <2>3, <2>6
  <2> QED
    BY <2>1, <2>4, <2>7, <2>8
<1>6. r = bs
  BY <1>1, <1>4, <1>5
<1> QED
  BY <1>3, <1>6 DEF h, sw, r

-----------------------------------------------------------------------------
(* The number in the device *)

\* Powers that are used.
LEMMA Powers ==
  /\ Pow[0] = 1 /\ Pow[1] = Base /\ Pow[2] = Base * Base
  /\ Pow[4] = Pow[2] * Pow[2] /\ Pow[6] = Pow[4] * Pow[2] /\ Pow[8] = Pow[6] * Pow[2]
<1>1. Pow[0] = 1 /\ Pow[0 + 1] = Base * Pow[0]
  BY PowEquation
<1>2. \A k \in Nat : Pow[k + 2] = Pow[k] * (Base * Base)
  <2> TAKE k \in Nat
  <2>1. Pow[k + 1] = Base * Pow[k] /\ Pow[(k + 1) + 1] = Base * Pow[k + 1]
    BY PowEquation
  <2>2. (k + 1) + 1 = k + 2
    OBVIOUS
  <2>3. Base \in Nat /\ Pow[k] \in Nat
    BY PowType
  <2> QED
    BY <2>1, <2>2, <2>3
<1>3. Base \in Nat
  BY PowType
<1>4. Pow[0 + 2] = 1 * (Base * Base) /\ Pow[2 + 2] = Pow[2] * (Base * Base)
  BY <1>1, <1>2
<1>5. Pow[4 + 2] = Pow[4] * (Base * Base) /\ Pow[6 + 2] = Pow[6] * (Base * Base)
  BY <1>2
<1> QED
  BY <1>1, <1>3, <1>4, <1>5

\* The place of a register among those of the number.
Pos(i) ==
  IF ~point.wordSwap \/ (i = point.width /\ point.width % 2 = 1) THEN i
  ELSE IF i % 2 = 1 THEN i + 1 ELSE i - 1

\* Partial sums of the function that InDevice defines.
TermsUpTo(u, n) ==
  u = [i \in 0..n |-> IF i = 0 THEN 0 ELSE u[i - 1] + Register(i) * Significance(i)]

LEMMA TermsExist ==
  ASSUME NEW n \in Nat
  PROVE  \E u : TermsUpTo(u, n)
<1> DEFINE T == {m \in Nat : \E u : TermsUpTo(u, m)}
<1>1. 0 \in T
  <2>1. TermsUpTo([i \in 0..0 |-> 0], 0)
    BY DEF TermsUpTo
  <2> QED
    BY <2>1
<1>2. ASSUME NEW m \in Nat, m \in T PROVE m + 1 \in T
  <2>1. PICK u : TermsUpTo(u, m)
    BY <1>2
  <2> DEFINE v == [i \in 0..(m + 1) |-> IF i = m + 1 THEN u[m] + Register(i) * Significance(i)
                                       ELSE u[i]]
  <2>2. \A i \in 0..m : u[i] = IF i = 0 THEN 0 ELSE u[i - 1] + Register(i) * Significance(i)
    BY <2>1 DEF TermsUpTo
  <2>3. \A i \in 0..(m + 1) :
          v[i] = IF i = 0 THEN 0 ELSE v[i - 1] + Register(i) * Significance(i)
    BY <2>2
  <2>4. TermsUpTo(v, m + 1)
    BY <2>3 DEF TermsUpTo
  <2> QED
    BY <2>4
<1> HIDE DEF T
<1>3. n \in T
  BY <1>1, <1>2, Induction
<1> QED
  BY <1>3 DEF T

\* What InDevice computes.
LEMMA DeviceTerms ==
  ASSUME point.width \in Nat, ~point.coil
  PROVE  \E u : /\ \A i \in 0..point.width :
                     u[i] = IF i = 0 THEN 0 ELSE u[i - 1] + Register(i) * Significance(i)
                /\ InDevice = LET n == u[point.width]
                              IN IF point.type # "uint" /\ n > High("int", 2 * point.width)
                                 THEN n - Pow[2 * point.width] ELSE n
<1> DEFINE U == CHOOSE u : u = [i \in 0..point.width |-> IF i = 0 THEN 0
                                  ELSE u[i - 1] + Register(i) * Significance(i)]
<1>1. InDevice = LET n == U[point.width]
                 IN IF point.type # "uint" /\ n > High("int", 2 * point.width)
                    THEN n - Pow[2 * point.width] ELSE n
  BY Zenon DEF InDevice
<1>2. U = [i \in 0..point.width |-> IF i = 0 THEN 0
             ELSE U[i - 1] + Register(i) * Significance(i)]
  BY TermsExist, Zenon DEF TermsUpTo
<1> HIDE DEF U
<1>3. \A i \in 0..point.width :
        U[i] = IF i = 0 THEN 0 ELSE U[i - 1] + Register(i) * Significance(i)
  BY <1>2
<1> QED
  BY <1>1, <1>3, Zenon

\* The significance of a register is that of its place.
LEMMA SignificanceIs ==
  ASSUME NEW i
  PROVE  Significance(i) = Pow[2 * (point.width - Pos(i))]
  BY Zenon DEF Significance, Pos

\* Where the two bytes of register j of a response come from: from the register at its
\* place.
PairFrom(m, j, b, w, i) ==
  /\ i \in 1..m
  /\ Source(2 * m, 2 * j - 2, b, w) = 2 * i - 2 + (IF b THEN 0 ELSE 1)
  /\ Source(2 * m, 2 * j - 1, b, w) = 2 * i - 2 + (IF b THEN 1 ELSE 0)

LEMMA SourceOfPair ==
  ASSUME NEW m \in Nat, NEW j \in 1..m, NEW b \in BOOLEAN, NEW w \in BOOLEAN, NEW i,
         i = IF ~w \/ (j = m /\ m % 2 = 1) THEN j ELSE IF j % 2 = 1 THEN j + 1 ELSE j - 1
  PROVE  PairFrom(m, j, b, w, i)
<1> USE DEF PairFrom
<1>1. i \in 1..m
  OBVIOUS
<1>2. CASE j % 2 = 1
  <2>1. PICK q \in Nat : j = 2 * q + 1
    <3>1. (j - 1) \div 2 \in Nat /\ j = 2 * ((j - 1) \div 2) + 1
      BY <1>2
    <3> QED
      BY <3>1
  <2>2. 2 * j - 2 = 4 * q + 0 /\ 2 * j - 1 = 4 * q + 1 /\ 4 * q + 1 < 2 * m /\ 2 * m \in Nat
    BY <2>1
  <2>3. CASE j = m
    <3>1. i = j
      BY <1>2, <2>3
    <3>2. 4 * q + 4 > 2 * m /\ 4 * q + 2 <= 2 * m
      BY <2>1, <2>3
    <3>3. /\ Source(2 * m, 4 * q + 0, b, w) = 4 * q + (IF b THEN 0 ELSE 1 - 0)
          /\ Source(2 * m, 4 * q + 1, b, w) = 4 * q + (IF b THEN 1 ELSE 1 - 1)
      BY <2>2, <3>2, SourceCases
    <3> QED
      BY <1>1, <2>1, <2>2, <3>1, <3>3
  <2>4. CASE j # m
    <3>1. 4 * q + 4 <= 2 * m
      BY <2>1, <2>4
    <3>2. /\ Source(2 * m, 4 * q + 0, b, w)
               = 4 * q + (IF w THEN 2 ELSE 0) + (IF b THEN 0 ELSE 1)
          /\ Source(2 * m, 4 * q + 1, b, w)
               = 4 * q + (IF w THEN 2 ELSE 0) + (IF b THEN 1 ELSE 0)
      BY <2>2, <3>1, SourceCases
    <3>3. 2 * i - 2 = 4 * q + (IF w THEN 2 ELSE 0)
      BY <1>2, <2>1, <2>4
    <3> QED
      BY <1>1, <2>2, <3>2, <3>3
  <2> QED
    BY <2>3, <2>4
<1>3. CASE j % 2 # 1
  <2>1. PICK q \in Nat : j = 2 * q + 2
    <3>1. j \div 2 - 1 \in Nat /\ j = 2 * (j \div 2 - 1) + 2
      BY <1>3
    <3> QED
      BY <3>1
  <2>2. 2 * j - 2 = 4 * q + 2 /\ 2 * j - 1 = 4 * q + 3 /\ 4 * q + 3 < 2 * m /\ 2 * m \in Nat
    BY <2>1
  <2>3. 4 * q + 4 <= 2 * m
    BY <2>1
  <2>4. /\ Source(2 * m, 4 * q + 2, b, w)
             = 4 * q + (IF w THEN 0 ELSE 2) + (IF b THEN 0 ELSE 1)
        /\ Source(2 * m, 4 * q + 3, b, w)
             = 4 * q + (IF w THEN 0 ELSE 2) + (IF b THEN 1 ELSE 0)
    BY <2>2, <2>3, SourceCases
  <2>5. 2 * i - 2 = 4 * q + (IF w THEN 0 ELSE 2)
    BY <1>3, <2>1
  <2> QED
    BY <1>1, <2>2, <2>4, <2>5
<1> QED
  BY <1>2, <1>3

\* Register j of a response, as a number, is the one at its place in the device.
LEMMA RegisterOfPair ==
  ASSUME point \in PointConfig, regs \in Seq(Byte), Len(regs) = 2 * point.width,
         NEW j \in 1..point.width,
         NEW hs, hs = Swap(regs, point.byteSwap, point.wordSwap)
  PROVE  /\ Pos(j) \in 1..point.width
         /\ hs[2 * j - 1] \in Byte /\ hs[2 * j] \in Byte
         /\ Register(Pos(j)) = hs[2 * j - 1] * Base + hs[2 * j]
<1> DEFINE n == Len(regs)
<1>0. PICK i : i = Pos(j)
  OBVIOUS
<1>1. PICK b \in BOOLEAN, w \in BOOLEAN, m \in Nat \ {0} :
        b = point.byteSwap /\ w = point.wordSwap /\ m = point.width /\ i = Pos(j)
  BY <1>0 DEF PointConfig
<1>2. i = IF ~w \/ (j = m /\ m % 2 = 1) THEN j ELSE IF j % 2 = 1 THEN j + 1 ELSE j - 1
  BY <1>1, Zenon DEF Pos
<1>3. j \in 1..m
  BY <1>1
<1>4. /\ i \in 1..m
      /\ Source(2 * m, 2 * j - 2, b, w) = 2 * i - 2 + (IF b THEN 0 ELSE 1)
      /\ Source(2 * m, 2 * j - 1, b, w) = 2 * i - 2 + (IF b THEN 1 ELSE 0)
  <2>1. m \in Nat
    OBVIOUS
  <2>2. PairFrom(m, j, b, w, i)
    BY <1>2, <1>3, <2>1, SourceOfPair, Zenon
  <2> QED
    BY <2>2 DEF PairFrom
<1>5. /\ hs \in Seq(Byte) /\ Len(hs) = 2 * m
      /\ \A k \in 1..(2 * m) : hs[k] = regs[FromDevice(point, 2 * m, k - 1) + 1]
  BY <1>1, ReadOrder
<1>6. \A k : FromDevice(point, 2 * m, k) = Source(2 * m, k, b, w)
  BY <1>1, Zenon DEF FromDevice
<1>7. /\ 2 * j - 1 \in 1..(2 * m) /\ 2 * j \in 1..(2 * m)
      /\ (2 * j - 1) - 1 = 2 * j - 2
  BY <1>3
<1>8. hs[2 * j - 1] = regs[2 * i - 2 + (IF b THEN 0 ELSE 1) + 1]
  BY <1>4, <1>5, <1>6, <1>7
<1>9. hs[2 * j] = regs[2 * i - 2 + (IF b THEN 1 ELSE 0) + 1]
  BY <1>4, <1>5, <1>6, <1>7
<1>10. Register(i) = IF b THEN regs[2 * i - 1] * Base + regs[2 * i]
                     ELSE regs[2 * i] * Base + regs[2 * i - 1]
  BY <1>1, Zenon DEF Register
<1>11. hs[2 * j - 1] \in Byte /\ hs[2 * j] \in Byte
  BY <1>5, <1>7
<1>12. CASE b
  <2>1. 2 * i - 2 + 0 + 1 = 2 * i - 1 /\ 2 * i - 2 + 1 + 1 = 2 * i
    BY <1>4
  <2> QED
    BY <1>1, <1>4, <1>8, <1>9, <1>10, <1>11, <1>12, <2>1
<1>13. CASE ~b
  <2>1. 2 * i - 2 + 0 + 1 = 2 * i - 1 /\ 2 * i - 2 + 1 + 1 = 2 * i
    BY <1>4
  <2> QED
    BY <1>1, <1>4, <1>8, <1>9, <1>10, <1>11, <1>13, <2>1
<1> QED
  BY <1>12, <1>13

\* The sums of the bytes, register by register.
LEMMA SumsOfPairs ==
  ASSUME NEW bs \in Seq(Byte), NEW u, Sums(u, bs), NEW j \in Nat, 2 * j + 2 <= Len(bs)
  PROVE  /\ u[0] = 0
         /\ u[2 * j + 2] = u[2 * j] * Pow[2] + (bs[2 * j + 1] * Base + bs[2 * j + 2])
<1>1. 0 \in 0..Len(bs) /\ 2 * j \in 0..Len(bs) /\ 2 * j + 1 \in 0..Len(bs)
      /\ 2 * j + 2 \in 0..Len(bs)
  OBVIOUS
<1>2. u[0] = 0
  BY <1>1 DEF Sums
<1>3. u[2 * j + 1] = u[2 * j] * Base + bs[2 * j + 1]
  <2>1. 2 * j + 1 # 0 /\ (2 * j + 1) - 1 = 2 * j
    OBVIOUS
  <2> QED
    BY <1>1, <2>1 DEF Sums
<1>4. u[2 * j + 2] = u[2 * j + 1] * Base + bs[2 * j + 2]
  <2>1. 2 * j + 2 # 0 /\ (2 * j + 2) - 1 = 2 * j + 1
    OBVIOUS
  <2> QED
    BY <1>1, <2>1 DEF Sums
<1>5. u[2 * j] \in Nat
  BY <1>1, SumsRange
<1>6. bs[2 * j + 1] \in Nat /\ bs[2 * j + 2] \in Nat /\ Base \in Nat
  BY PowType DEF Byte
<1>7. PICK x \in Nat, y \in Nat, z \in Nat, b \in Nat :
        x = u[2 * j] /\ y = bs[2 * j + 1] /\ z = bs[2 * j + 2] /\ b = Base
  BY <1>5, <1>6, Zenon
<1>8. (u[2 * j] * Base + bs[2 * j + 1]) * Base + bs[2 * j + 2]
        = u[2 * j] * (Base * Base) + (bs[2 * j + 1] * Base + bs[2 * j + 2])
  <2>1. (x * b + y) * b + z = x * (b * b) + (y * b + z)
    OBVIOUS
  <2> QED
    BY <1>7, <2>1, Zenon
<1>9. u[2 * j + 2] = (u[2 * j] * Base + bs[2 * j + 1]) * Base + bs[2 * j + 2]
  BY <1>3, <1>4, Zenon
<1> QED
  BY <1>2, <1>8, <1>9, Powers, Zenon

\* The bytes of a response, as a number, are the sum of the registers by their
\* significance.
LEMMA DeviceNumber ==
  ASSUME point \in PointConfig, regs \in Seq(Byte), Len(regs) = 2 * point.width,
         ~point.coil, point.width \in {1, 2, 4}
  PROVE  LET n == Unsigned(Swap(regs, point.byteSwap, point.wordSwap)) IN
         InDevice = IF point.type # "uint" /\ n > High("int", 2 * point.width)
                    THEN n - Pow[2 * point.width] ELSE n
<1>1. PICK hs : hs = Swap(regs, point.byteSwap, point.wordSwap)
  OBVIOUS
<1>2. hs \in Seq(Byte) /\ Len(hs) = 2 * point.width
  BY <1>1, ReadOrder
<1>3. PICK u : Sums(u, hs) /\ Unsigned(hs) = u[2 * point.width]
  BY <1>2, UnsignedSums
<1>4. PICK v :
        /\ \A i \in 0..point.width :
             v[i] = IF i = 0 THEN 0 ELSE v[i - 1] + Register(i) * Significance(i)
        /\ InDevice = LET n == v[point.width]
                      IN IF point.type # "uint" /\ n > High("int", 2 * point.width)
                         THEN n - Pow[2 * point.width] ELSE n
  BY DeviceTerms
<1> DEFINE V(j) == hs[2 * j - 1] * Base + hs[2 * j]
           P == Pow[2]
<1>5. P \in Nat /\ Base \in Nat
  BY PowType
<1>6. \A j \in 1..point.width : /\ V(j) \in Nat
                                /\ Register(Pos(j)) = V(j)
  <2> TAKE j \in 1..point.width
  <2>1. hs[2 * j - 1] \in Byte /\ hs[2 * j] \in Byte /\ Register(Pos(j)) = V(j)
    BY <1>1, RegisterOfPair
  <2>2. hs[2 * j - 1] \in Nat /\ hs[2 * j] \in Nat
    BY <1>5, <2>1 DEF Byte
  <2>3. PICK x \in Nat, y \in Nat, b \in Nat : x = hs[2 * j - 1] /\ y = hs[2 * j] /\ b = Base
    BY <1>5, <2>2, Zenon
  <2>4. x * b + y \in Nat
    OBVIOUS
  <2> QED
    BY <2>1, <2>3, <2>4, Zenon
<1>7. \A i \in 0..point.width :
        v[i] = IF i = 0 THEN 0 ELSE v[i - 1] + Register(i) * Pow[2 * (point.width - Pos(i))]
  BY <1>4, SignificanceIs
<1>8. u[0] = 0 /\ \A j \in 1..point.width : u[2 * j] = u[2 * j - 2] * P + V(j)
  <2>1. ASSUME NEW j \in 1..point.width
        PROVE  u[0] = 0 /\ u[2 * j] = u[2 * j - 2] * P + V(j)
    <3>1. PICK i \in Nat : i = j - 1
      BY DEF PointConfig
    <3>2. 2 * i + 2 <= Len(hs)
      BY <1>2, <3>1
    <3>3. u[0] = 0 /\ u[2 * i + 2] = u[2 * i] * Pow[2] + (hs[2 * i + 1] * Base + hs[2 * i + 2])
      BY <1>2, <1>3, <3>2, SumsOfPairs
    <3>4. 2 * i + 2 = 2 * j /\ 2 * i = 2 * j - 2 /\ 2 * i + 1 = 2 * j - 1
      BY <3>1
    <3> QED
      BY <3>3, <3>4
  <2>2. 1 \in 1..point.width
    OBVIOUS
  <2> QED
    BY <2>1, <2>2
<1> HIDE DEF V, P
<1>9. u[2 * point.width] = v[point.width]
  <2>1. CASE point.width = 1
    <3>1. Pos(1) = 1
      BY <2>1 DEF Pos
    <3>2. Register(1) = V(1) /\ V(1) \in Nat
      BY <1>6, <2>1, <3>1
    <3>3. v[0] = 0 /\ v[1] = v[0] + V(1) * Pow[0]
      <4>1. 0 \in 0..1 /\ 1 \in 0..1 /\ 2 * (1 - 1) = 0
        OBVIOUS
      <4> QED
        BY <1>7, <2>1, <3>1, <3>2, <4>1
    <3>4. u[0] = 0 /\ u[2 * 1] = u[2 * 1 - 2] * P + V(1)
      BY <1>8, <2>1
    <3> QED
      BY <1>5, <2>1, <3>2, <3>3, <3>4, Powers
  <2>2. CASE point.width = 2
    <3>1. V(1) \in Nat /\ V(2) \in Nat
      BY <1>6, <2>2
    <3>2. u[2] = V(1) /\ u[4] = V(1) * P + V(2)
      <4>1. u[0] = 0 /\ u[2 * 1] = u[2 * 1 - 2] * P + V(1)
        BY <1>8, <2>2
      <4>2. u[2 * 2] = u[2 * 2 - 2] * P + V(2)
        BY <1>8, <2>2
      <4> QED
        BY <1>5, <3>1, <4>1, <4>2
    <3>3. /\ v[0] = 0
          /\ v[1] = v[0] + Register(1) * Pow[2 * (2 - Pos(1))]
          /\ v[2] = v[1] + Register(2) * Pow[2 * (2 - Pos(2))]
      BY <1>7, <2>2
    <3>4. CASE point.wordSwap
      <4>1. Pos(1) = 2 /\ Pos(2) = 1
        BY <2>2, <3>4 DEF Pos
      <4>2. Register(1) = V(2) /\ Register(2) = V(1)
        BY <1>6, <2>2, <4>1
      <4>3. v[2] = V(2) * Pow[0] + V(1) * Pow[2]
        BY <3>1, <3>3, <4>1, <4>2, Powers
      <4> QED
        BY <1>5, <2>2, <3>1, <3>2, <4>3, Powers DEF P
    <3>5. CASE ~point.wordSwap
      <4>1. Pos(1) = 1 /\ Pos(2) = 2
        BY <2>2, <3>5 DEF Pos
      <4>2. Register(1) = V(1) /\ Register(2) = V(2)
        BY <1>6, <2>2, <4>1
      <4>3. v[2] = V(1) * Pow[2] + V(2) * Pow[0]
        BY <1>5, <3>1, <3>3, <4>1, <4>2, Powers DEF P
      <4> QED
        BY <1>5, <2>2, <3>1, <3>2, <4>3, Powers DEF P
    <3> QED
      BY <3>4, <3>5
  <2>3. CASE point.width = 4
    <3>1. V(1) \in Nat /\ V(2) \in Nat /\ V(3) \in Nat /\ V(4) \in Nat
      BY <1>6, <2>3
    <3>2. u[8] = ((V(1) * P + V(2)) * P + V(3)) * P + V(4)
      <4>1. u[0] = 0 /\ u[2 * 1] = u[2 * 1 - 2] * P + V(1)
        BY <1>8, <2>3
      <4>2. u[2 * 2] = u[2 * 2 - 2] * P + V(2)
        BY <1>8, <2>3
      <4>3. u[2 * 3] = u[2 * 3 - 2] * P + V(3)
        BY <1>8, <2>3
      <4>4. u[2 * 4] = u[2 * 4 - 2] * P + V(4)
        BY <1>8, <2>3
      <4>5. u[2] = V(1) /\ u[4] = V(1) * P + V(2)
        BY <1>5, <3>1, <4>1, <4>2
      <4>6. u[6] = (V(1) * P + V(2)) * P + V(3)
        BY <4>3, <4>5
      <4> QED
        BY <4>4, <4>6
    <3>3. u[8] = V(1) * (P * P * P) + V(2) * (P * P) + V(3) * P + V(4)
      <4> HIDE DEF V, P
      <4>1. PICK a \in Nat, b \in Nat, c \in Nat, d \in Nat, p \in Nat :
              a = V(1) /\ b = V(2) /\ c = V(3) /\ d = V(4) /\ p = P
        BY <1>5, <3>1, Zenon
      <4>2. ((a * p + b) * p + c) * p + d = a * (p * p * p) + b * (p * p) + c * p + d
        OBVIOUS
      <4> QED
        BY <3>2, <4>1, <4>2, Zenon
    <3>4. Pow[0] = 1 /\ Pow[4] = P * P /\ Pow[6] = P * P * P
      BY Powers DEF P
    <3>5. /\ v[0] = 0
          /\ v[1] = v[0] + Register(1) * Pow[2 * (4 - Pos(1))]
          /\ v[2] = v[1] + Register(2) * Pow[2 * (4 - Pos(2))]
          /\ v[3] = v[2] + Register(3) * Pow[2 * (4 - Pos(3))]
          /\ v[4] = v[3] + Register(4) * Pow[2 * (4 - Pos(4))]
      BY <1>7, <2>3
    <3>6. PICK a \in Nat, b \in Nat, c \in Nat, d \in Nat :
            /\ a = V(1) * (P * P * P) /\ b = V(2) * (P * P) /\ c = V(3) * P /\ d = V(4)
      <4> HIDE DEF V, P
      <4>1. V(1) * (P * P * P) \in Nat /\ V(2) * (P * P) \in Nat /\ V(3) * P \in Nat
        <5>1. \A x, p \in Nat : x * (p * p * p) \in Nat /\ x * (p * p) \in Nat /\ x * p \in Nat
          OBVIOUS
        <5> QED
          BY <1>5, <3>1, <5>1, Zenon
      <4> QED
        BY <3>1, <4>1, Zenon
    <3>7. u[8] = a + b + c + d
      BY <3>3, <3>6
    <3>8. CASE point.wordSwap
      <4>1. Pos(1) = 2 /\ Pos(2) = 1 /\ Pos(3) = 4 /\ Pos(4) = 3
        BY <2>3, <3>8 DEF Pos
      <4>2. Register(1) = V(2) /\ Register(2) = V(1) /\ Register(3) = V(4) /\ Register(4) = V(3)
        BY <1>6, <2>3, <4>1
      <4>3. /\ Register(1) * Pow[2 * (4 - Pos(1))] = b
            /\ Register(2) * Pow[2 * (4 - Pos(2))] = a
            /\ Register(3) * Pow[2 * (4 - Pos(3))] = d
            /\ Register(4) * Pow[2 * (4 - Pos(4))] = c
        <5>1. /\ 2 * (4 - 2) = 4 /\ 2 * (4 - 1) = 6 /\ 2 * (4 - 4) = 0 /\ 2 * (4 - 3) = 2
              /\ V(4) * 1 = V(4)
          BY <3>1
        <5> QED
          BY <3>4, <3>6, <4>1, <4>2, <5>1 DEF P
      <4>4. v[1] = b /\ v[2] = v[1] + a /\ v[3] = v[2] + d /\ v[4] = v[3] + c
        BY <3>5, <4>3
      <4>5. v[4] = u[8]
        BY <3>7, <4>4
      <4> QED
        BY <2>3, <4>5
    <3>9. CASE ~point.wordSwap
      <4>1. Pos(1) = 1 /\ Pos(2) = 2 /\ Pos(3) = 3 /\ Pos(4) = 4
        BY <2>3, <3>9 DEF Pos
      <4>2. Register(1) = V(1) /\ Register(2) = V(2) /\ Register(3) = V(3) /\ Register(4) = V(4)
        BY <1>6, <2>3, <4>1
      <4>3. /\ Register(1) * Pow[2 * (4 - Pos(1))] = a
            /\ Register(2) * Pow[2 * (4 - Pos(2))] = b
            /\ Register(3) * Pow[2 * (4 - Pos(3))] = c
            /\ Register(4) * Pow[2 * (4 - Pos(4))] = d
        <5>1. /\ 2 * (4 - 2) = 4 /\ 2 * (4 - 1) = 6 /\ 2 * (4 - 4) = 0 /\ 2 * (4 - 3) = 2
              /\ V(4) * 1 = V(4)
          BY <3>1
        <5> QED
          BY <3>4, <3>6, <4>1, <4>2, <5>1 DEF P
      <4>4. v[1] = a /\ v[2] = v[1] + b /\ v[3] = v[2] + c /\ v[4] = v[3] + d
        BY <3>5, <4>3
      <4>5. v[4] = u[8]
        BY <3>7, <4>4
      <4> QED
        BY <2>3, <4>5
    <3> QED
      BY <3>8, <3>9
  <2> QED
    BY <2>1, <2>2, <2>3
<1> QED
  BY <1>1, <1>3, <1>4, <1>9

-----------------------------------------------------------------------------
(* Ranges *)

\* The sign bit is half of the values.
LEMMA SignBits ==
  ASSUME NEW b \in Nat \ {0}
  PROVE  /\ SignBit(b) \in Nat /\ SignBit(b) >= 1
         /\ Pow[b] = 2 * SignBit(b)
         /\ Pow[b] <= SignBit(b + 1) /\ \E x \in Nat : SignBit(b + 1) = 2 * x
<1>1. Half \in Nat /\ Half >= 1 /\ Base = 2 * Half
  BY ValuesAssumption DEF Base
<1>2. PICK k \in Nat : b = k + 1
  <2>1. b - 1 \in Nat /\ b = (b - 1) + 1
    OBVIOUS
  <2> QED
    BY <2>1
<1>3. Pow[b] = Base * Pow[k] /\ Pow[k] \in Nat /\ Pow[k] >= 1 /\ Pow[b] \in Nat /\ Pow[b] >= 1
  BY <1>2, PowEquation, PowType
<1>4. SignBit(b) = Half * Pow[k] /\ SignBit(b + 1) = Half * Pow[b]
  <2>1. b - 1 = k /\ (b + 1) - 1 = b
    BY <1>2
  <2> QED
    BY <2>1 DEF SignBit
<1>5. \A x, y \in Nat : x >= 1 /\ y >= 1 => x * y \in Nat /\ x * y >= 1 /\ y <= x * y
  <2> TAKE x, y \in Nat
  <2> HAVE x >= 1 /\ y >= 1
  <2>1. x - 1 \in Nat /\ x * y = (x - 1) * y + y
    OBVIOUS
  <2>2. (x - 1) * y \in Nat
    BY <2>1
  <2> QED
    BY <2>1, <2>2
<1>6. SignBit(b) \in Nat /\ SignBit(b) >= 1 /\ Pow[b] <= SignBit(b + 1)
  BY <1>1, <1>3, <1>4, <1>5
<1>7. Pow[b] = 2 * SignBit(b)
  BY <1>1, <1>3, <1>4
<1>8. SignBit(b + 1) = 2 * (Half * SignBit(b)) /\ Half * SignBit(b) \in Nat
  BY <1>1, <1>4, <1>6, <1>7
<1> QED
  BY <1>6, <1>7, <1>8

\* The ranges of the types in use, one within the other.
LEMMA Ranges ==
  /\ \A b \in {2, 4, 8} : /\ Pow[b] \in Nat /\ SignBit(b) \in Nat /\ SignBit(b) >= 1
                          /\ Pow[b] = 2 * SignBit(b)
  /\ Pow[2] <= Pow[4] /\ Pow[4] <= SignBit(8)
  /\ \A b \in {4, 8} : SignBit(b) >= 2 /\ \E x \in Nat : SignBit(b) = 2 * x
<1>1. \A b \in {1, 2, 3, 4, 5, 6, 7, 8} :
        /\ Pow[b] \in Nat /\ SignBit(b) \in Nat /\ SignBit(b) >= 1
        /\ Pow[b] = 2 * SignBit(b)
        /\ Pow[b] <= SignBit(b + 1) /\ \E x \in Nat : SignBit(b + 1) = 2 * x
  <2> TAKE b \in {1, 2, 3, 4, 5, 6, 7, 8}
  <2>1. b \in Nat \ {0}
    OBVIOUS
  <2> QED
    BY <2>1, SignBits, PowType
<1>2. /\ Pow[2] <= SignBit(3) /\ Pow[3] <= SignBit(4) /\ Pow[4] <= SignBit(5)
      /\ Pow[5] <= SignBit(6) /\ Pow[6] <= SignBit(7) /\ Pow[7] <= SignBit(8)
  <2>1. 2 + 1 = 3 /\ 3 + 1 = 4 /\ 4 + 1 = 5 /\ 5 + 1 = 6 /\ 6 + 1 = 7 /\ 7 + 1 = 8
    OBVIOUS
  <2> QED
    BY <1>1, <2>1
<1>3. /\ Pow[2] = 2 * SignBit(2) /\ Pow[3] = 2 * SignBit(3) /\ Pow[4] = 2 * SignBit(4)
      /\ Pow[5] = 2 * SignBit(5) /\ Pow[6] = 2 * SignBit(6) /\ Pow[7] = 2 * SignBit(7)
  BY <1>1
<1>4. /\ SignBit(2) \in Nat /\ SignBit(3) \in Nat /\ SignBit(4) \in Nat /\ SignBit(5) \in Nat
      /\ SignBit(6) \in Nat /\ SignBit(7) \in Nat /\ SignBit(8) \in Nat /\ SignBit(2) >= 1
  BY <1>1
<1>5. Pow[2] <= Pow[4] /\ Pow[4] <= SignBit(8) /\ SignBit(4) >= 2 /\ SignBit(8) >= 2
  BY <1>2, <1>3, <1>4
<1>6. (\E x \in Nat : SignBit(4) = 2 * x) /\ (\E x \in Nat : SignBit(8) = 2 * x)
  <2>1. 3 + 1 = 4 /\ 7 + 1 = 8
    OBVIOUS
  <2> QED
    BY <1>1, <2>1
<1> QED
  BY <1>1, <1>5, <1>6

\* The range of a type has its two ends, and zero.
LEMMA LowHigh ==
  ASSUME NEW b \in {2, 4, 8}, NEW type
  PROVE  /\ Low(type, b) \in Int /\ High(type, b) \in Int
         /\ Low(type, b) <= 0 /\ 0 <= High(type, b)
         /\ type # "int" => High(type, b) = Pow[b] - 1
  BY Ranges DEF Low, High

LEMMA ClampIn ==
  ASSUME NEW x \in Int, NEW lo \in Int, NEW hi \in Int, lo <= hi
  PROVE  /\ Clamp(x, lo, hi) \in Int /\ lo <= Clamp(x, lo, hi) /\ Clamp(x, lo, hi) <= hi
         /\ lo <= x /\ x <= hi => Clamp(x, lo, hi) = x
  BY DEF Clamp

\* The bytes of a string as a number of a type.
LEMMA HexToIntegerType ==
  ASSUME NEW bs \in Seq(Byte), NEW type, NEW b \in Nat
  PROVE  HexToInteger(bs, type, b) \in Int
<1> DEFINE n == Unsigned(bs) % Pow[b]
<1>1. Unsigned(bs) \in Nat /\ Pow[b] \in Nat /\ Pow[b] >= 1
  BY UnsignedRange, PowType
<1>2. n \in Nat
  BY <1>1
<1> HIDE DEF n
<1> QED
  BY <1>1, <1>2 DEF HexToInteger, n

-----------------------------------------------------------------------------
(* Fractions *)

LEMMA TruncIs ==
  ASSUME NEW x \in Int, NEW d \in Nat \ {0}
  PROVE  LET t == Trunc(<<x, d>>) IN
         /\ t \in Int
         /\ 0 <= x => 0 <= t /\ d * t <= x /\ x < d * t + d
         /\ x < 0 => t <= 0 /\ x <= d * t /\ d * t - d < x
<1> DEFINE a == Abs(x)
           t == a \div d
<1>1. a \in Nat /\ (x >= 0 => a = x) /\ (x < 0 => a = -x)
  BY DEF Abs
<1> HIDE DEF a
<1>2. t \in Nat /\ d * t <= a /\ a < d * t + d
  <2>1. t \in Nat /\ (a % d) \in Nat /\ (a % d) < d /\ a = d * t + (a % d)
    BY <1>1
  <2>2. d * t \in Nat
    BY <2>1
  <2> QED
    BY <1>1, <2>1, <2>2
<1>3. Trunc(<<x, d>>) = IF x < 0 THEN -1 * t ELSE 1 * t
  <2>1. Trunc(<<x, d>>) = Sign(x) * (Abs(x) \div d)
    BY DEF Trunc
  <2>2. t = Abs(x) \div d
    BY DEF a
  <2> HIDE DEF t
  <2>3. Sign(x) = IF x < 0 THEN -1 ELSE 1
    BY DEF Sign
  <2> QED
    BY <2>1, <2>2, <2>3
<1> HIDE DEF t
<1>4. CASE x >= 0
  <2>1. Trunc(<<x, d>>) = t
    BY <1>2, <1>3, <1>4
  <2> QED
    BY <1>1, <1>2, <1>4, <2>1
<1>5. CASE x < 0
  <2>1. Trunc(<<x, d>>) = -t
    BY <1>2, <1>3, <1>5
  <2>2. d * (-t) = -(d * t) /\ d * t \in Nat
    BY <1>2
  <2> QED
    BY <1>1, <1>2, <1>5, <2>1, <2>2
<1> QED
  BY <1>4, <1>5

LEMMA RoundIs ==
  ASSUME NEW x \in Int, NEW d \in Nat \ {0}
  PROVE  LET r == Round(<<x, d>>) IN
         r \in Int /\ Abs(2 * (d * r) - 2 * x) <= d /\ \A m \in Nat : 2 * Abs(x) <= d * (2 * m)
                                                                       => Abs(r) <= m
<1> DEFINE a == Abs(x)
           t == (2 * a + d) \div (2 * d)
<1>1. a \in Nat /\ (x >= 0 => a = x) /\ (x < 0 => a = -x)
  BY DEF Abs
<1> HIDE DEF a
<1>2. t \in Nat /\ 2 * (d * t) <= 2 * a + d /\ 2 * a + d < 2 * (d * t) + 2 * d
  <2> DEFINE y == 2 * a + d
             e == 2 * d
  <2>1. y \in Nat /\ e \in Nat \ {0}
    BY <1>1
  <2> HIDE DEF y, e
  <2>2. y \div e \in Nat /\ (y % e) \in Nat /\ (y % e) < e /\ y = e * (y \div e) + (y % e)
    BY <2>1
  <2>3. t = y \div e
    BY DEF y, e
  <2> HIDE DEF t
  <2>4. t \in Nat /\ e * t <= y /\ y < e * t + e
    <3>1. e * t \in Nat
      BY <2>1, <2>2, <2>3
    <3> QED
      BY <2>1, <2>2, <2>3, <3>1
  <2>5. e * t = 2 * (d * t)
    BY <2>4 DEF e
  <2> QED
    BY <2>4, <2>5 DEF y, e
<1>3. Round(<<x, d>>) = IF x < 0 THEN -1 * t ELSE 1 * t
  <2>1. Round(<<x, d>>) = Sign(x) * ((2 * Abs(x) + d) \div (2 * d))
    BY DEF Round
  <2>2. t = (2 * Abs(x) + d) \div (2 * d)
    BY DEF a
  <2> HIDE DEF t
  <2>3. Sign(x) = IF x < 0 THEN -1 ELSE 1
    BY DEF Sign
  <2> QED
    BY <2>1, <2>2, <2>3
<1> HIDE DEF t
<1>4. d * t \in Nat
  BY <1>2
<1>5. ASSUME NEW m \in Nat, 2 * a <= d * (2 * m)
      PROVE  t <= m
  <2> SUFFICES ASSUME t > m PROVE FALSE
    BY <1>2
  <2>1. t - (m + 1) \in Nat /\ d * t = d * m + d + d * (t - (m + 1))
    BY <1>2
  <2>2. d * (t - (m + 1)) \in Nat /\ d * m \in Nat /\ d * (2 * m) = 2 * (d * m)
    BY <2>1
  <2> QED
    BY <1>1, <1>2, <1>4, <1>5, <2>1, <2>2
<1>6. CASE x >= 0
  <2>1. Round(<<x, d>>) = t
    BY <1>2, <1>3, <1>6
  <2> QED
    BY <1>1, <1>2, <1>4, <1>5, <1>6, <2>1 DEF Abs, a
<1>7. CASE x < 0
  <2>1. Round(<<x, d>>) = -t
    BY <1>2, <1>3, <1>7
  <2>2. d * (-t) = -(d * t)
    BY <1>2
  <2>3. a = Abs(x) /\ Abs(-t) = t
    BY <1>2 DEF Abs, a
  <2> QED
    BY <1>1, <1>2, <1>4, <1>5, <1>7, <2>1, <2>2, <2>3 DEF Abs
<1> QED
  BY <1>6, <1>7

-----------------------------------------------------------------------------
(* Conversions *)

\* A conversion gives some integer, and the number itself where the type has it.
LEMMA CastIs ==
  ASSUME NEW x \in Int, NEW d \in Nat \ {0}, NEW type, NEW b \in {2, 4, 8}
  PROVE  /\ Cast(<<x, d>>, type, b) \subseteq Int
         /\ Low(type, b) <= Trunc(<<x, d>>) /\ Trunc(<<x, d>>) <= High(type, b)
              => Cast(<<x, d>>, type, b) = {Trunc(<<x, d>>)}
<1> DEFINE t == Trunc(<<x, d>>)
           w == t % Pow[b]
<1>1. t \in Int
  BY TruncIs
<1> HIDE DEF t
<1>2. Pow[b] \in Nat /\ Pow[b] >= 1 /\ SignBit(b) \in Nat
  BY Ranges, PowType
<1>3. w \in Int
  BY <1>1, <1>2
<1> HIDE DEF w
<1>4. Low(type, b) \in Int /\ High(type, b) \in Int
  BY LowHigh
<1>5. Cast(<<x, d>>, type, b) =
        IF Low(type, b) <= t /\ t <= High(type, b) THEN {t}
        ELSE {IF w > High(type, b) THEN w - Pow[b] ELSE w,
              IF type = "int" THEN Low(type, b) ELSE SignBit(b)}
  BY DEF Cast, t, w
<1> QED
  BY <1>1, <1>2, <1>3, <1>4, <1>5 DEF t

Whole(p) == p.type \in {"int", "uint"} /\ p.width \in {1, 2, 4}
Reals(p) == (p.type = "float" /\ p.width = 2) \/ (p.type = "double" /\ p.width = 4)

\* The parts of a point.
LEMMA PointIs ==
  ASSUME NEW p \in PointConfig
  PROVE  /\ p.width \in Nat \ {0} /\ p.scale[1] \in Int \ {0} /\ p.scale[2] \in Nat \ {0}
         /\ p.coil \in BOOLEAN /\ p.writable \in BOOLEAN
         /\ Whole(p) => 2 * p.width \in {2, 4, 8} /\ ProductBytes(2 * p.width) \in {4, 8}
         /\ Reals(p) => 2 * p.width \in {4, 8}
<1>1. p.width \in Nat \ {0} /\ p.scale \in (Int \ {0}) \X (Nat \ {0})
      /\ p.coil \in BOOLEAN /\ p.writable \in BOOLEAN
  BY DEF PointConfig
<1>2. Whole(p) => 2 * p.width \in {2, 4, 8} /\ ProductBytes(2 * p.width) \in {4, 8}
  BY DEF Whole, ProductBytes
<1>3. Reals(p) => 2 * p.width \in {4, 8}
  BY DEF Reals
<1> QED
  BY <1>1, <1>2, <1>3

\* The range of a type is in that of the wider types that numbers are computed in.
LEMMA Wider ==
  ASSUME NEW b \in {2, 4, 8}, NEW type \in {"int", "uint"}, NEW x \in Int,
         Low(type, b) <= x, x <= High(type, b)
  PROVE  /\ \A t \in {"int", "uint"} :
              (t = "uint" <=> type = "uint" /\ b = 8) => Low(t, 8) <= x /\ x <= High(t, 8)
         /\ Low(type, ProductBytes(b)) <= x /\ x <= High(type, ProductBytes(b))
<1>1. /\ \A c \in {2, 4, 8} : /\ Pow[c] \in Nat /\ SignBit(c) \in Nat /\ SignBit(c) >= 1
                              /\ Pow[c] = 2 * SignBit(c)
      /\ Pow[2] <= Pow[4] /\ Pow[4] <= SignBit(8)
  BY Ranges
<1>2. CASE b = 2
  <2>1. ProductBytes(b) = 4
    BY <1>2 DEF ProductBytes
  <2> QED
    BY <1>1, <1>2, <2>1 DEF Low, High
<1>3. CASE b = 4
  <2>1. ProductBytes(b) = 8
    BY <1>3 DEF ProductBytes
  <2> QED
    BY <1>1, <1>3, <2>1 DEF Low, High
<1>4. CASE b = 8
  <2>1. ProductBytes(b) = 8
    BY <1>4 DEF ProductBytes
  <2> QED
    BY <1>1, <1>4, <2>1 DEF Low, High
<1> QED
  BY <1>2, <1>3, <1>4

\* The integer of a message is the number, or 2^64 less for the upper half of the unsigned
\* numbers of eight bytes.
LEMMA EnvelopeIs ==
  ASSUME NEW p \in PointConfig, Whole(p), NEW m \in Int,
         Low(p.type, 2 * p.width) <= m, m <= High(p.type, 2 * p.width)
  PROVE  LET bytes == 2 * p.width
             type == PublishedType(p) IN
         /\ Envelope(m) \in Int /\ Low(type, bytes) <= Envelope(m) /\ Envelope(m) <= High(type, bytes)
         /\ Envelope(m) = IF m > High(type, bytes) THEN m - Pow[bytes] ELSE m
<1> DEFINE bytes == 2 * p.width
           type == PublishedType(p)
<1>1. bytes \in {2, 4, 8} /\ p.type \in {"int", "uint"} /\ p.width \in {1, 2, 4}
  BY PointIs DEF Whole
<1>2. CASE p.type = "uint" /\ p.width = 4
  <2>1. bytes = 8 /\ type = "int"
    BY <1>2 DEF PublishedType
  <2>2. Pow[8] \in Nat /\ SignBit(8) \in Nat /\ Pow[8] = 2 * SignBit(8)
    BY Ranges
  <2>3. 0 <= m /\ m <= Pow[8] - 1
    BY <1>2, <2>1 DEF Low, High
  <2>4. Envelope(m) = IF m > SignBit(8) - 1 THEN m - Pow[8] ELSE m
    BY DEF Envelope, High
  <2>5. /\ Envelope(m) \in Int /\ -SignBit(8) <= Envelope(m) /\ Envelope(m) <= SignBit(8) - 1
    BY <2>2, <2>3, <2>4
  <2>6. Low(type, bytes) = -SignBit(8) /\ High(type, bytes) = SignBit(8) - 1
    BY <2>1 DEF Low, High
  <2> HIDE DEF bytes, type
  <2> QED
    BY <2>1, <2>4, <2>5, <2>6 DEF bytes, type
<1>3. CASE ~(p.type = "uint" /\ p.width = 4)
  <2>1. type = p.type /\ ~(p.type = "uint" /\ bytes = 8)
    BY <1>1, <1>3 DEF PublishedType
  <2> HIDE DEF bytes, type
  <2>2. m <= High("int", 8)
    BY <1>1, <2>1, Wider DEF bytes
  <2>3. High("int", 8) \in Int /\ High(type, bytes) \in Int
    BY <1>1, LowHigh
  <2>4. Envelope(m) = m
    BY <2>2, <2>3 DEF Envelope
  <2>5. Low(type, bytes) <= m /\ m <= High(type, bytes) /\ ~(m > High(type, bytes))
    BY <2>1, <2>3 DEF bytes
  <2> QED
    BY <2>4, <2>5 DEF bytes, type
<1> QED
  BY <1>2, <1>3

\* setScaledValue, for integers.
LEMMA ScaledIntegerIs ==
  ASSUME NEW bs \in Seq(Byte), NEW p \in PointConfig, Whole(p), NEW s \in ScaledInteger(bs, p)
  PROVE  LET bytes == 2 * p.width
             y == Trunc(Times(HexToInteger(bs, p.type, bytes), p.scale)) IN
         /\ s.kind = "integer" /\ s.n \in Int
         /\ Low(PublishedType(p), bytes) <= s.n /\ s.n <= High(PublishedType(p), bytes)
         /\ y \in Low(p.type, ProductBytes(bytes))..High(p.type, ProductBytes(bytes))
              => s.n = Envelope(Clamp(y, Low(p.type, bytes), High(p.type, bytes)))
<1> DEFINE bytes == 2 * p.width
           x == HexToInteger(bs, p.type, bytes) * p.scale[1]
           pb == ProductBytes(bytes)
           C == Cast(<<x, p.scale[2]>>, p.type, pb)
<1>1. p.scale[1] \in Int /\ p.scale[2] \in Nat \ {0} /\ bytes \in {2, 4, 8} /\ pb \in {4, 8}
  BY PointIs
<1>2. x \in Int
  <2>1. HexToInteger(bs, p.type, bytes) \in Int
    BY <1>1, HexToIntegerType
  <2> HIDE DEF bytes
  <2> QED
    BY <1>1, <2>1
<1>3. Times(HexToInteger(bs, p.type, bytes), p.scale) = <<x, p.scale[2]>>
  BY DEF Times
<1> HIDE DEF x
<1>4. C \subseteq Int
  BY <1>1, <1>2, CastIs
<1>5. PICK z \in C : s = [kind |-> "integer", n |-> Envelope(InRange(z, p))]
  BY <1>3 DEF ScaledInteger
<1>6. InRange(z, p) = Clamp(z, Low(p.type, bytes), High(p.type, bytes))
  BY DEF InRange
<1>7. /\ Low(p.type, bytes) \in Int /\ High(p.type, bytes) \in Int
      /\ Low(p.type, bytes) <= High(p.type, bytes)
      /\ Low(p.type, pb) \in Int /\ High(p.type, pb) \in Int
  BY <1>1, LowHigh
<1> HIDE DEF bytes, pb
<1>8. /\ s.kind = "integer" /\ s.n \in Int
      /\ Low(PublishedType(p), bytes) <= s.n /\ s.n <= High(PublishedType(p), bytes)
  <2>1. s.kind = "integer" /\ s.n = Envelope(Clamp(z, Low(p.type, bytes), High(p.type, bytes)))
    BY <1>5, <1>6
  <2>2. z \in Int
    BY <1>4
  <2>3. PICK lo \in Int, hi \in Int :
          lo = Low(p.type, bytes) /\ hi = High(p.type, bytes) /\ lo <= hi
    BY <1>7, Zenon
  <2>4. Clamp(z, lo, hi) \in Int /\ lo <= Clamp(z, lo, hi) /\ Clamp(z, lo, hi) <= hi
    BY <2>2, <2>3, ClampIn
  <2>5. PICK m \in Int : m = Clamp(z, lo, hi)
    BY <2>4
  <2>6. s.n = Envelope(m) /\ Low(p.type, 2 * p.width) <= m /\ m <= High(p.type, 2 * p.width)
    BY <2>1, <2>3, <2>4, <2>5, Zenon DEF bytes
  <2>7. /\ Envelope(m) \in Int /\ Low(PublishedType(p), 2 * p.width) <= Envelope(m)
        /\ Envelope(m) <= High(PublishedType(p), 2 * p.width)
    BY <2>6, EnvelopeIs
  <2> QED
    BY <2>1, <2>6, <2>7, Zenon DEF bytes
<1> DEFINE y == Trunc(<<x, p.scale[2]>>)
<1>9. ASSUME y \in Low(p.type, pb)..High(p.type, pb)
      PROVE  s.n = Envelope(Clamp(y, Low(p.type, bytes), High(p.type, bytes)))
  <2>1. Low(p.type, pb) <= y /\ y <= High(p.type, pb)
    BY <1>7, <1>9
  <2>2. C = {y}
    <3>1. pb \in {2, 4, 8}
      BY <1>1
    <3> QED
      BY <1>1, <1>2, <2>1, <3>1, CastIs
  <2> QED
    BY <1>5, <1>6, <2>2
<1> QED
  BY <1>3, <1>8, <1>9 DEF bytes, pb

\* setScaledValue, for reals.
LEMMA ScaledRealIs ==
  ASSUME NEW bs \in Seq(Byte), NEW p \in PointConfig, Reals(p), NEW s \in ScaledReal(bs, p)
  PROVE  LET max == HighReal(2 * p.width)
             q == Times(HexToReal(bs), p.scale) IN
         /\ s.kind = "real" /\ s.n \in Int /\ 2 * Abs(s.n) <= max
         /\ Abs(q[1]) <= max * q[2] => Abs(2 * s.n * q[2] - q[1]) <= q[2]
<1> DEFINE max == HighReal(2 * p.width)
           x == HexToReal(bs) * p.scale[1]
           d == p.scale[2]
           c == Clamp(x, -max * d, max * d)
           r == Round(<<c, 2 * d>>)
<1>1. p.scale[1] \in Int /\ d \in Nat \ {0} /\ 2 * p.width \in {4, 8}
  BY PointIs
<1>2. PICK m \in Nat : max = 2 * m
  <2>1. PICK k \in Nat : SignBit(2 * p.width) = 2 * k /\ SignBit(2 * p.width) >= 2
    BY <1>1, Ranges
  <2>2. k - 1 \in Nat /\ max = 2 * (k - 1)
    BY <2>1 DEF HighReal
  <2> QED
    BY <2>2
<1>3. x \in Int
  <2>1. Len(bs) \in Nat
    OBVIOUS
  <2>2. HexToReal(bs) \in Int
    BY <2>1, HexToIntegerType DEF HexToReal
  <2> QED
    BY <1>1, <2>2
<1>4. Times(HexToReal(bs), p.scale) = <<x, d>>
  BY DEF Times
<1>5. s = [kind |-> "real", n |-> r]
  BY <1>4 DEF ScaledReal
<1> HIDE DEF max, x, d, r
<1>6. max * d \in Nat /\ -max * d = -(max * d)
  BY <1>1, <1>2
<1>7. c \in Int /\ Abs(c) <= max * d /\ (Abs(x) <= max * d => c = x)
  BY <1>3, <1>6 DEF Clamp, Abs
<1> HIDE DEF c
<1>8. /\ r \in Int /\ Abs(2 * ((2 * d) * r) - 2 * c) <= 2 * d
      /\ \A k \in Nat : 2 * Abs(c) <= (2 * d) * (2 * k) => Abs(r) <= k
  <2>1. 2 * d \in Nat \ {0}
    BY <1>1
  <2> QED
    BY <1>7, <2>1, RoundIs DEF r
<1>9. 2 * Abs(r) <= max
  <2>1. Abs(c) \in Int
    BY <1>7 DEF Abs
  <2>2. (2 * d) * (2 * m) = 2 * (max * d)
    BY <1>1, <1>2
  <2>3. Abs(r) <= m
    BY <1>6, <1>7, <1>8, <2>1, <2>2
  <2> QED
    BY <1>2, <1>8, <2>3 DEF Abs
<1>10. Abs(2 * r * d - c) <= d
  <2>1. 2 * ((2 * d) * r) - 2 * c = 2 * (2 * r * d - c) /\ 2 * r * d - c \in Int
    BY <1>1, <1>7, <1>8
  <2> DEFINE e == 2 * r * d - c
  <2> HIDE DEF e
  <2>2. Abs(2 * e) <= 2 * d /\ e \in Int
    BY <1>8, <2>1 DEF e
  <2>3. Abs(e) <= d
    BY <1>1, <2>2 DEF Abs
  <2> QED
    BY <2>3 DEF e
<1>11. s.kind = "real" /\ s.n = r
  BY <1>5
<1>12. /\ s.kind = "real" /\ s.n \in Int /\ 2 * Abs(s.n) <= max
       /\ Abs(x) <= max * d => Abs(2 * s.n * d - x) <= d
  BY <1>7, <1>8, <1>9, <1>10, <1>11
<1>13. Times(HexToReal(bs), p.scale)[1] = x /\ Times(HexToReal(bs), p.scale)[2] = d
  BY <1>4
<1> QED
  BY <1>12, <1>13 DEF max

\* setScaledValue: which branch a scaled value is from.
LEMMA SetScaledIs ==
  ASSUME NEW bs, NEW p, NEW s \in SetScaled(bs, p)
  PROVE  /\ s.kind = "integer" => Whole(p) /\ s \in ScaledInteger(bs, p)
         /\ s.kind = "real" => Reals(p) /\ s \in ScaledReal(bs, p)
<1>1. CASE Whole(p)
  <2>1. s \in ScaledInteger(bs, p)
    BY <1>1 DEF SetScaled, Whole
  <2> QED
    BY <1>1, <2>1 DEF ScaledInteger
<1>2. CASE Reals(p) /\ ~Whole(p)
  <2>1. s \in ScaledReal(bs, p)
    BY <1>2 DEF SetScaled, Whole, Reals
  <2> QED
    BY <1>2, <2>1 DEF ScaledReal
<1>3. CASE ~Reals(p) /\ ~Whole(p)
  <2>1. s.kind \in {"bool", "string", "empty"}
    BY <1>3 DEF SetScaled, Whole, Reals
  <2> QED
    BY <2>1
<1> QED
  BY <1>1, <1>2, <1>3

-----------------------------------------------------------------------------
(* Commands *)

\* The parts of a command, by its kind.
LEMMA CommandIs ==
  ASSUME NEW c \in Command
  PROVE  /\ c.kind \in {"value", "string", "integer", "real", "bool"}
         /\ c.kind \in {"value", "string"} => c.bytes \in Seq(Byte)
         /\ c.kind \in {"integer", "real"} => c.n \in Int
  BY DEF Command

IsData(h) == h.kind = "data" /\ h.bytes \in Seq(Byte)

LEMMA OverIs ==
  ASSUME NEW x \in Int, NEW p \in PointConfig
  PROVE  \E y \in Int, d \in Nat \ {0} : Over(x, p.scale) = <<y, d>>
<1> DEFINE y == x * p.scale[2] * Sign(p.scale[1])
           d == Abs(p.scale[1])
<1>1. p.scale[1] \in Int \ {0} /\ p.scale[2] \in Nat \ {0}
  BY PointIs
<1>2. y \in Int
  <2>1. Sign(p.scale[1]) \in Int
    BY DEF Sign
  <2> QED
    BY <1>1, <2>1
<1>3. d \in Nat \ {0}
  BY <1>1 DEF Abs
<1>4. Over(x, p.scale) = <<y, d>>
  BY DEF Over
<1> HIDE DEF y, d
<1> QED
  BY <1>2, <1>3, <1>4

\* A command becomes bytes, or nothing.
LEMMA HexOfType ==
  ASSUME NEW c \in Command, NEW p \in PointConfig, NEW h \in HexOf(c, p)
  PROVE  h = Nothing \/ IsData(h)
<1>1. p.width \in Nat \ {0}
  BY PointIs
<1>2. 0 \in Byte /\ 1 \in Byte
  BY PowType DEF Byte
<1>3. \A x \in Int : \A b \in Nat : IsData([kind |-> "data", bytes |-> IntegerToHex(x, b)])
  BY HexType DEF IsData
<1>4. CASE c.kind = "value"
  <2>1. h = [kind |-> "data", bytes |-> c.bytes] /\ c.bytes \in Seq(Byte)
    BY <1>4, CommandIs DEF HexOf
  <2> QED
    BY <2>1 DEF IsData
<1>5. CASE c.kind # "value"
  <2>1. h \in ReverseScaled(c, p)
    BY <1>5 DEF HexOf
  <2>2. CASE p.type = "string"
    <3>1. h = [kind |-> "data", bytes |-> IF c.kind = "string" THEN c.bytes ELSE <<>>]
      BY <2>1, <2>2 DEF ReverseScaled
    <3>2. CASE c.kind = "string"
      <4>1. c.bytes \in Seq(Byte)
        BY <3>2, CommandIs
      <4> QED
        BY <3>1, <3>2, <4>1 DEF IsData
    <3>3. CASE c.kind # "string"
      BY <3>1, <3>3 DEF IsData
    <3> QED
      BY <3>2, <3>3
  <2>3. CASE p.type = "boolean"
    <3>1. PICK x \in Byte : h = [kind |-> "data", bytes |-> <<x>>] \/ h = Nothing
      BY <1>2, <2>1, <2>3 DEF ReverseScaled
    <3>2. <<x>> \in Seq(Byte)
      OBVIOUS
    <3>3. IsData([kind |-> "data", bytes |-> <<x>>])
      BY <3>2 DEF IsData
    <3> QED
      BY <3>1, <3>3, Zenon
  <2>4. CASE Whole(p) /\ c.kind = "integer"
    <3>1. h \in ReverseInteger(c, p)
      BY <2>1, <2>4 DEF ReverseScaled, Whole
    <3> DEFINE bytes == 2 * p.width
               type == IF p.type = "uint" /\ bytes = 8 THEN "uint" ELSE "int"
    <3>2. PICK x \in Cast(Quotient(c, p), type, 8) :
            h = [kind |-> "data", bytes |-> IntegerToHex(InRange(x, p), bytes)]
      BY <3>1 DEF ReverseInteger
    <3>3. x \in Int
      <4>1. c.n \in Int
        BY <2>4, CommandIs
      <4>2. PICK y \in Int, d \in Nat \ {0} : Quotient(c, p) = <<y, d>>
        BY <4>1, OverIs DEF Quotient
      <4>3. Cast(<<y, d>>, type, 8) \subseteq Int
        BY CastIs
      <4> QED
        BY <3>2, <4>2, <4>3
    <3>4. InRange(x, p) \in Int
      <4>1. bytes \in {2, 4, 8}
        BY <2>4, PointIs
      <4>2. /\ Low(p.type, bytes) \in Int /\ High(p.type, bytes) \in Int
            /\ Low(p.type, bytes) <= High(p.type, bytes)
        BY <4>1, LowHigh
      <4> QED
        BY <3>3, <4>2, ClampIn DEF InRange
    <3>5. bytes \in Nat
      BY <1>1
    <3> QED
      BY <1>3, <3>2, <3>4, <3>5
  <2>5. CASE Reals(p) /\ c.kind \in {"integer", "real"}
    <3>1. h \in ReverseReal(c, p)
      BY <2>1, <2>5 DEF ReverseScaled, Reals
    <3> DEFINE max == HighReal(2 * p.width)
               n == IF c.kind = "integer" THEN c.n * Hundred ELSE c.n
               q == Over(2 * n, p.scale)
               cc == <<Clamp(q[1], -max * q[2], max * q[2]), 2 * q[2]>>
    <3>2. h = [kind |-> "data", bytes |-> IntegerToHex(2 * Round(cc), 2 * p.width)]
      BY <3>1 DEF ReverseReal
    <3>3. n \in Int
      <4>1. c.n \in Int /\ Hundred \in Int
        BY <2>5, CommandIs, ValuesAssumption
      <4> QED
        BY <4>1
    <3>4. PICK y \in Int, d \in Nat \ {0} : q = <<y, d>>
      <4> HIDE DEF n
      <4>1. 2 * n \in Int
        BY <3>3
      <4> QED
        BY <4>1, OverIs
    <3>5. max \in Int
      BY <2>5, PointIs, Ranges DEF HighReal
    <3> HIDE DEF max, q
    <3>6. Clamp(y, -max * d, max * d) \in Int /\ 2 * d \in Nat \ {0}
      BY <3>4, <3>5 DEF Clamp
    <3>7. Round(cc) \in Int
      BY <3>4, <3>6, RoundIs
    <3> HIDE DEF cc
    <3>8. 2 * Round(cc) \in Int /\ 2 * p.width \in Nat
      BY <1>1, <3>7
    <3> QED
      BY <1>3, <3>2, <3>8
  <2>6. CASE /\ p.type \notin {"string", "boolean"}
             /\ ~(Whole(p) /\ c.kind = "integer")
             /\ ~(Reals(p) /\ c.kind \in {"integer", "real"})
    BY <2>1, <2>6 DEF ReverseScaled, Whole, Reals
  <2> QED
    BY <2>2, <2>3, <2>4, <2>5, <2>6
<1> QED
  BY <1>4, <1>5

\* Bytes become data of the width of the point, or nothing.
LEMMA WriteDataType ==
  ASSUME NEW p \in PointConfig, NEW h, h = Nothing \/ IsData(h),
         NEW w, w = WriteData(h, p)
  PROVE  w.kind = "data" => w.bytes \in Seq(Byte) /\ Len(w.bytes) = 2 * p.width
<1> SUFFICES ASSUME w.kind = "data"
             PROVE  w.bytes \in Seq(Byte) /\ Len(w.bytes) = 2 * p.width
  OBVIOUS
<1> DEFINE g == IF h.kind = "data" /\ p.coil THEN CoilData(h.bytes) ELSE h
<1>1. g = Nothing \/ IsData(g)
  <2>1. 0 \in Byte /\ Base - 1 \in Byte
    BY PowType DEF Byte
  <2>2. \A bs : CoilData(bs) = Nothing \/ IsData(CoilData(bs))
    <3> TAKE bs
    <3>1. <<0, 0>> \in Seq(Byte) /\ <<Base - 1, 0>> \in Seq(Byte)
      BY <2>1
    <3> QED
      BY <3>1 DEF CoilData, IsData
  <2> QED
    BY <2>2
<1>2. w = IF ~p.writable \/ g.kind # "data" THEN Nothing
          ELSE HexToBin(SwapForWrite(g.bytes, p), 2 * p.width)
  BY DEF WriteData
<1> HIDE DEF g
<1>3. Nothing.kind = "nothing"
  BY DEF Nothing
<1>4. w = HexToBin(SwapForWrite(g.bytes, p), 2 * p.width) /\ g.kind = "data"
  BY <1>2, <1>3
<1>5. g.bytes \in Seq(Byte)
  BY <1>1, <1>3, <1>4 DEF IsData
<1>6. SwapForWrite(g.bytes, p) \in Seq(Byte)
  BY <1>5, WriteOrder
<1>7. Len(SwapForWrite(g.bytes, p)) = 2 * p.width
  BY <1>3, <1>4 DEF HexToBin
<1>8. (2 * p.width) % 2 = 0
  BY PointIs
<1> QED
  BY <1>4, <1>6, <1>7, <1>8, BinType

\* What the device stores has the size of its registers.
LEMMA StoredType ==
  ASSUME NEW p \in PointConfig, NEW bs \in Seq(Byte), Len(bs) = 2 * p.width
  PROVE  /\ Stored(bs, p) \in Seq(Byte)
         /\ Len(Stored(bs, p)) = IF p.coil THEN 1 ELSE 2 * p.width
<1>1. 0 \in Byte /\ 1 \in Byte
  BY PowType DEF Byte
<1>2. <<IF bs[2] = 0 THEN 0 ELSE 1>> \in Seq(Byte) /\ Len(<<IF bs[2] = 0 THEN 0 ELSE 1>>) = 1
  BY <1>1
<1> QED
  BY <1>2 DEF Stored

-----------------------------------------------------------------------------
(* The types *)

RegsInv == regs \in Seq(Byte) /\ Len(regs) = IF point.coil THEN 1 ELSE 2 * point.width

\* The published value is what the registers hold, scaled.
PublishedInv ==
  LET hex == Swap(regs, point.byteSwap, point.wordSwap) IN
  \/ published = Nothing
  \/ \E s \in SetScaled(hex, point) :
       published = [kind |-> "response", value |-> hex, scaled |-> s]

\* The registers hold what the last command made of its value.
DoneInv ==
  \/ done = Nothing
  \/ /\ done \in Commands
     /\ \E hex \in HexOf(done, point) :
          LET w == WriteData(hex, point) IN
          w.kind = "data" /\ Executes(w.bytes, point) /\ regs = Stored(w.bytes, point)

WireInv == wire.kind = "data" => Len(wire.bytes) = 2 * point.width

IInv == point \in Points /\ RegsInv /\ WireInv /\ PublishedInv /\ DoneInv

LEMMA InitStep ==
  ASSUME Init
  PROVE  IInv
<1>1. point \in Points /\ point \in PointConfig
  BY ValuesAssumption DEF Init
<1>2. RegsInv
  <2>1. 0 \in Byte /\ point.width \in Nat
    BY <1>1, PointIs, PowType DEF Byte
  <2>2. CASE point.coil
    BY <2>1, <2>2 DEF RegsInv, Init, Blank
  <2>3. CASE ~point.coil
    <3>1. regs = [i \in 1..(2 * point.width) |-> 0]
      BY <2>3 DEF Init, Blank
    <3> QED
      BY <2>1, <2>3, <3>1 DEF RegsInv
  <2> QED
    BY <2>2, <2>3
<1>3. WireInv
  BY DEF WireInv, Init, Nothing
<1>4. PublishedInv /\ DoneInv
  BY DEF PublishedInv, DoneInv, Init
<1> QED
  BY <1>1, <1>2, <1>3, <1>4 DEF IInv

LEMMA WriteStep ==
  ASSUME IInv, NEW c \in Commands, Write(c)
  PROVE  IInv'
<1>1. point' = point /\ point \in Points /\ point \in PointConfig /\ c \in Command
  BY ValuesAssumption DEF IInv, Write
<1>2. PICK h \in HexOf(c, point) :
        LET w == WriteData(h, point) IN
        /\ wire' = w
        /\ IF w.kind = "data" /\ Executes(w.bytes, point)
           THEN regs' = Stored(w.bytes, point) /\ done' = c /\ published' = Nothing
           ELSE UNCHANGED <<regs, done, published>>
  BY DEF Write
<1> DEFINE w == WriteData(h, point)
<1>3. w.kind = "data" => w.bytes \in Seq(Byte) /\ Len(w.bytes) = 2 * point.width
  BY <1>1, HexOfType, WriteDataType
<1>4. WireInv'
  BY <1>1, <1>2, <1>3 DEF WireInv
<1>5. CASE w.kind = "data" /\ Executes(w.bytes, point)
  <2>1. regs' = Stored(w.bytes, point) /\ done' = c /\ published' = Nothing
    BY <1>2, <1>5
  <2>2. RegsInv'
    <3>1. w.bytes \in Seq(Byte) /\ Len(w.bytes) = 2 * point.width
      BY <1>3, <1>5
    <3> HIDE DEF w
    <3> QED
      BY <1>1, <2>1, <3>1, StoredType DEF RegsInv
  <2>3. PublishedInv'
    BY <2>1 DEF PublishedInv
  <2>4. DoneInv'
    <3>1. h \in HexOf(done', point')
      BY <1>1, <1>2, <2>1
    <3>2. WriteData(h, point') = w /\ Stored(w.bytes, point') = regs' /\ Executes(w.bytes, point')
      BY <1>1, <1>5, <2>1
    <3> QED
      BY <1>5, <2>1, <3>1, <3>2 DEF DoneInv
  <2> QED
    BY <1>1, <1>4, <2>2, <2>3, <2>4 DEF IInv
<1>6. CASE ~(w.kind = "data" /\ Executes(w.bytes, point))
  <2>1. regs' = regs /\ done' = done /\ published' = published
    BY <1>2, <1>6
  <2>2. RegsInv' /\ PublishedInv' /\ DoneInv'
    BY <1>1, <2>1 DEF IInv, RegsInv, PublishedInv, DoneInv
  <2> QED
    BY <1>1, <1>4, <2>2 DEF IInv
<1> QED
  BY <1>5, <1>6

LEMMA NextStep ==
  ASSUME IInv, [Next]_vars
  PROVE  IInv'
<1>1. ASSUME NEW c \in Commands, Write(c) PROVE IInv'
  BY <1>1, WriteStep
<1>2. ASSUME NEW bs \in DeviceData, DeviceSets(bs) PROVE IInv'
  <2>1. bs \in Seq(Byte)
    BY ValuesAssumption
  <2> QED
    BY <1>2, <2>1 DEF DeviceSets, IInv, RegsInv, WireInv, PublishedInv, DoneInv
<1>3. CASE Poll
  <2>1. PublishedInv'
    BY <1>3 DEF Poll, PublishedInv
  <2> QED
    BY <1>3, <2>1 DEF Poll, IInv, RegsInv, WireInv, DoneInv
<1>4. CASE UNCHANGED vars
  BY <1>4 DEF vars, IInv, RegsInv, WireInv, PublishedInv, DoneInv
<1> QED
  BY <1>1, <1>2, <1>3, <1>4 DEF Next

LEMMA InvariantHolds == Spec => []IInv
<1>1. Init => IInv
  BY InitStep
<1>2. IInv /\ [Next]_vars => IInv'
  BY NextStep
<1> QED
  BY <1>1, <1>2, PTL DEF Spec

\* What the invariant says of a response.
LEMMA ResponseIs ==
  ASSUME IInv, published.kind = "response",
         NEW hex, hex = Swap(regs, point.byteSwap, point.wordSwap)
  PROVE  /\ point \in PointConfig /\ regs \in Seq(Byte)
         /\ hex \in Seq(Byte) /\ Len(hex) = Len(regs)
         /\ published.value = hex /\ published.scaled \in SetScaled(hex, point)
<1>1. point \in PointConfig /\ regs \in Seq(Byte)
  BY ValuesAssumption DEF IInv, RegsInv
<1>2. hex \in Seq(Byte) /\ Len(hex) = Len(regs)
  BY <1>1, ReadOrder
<1>3. published # Nothing
  BY DEF Nothing
<1>4. PICK s \in SetScaled(hex, point) :
        published = [kind |-> "response", value |-> hex, scaled |-> s]
  BY <1>3 DEF IInv, PublishedInv
<1> QED
  BY <1>1, <1>2, <1>4

\* The types: registers hold bytes, commands have the width of the point, and a scaled number
\* is in the range of the type that it is published in (setScaledValue).
THEOREM TypeCorrect == Spec => []TypeOK
<1>1. IInv => TypeOK
  <2> SUFFICES ASSUME IInv PROVE TypeOK
    OBVIOUS
  <2>1. point \in Points /\ regs \in Seq(Byte)
        /\ (wire.kind = "data" => Len(wire.bytes) = 2 * point.width)
    BY DEF IInv, RegsInv, WireInv
  <2>2. ASSUME published.kind = "response"
        PROVE  /\ Len(published.value) = Len(regs)
               /\ published.scaled.kind = "integer" =>
                    /\ published.scaled.n >= Low(PublishedType(point), 2 * point.width)
                    /\ published.scaled.n <= High(PublishedType(point), 2 * point.width)
               /\ published.scaled.kind = "real" =>
                    2 * Abs(published.scaled.n) <= HighReal(2 * point.width)
    <3>1. PICK hex : hex = Swap(regs, point.byteSwap, point.wordSwap)
      OBVIOUS
    <3>2. /\ point \in PointConfig /\ hex \in Seq(Byte) /\ Len(hex) = Len(regs)
          /\ published.value = hex /\ published.scaled \in SetScaled(hex, point)
      BY <2>2, <3>1, ResponseIs
    <3>3. PICK s : s = published.scaled /\ s \in SetScaled(hex, point)
      BY <3>2
    <3>4. ASSUME s.kind = "integer"
          PROVE  s.n >= Low(PublishedType(point), 2 * point.width) /\ s.n <= High(PublishedType(point), 2 * point.width)
      <4>1. Whole(point) /\ s \in ScaledInteger(hex, point)
        BY <3>3, <3>4, SetScaledIs
      <4>2. /\ s.n \in Int /\ Low(PublishedType(point), 2 * point.width) <= s.n
            /\ s.n <= High(PublishedType(point), 2 * point.width)
        BY <3>2, <4>1, ScaledIntegerIs
      <4>3. Low(PublishedType(point), 2 * point.width) \in Int
        BY <3>2, <4>1, PointIs, LowHigh
      <4> QED
        BY <4>2, <4>3
    <3>5. ASSUME s.kind = "real"
          PROVE  2 * Abs(s.n) <= HighReal(2 * point.width)
      <4>1. Reals(point) /\ s \in ScaledReal(hex, point)
        BY <3>3, <3>5, SetScaledIs
      <4> QED
        BY <3>2, <4>1, ScaledRealIs
    <3> QED
      BY <3>2, <3>3, <3>4, <3>5
  <2> QED
    BY <2>1, <2>2 DEF TypeOK
<1> QED
  BY <1>1, InvariantHolds, PTL


-----------------------------------------------------------------------------
(* What is published *)

\* The bytes of a response as a number of their own width.
LEMMA HexIs ==
  ASSUME NEW bs \in Seq(Byte), NEW b \in Nat, Len(bs) <= b, NEW type,
         NEW n, n = Unsigned(bs), n < Pow[b]
  PROVE  HexToInteger(bs, type, b) = IF n > High(type, b) THEN n - Pow[b] ELSE n
<1>1. n \in Nat /\ Pow[b] \in Nat
  BY UnsignedRange, PowType
<1>2. n % Pow[b] = n
  BY <1>1
<1> QED
  BY <1>2 DEF HexToInteger

\* A single byte is not moved.
LEMMA SwapOne ==
  ASSUME NEW bs \in Seq(Byte), Len(bs) = 1, NEW b \in BOOLEAN, NEW w \in BOOLEAN
  PROVE  Swap(bs, b, w) = bs
<1>1. Source(1, 0, b, w) = 0
  BY DEF Source
<1>2. /\ Swap(bs, b, w) \in Seq(Byte) /\ Len(Swap(bs, b, w)) = 1
      /\ \A i \in 1..1 : Swap(bs, b, w)[i] = bs[Source(1, i - 1, b, w) + 1]
  <2>1. /\ Swap(bs, b, w) \in Seq(Byte) /\ Len(Swap(bs, b, w)) = Len(bs)
        /\ \A i \in 1..Len(bs) : Swap(bs, b, w)[i] = bs[Source(Len(bs), i - 1, b, w) + 1]
    BY SwapType, Zenon
  <2> QED
    BY <2>1, Zenon
<1>3. Swap(bs, b, w)[1] = bs[1]
  <2>1. Swap(bs, b, w)[1] = bs[Source(1, 1 - 1, b, w) + 1]
    BY <1>2
  <2>2. 1 - 1 = 0 /\ 0 + 1 = 1
    OBVIOUS
  <2> QED
    BY <1>1, <2>1, <2>2, Zenon
<1> HIDE DEF Swap
<1> QED
  BY <1>2, <1>3

\* And is the number in the coil.
LEMMA CoilNumber ==
  ASSUME NEW bs \in Seq(Byte), Len(bs) = 1
  PROVE  Unsigned(bs) = bs[1] /\ bs[1] \in Nat /\ bs[1] < Base
<1>1. PICK u : Sums(u, bs) /\ Unsigned(bs) = u[Len(bs)]
  <2>1. Len(bs) \in Nat
    OBVIOUS
  <2> QED
    BY <2>1, UnsignedSums, Zenon
<1>2. u[0] = 0 /\ u[1] = u[0] * Base + bs[1]
  BY <1>1 DEF Sums
<1>3. bs[1] \in Byte /\ Base \in Nat
  <2>1. bs[1] \in Byte
    OBVIOUS
  <2> QED
    BY <2>1, PowType
<1> QED
  BY <1>1, <1>2, <1>3 DEF Byte

LEMMA WholeNumber ==
  ASSUME IInv, Whole(point), NEW hex, hex = Swap(regs, point.byteSwap, point.wordSwap)
  PROVE  HexToInteger(hex, point.type, 2 * point.width) = InDevice
<1> DEFINE bytes == 2 * point.width
           n == Unsigned(hex)
<1>1. /\ point \in PointConfig /\ (point.coil => point.width = 1)
      /\ regs \in Seq(Byte) /\ Len(regs) = (IF point.coil THEN 1 ELSE bytes)
  BY ValuesAssumption DEF IInv, RegsInv
<1>2. hex \in Seq(Byte) /\ Len(hex) = Len(regs)
  BY <1>1, ReadOrder
<1>3. bytes \in {2, 4, 8} /\ point.type \in {"int", "uint"} /\ point.width \in {1, 2, 4}
  BY <1>1, PointIs DEF Whole
<1>4. CASE point.coil
  <2>1. hex = regs
    BY <1>1, <1>4, SwapOne DEF PointConfig
  <2>2. n = regs[1] /\ n \in Nat /\ n < Base /\ bytes = 2
    BY <1>1, <1>4, <2>1, CoilNumber
  <2>3. n <= High(point.type, 2) /\ n < Pow[2]
    <3>1. /\ Pow[2] = Base * Base /\ Pow[2] = 2 * SignBit(2) /\ Base \in Nat /\ Base >= 2
          /\ SignBit(2) \in Nat
      BY Powers, Ranges, PowType
    <3>2. Base * Base >= 2 * Base
      BY <3>1
    <3> HIDE DEF n
    <3>3. n <= SignBit(2) - 1 /\ n <= Pow[2] - 1
      BY <2>2, <3>1, <3>2
    <3> QED
      BY <2>2, <3>1, <3>3 DEF High
  <2>4. HexToInteger(hex, point.type, 2) = n
    <3>1. HexToInteger(hex, point.type, 2) = IF n > High(point.type, 2) THEN n - Pow[2] ELSE n
      <4>1. Len(hex) <= 2
        BY <1>1, <1>2, <1>4
      <4>2. 2 \in Nat
        OBVIOUS
      <4> QED
        BY <1>2, <2>3, <4>1, <4>2, HexIs, Zenon
    <3>2. High(point.type, 2) \in Int
      BY LowHigh
    <3> QED
      BY <2>2, <2>3, <3>1, <3>2
  <2>5. InDevice = regs[1]
    BY <1>4 DEF InDevice
  <2> QED
    BY <2>2, <2>4, <2>5
<1>5. CASE ~point.coil
  <2>1. InDevice = IF point.type # "uint" /\ n > High("int", bytes) THEN n - Pow[bytes] ELSE n
    BY <1>1, <1>3, <1>5, DeviceNumber
  <2>2. n \in Nat /\ n < Pow[bytes]
    BY <1>1, <1>2, <1>5, UnsignedRange
  <2>3. HexToInteger(hex, point.type, bytes)
          = IF n > High(point.type, bytes) THEN n - Pow[bytes] ELSE n
    BY <1>1, <1>2, <1>3, <1>5, <2>2, HexIs
  <2>4. Pow[bytes] \in Nat /\ High("uint", bytes) = Pow[bytes] - 1
    BY <1>3, Ranges DEF High
  <2> HIDE DEF n, bytes
  <2>5. CASE point.type = "int"
    BY <2>1, <2>3, <2>5 DEF bytes
  <2>6. CASE point.type = "uint"
    BY <2>1, <2>2, <2>3, <2>4, <2>6 DEF bytes
  <2> QED
    BY <1>3, <2>5, <2>6
<1> QED
  BY <1>4, <1>5

LEMMA RealNumber ==
  ASSUME IInv, Reals(point), NEW hex, hex = Swap(regs, point.byteSwap, point.wordSwap)
  PROVE  HexToReal(hex) = InDevice
<1> DEFINE bytes == 2 * point.width
           n == Unsigned(hex)
<1>1. /\ point \in PointConfig /\ point.width \in {2, 4} /\ point.type # "uint" /\ ~point.coil
      /\ regs \in Seq(Byte) /\ Len(regs) = bytes
  BY ValuesAssumption DEF IInv, RegsInv, Reals
<1>2. hex \in Seq(Byte) /\ Len(hex) = bytes /\ bytes \in Nat
  BY <1>1, ReadOrder
<1>3. InDevice = IF n > High("int", bytes) THEN n - Pow[bytes] ELSE n
  BY <1>1, DeviceNumber
<1>4. n < Pow[bytes]
  BY <1>2, UnsignedRange
<1>5. HexToInteger(hex, "int", bytes) = IF n > High("int", bytes) THEN n - Pow[bytes] ELSE n
  BY <1>2, <1>4, HexIs
<1> QED
  BY <1>2, <1>3, <1>5 DEF HexToReal

\* What is published is the number in the device times the scale factor, for every byte and
\* word order and every width of a byte: cut off at the ends of the type's range, and 2^64 too
\* low in the upper half of the unsigned numbers of eight bytes, or to the nearest hundredth
\* (swapConversion, setScaledValue).
THEOREM PublishedCorrect == Spec => []PublishedIsRight
<1>1. IInv => PublishedIsRight
  <2> SUFFICES ASSUME IInv PROVE PublishedIsRight
    OBVIOUS
  <2>1. PICK hex : hex = Swap(regs, point.byteSwap, point.wordSwap)
    OBVIOUS
  <2> DEFINE s == published.scaled
  <2>2. PublishedIsScaledValue
    <3> DEFINE bytes == 2 * point.width
               lo == Low(point.type, ProductBytes(bytes))
               hi == High(point.type, ProductBytes(bytes))
               x == Trunc(Times(InDevice, point.scale))
               y == Clamp(x, Low(point.type, bytes), High(point.type, bytes))
    <3> SUFFICES ASSUME published.kind = "response", s.kind = "integer", x \in lo..hi
                 PROVE  s.n = IF y > High(PublishedType(point), bytes) THEN y - Pow[bytes] ELSE y
      BY DEF PublishedIsScaledValue
    <3>1. point \in PointConfig /\ hex \in Seq(Byte) /\ s \in SetScaled(hex, point)
      BY <2>1, ResponseIs
    <3>2. Whole(point) /\ s \in ScaledInteger(hex, point)
      BY <3>1, SetScaledIs
    <3>3. HexToInteger(hex, point.type, bytes) = InDevice
      BY <2>1, <3>2, WholeNumber
    <3>4. Trunc(Times(HexToInteger(hex, point.type, bytes), point.scale)) \in lo..hi
            => s.n = Envelope(Clamp(Trunc(Times(HexToInteger(hex, point.type, bytes), point.scale)),
                                    Low(point.type, bytes), High(point.type, bytes)))
      BY <3>1, <3>2, ScaledIntegerIs
    <3>5. s.n = Envelope(y)
      BY <3>3, <3>4, Zenon
    <3>6. y \in Int /\ Low(point.type, bytes) <= y /\ y <= High(point.type, bytes)
      <4>1. bytes \in {2, 4, 8} /\ ProductBytes(bytes) \in {4, 8}
        BY <3>1, <3>2, PointIs
      <4>2. lo \in Int /\ hi \in Int
        BY <4>1, LowHigh
      <4>3. /\ Low(point.type, bytes) \in Int /\ High(point.type, bytes) \in Int
            /\ Low(point.type, bytes) <= High(point.type, bytes)
        BY <4>1, LowHigh
      <4> HIDE DEF bytes, x, lo, hi
      <4>4. x \in Int
        BY <4>2
      <4> QED
        BY <4>3, <4>4, ClampIn
    <3> HIDE DEF y
    <3>7. Envelope(y) = IF y > High(PublishedType(point), bytes) THEN y - Pow[bytes] ELSE y
      BY <3>1, <3>2, <3>6, EnvelopeIs
    <3> QED
      BY <3>5, <3>7
  <2>3. PublishedIsNearest
    <3> DEFINE max == HighReal(2 * point.width)
               q == Times(InDevice, point.scale)
    <3> SUFFICES ASSUME published.kind = "response", s.kind = "real", Abs(q[1]) <= max * q[2]
                 PROVE  Abs(2 * s.n * q[2] - q[1]) <= q[2]
      BY DEF PublishedIsNearest
    <3>1. point \in PointConfig /\ hex \in Seq(Byte) /\ s \in SetScaled(hex, point)
      BY <2>1, ResponseIs
    <3>2. Reals(point) /\ s \in ScaledReal(hex, point)
      BY <3>1, SetScaledIs
    <3>3. HexToReal(hex) = InDevice
      BY <2>1, <3>2, RealNumber
    <3>4. LET r == Times(HexToReal(hex), point.scale) IN
          Abs(r[1]) <= max * r[2] => Abs(2 * s.n * r[2] - r[1]) <= r[2]
      BY <3>1, <3>2, ScaledRealIs
    <3> QED
      BY <3>3, <3>4, Zenon
  <2> QED
    BY <2>2, <2>3 DEF PublishedIsRight
<1> QED
  BY <1>1, InvariantHolds, PTL

-----------------------------------------------------------------------------
(* What is read back *)

\* A coil that the device accepted: hex2bin and the byte swap leave its two bytes in the order
\* that the device wants.
LEMMA CoilBack ==
  ASSUME NEW p \in PointConfig, p.coil, p.width = 1, NEW bs, CoilData(bs).kind = "data",
         NEW w, w = HexToBin(SwapForWrite(CoilData(bs).bytes, p), 2), Executes(w.bytes, p)
  PROVE  Stored(w.bytes, p) = bs
<1> DEFINE cb == CoilData(bs).bytes
<1>1. 0 \in Byte /\ Base - 1 \in Byte /\ Base - 1 # 0
  BY PowType DEF Byte
<1>2. \/ bs = <<0>> /\ cb = <<0, 0>>
      \/ bs = <<1>> /\ cb = <<Base - 1, 0>>
  BY DEF CoilData, Nothing
<1> HIDE DEF cb
<1>3. cb \in Seq(Byte) /\ Len(cb) = 2
  <2>1. PICK x \in Byte, z \in Byte : cb = <<x, z>>
    BY <1>1, <1>2, Zenon
  <2> QED
    BY <2>1
<1>4. w.bytes \in Seq(Byte) /\ Len(w.bytes) = 2 /\ Swap(w.bytes, p.byteSwap, p.wordSwap) = cb
  <2>1. Len(cb) % 2 = 0
    BY <1>3
  <2>2. w = HexToBin(SwapForWrite(cb, p), Len(cb))
    BY <1>3 DEF cb
  <2>3. LET h == HexToBin(SwapForWrite(cb, p), Len(cb)) IN
        /\ h.kind = "data" /\ h.bytes \in Seq(Byte) /\ Len(h.bytes) = Len(cb)
        /\ Swap(h.bytes, p.byteSwap, p.wordSwap) = cb
    BY <1>3, <2>1, SwapBack, Zenon
  <2> QED
    BY <1>3, <2>2, <2>3, Zenon
<1>5. w.bytes \in {<<0, 0>>, <<0, Base - 1>>}
  BY DEF Executes
<1>6. PICK f \in [1..2 -> 1..2] : (\A i \in 1..2 : cb[i] = w.bytes[f[i]]) /\ f[1] # f[2]
  <2> DEFINE src(i) == FromDevice(p, 2, i - 1) + 1
  <2>1. \A i \in 1..2 : cb[i] = w.bytes[src(i)]
    <3>1. LET r == Swap(w.bytes, p.byteSwap, p.wordSwap) IN
          \A i \in 1..Len(w.bytes) : r[i] = w.bytes[FromDevice(p, Len(w.bytes), i - 1) + 1]
      BY <1>4, ReadOrder, Zenon
    <3> QED
      BY <1>4, <3>1, Zenon
  <2>2. src(1) = (IF p.byteSwap THEN 1 ELSE 2) /\ src(2) = (IF p.byteSwap THEN 2 ELSE 1)
    BY DEF FromDevice, Source
  <2> HIDE DEF src
  <2>3. PICK g : g = [i \in 1..2 |-> src(i)]
    OBVIOUS
  <2>4. g \in [1..2 -> 1..2] /\ g[1] = src(1) /\ g[2] = src(2)
    BY <2>2, <2>3
  <2>5. \A i \in 1..2 : cb[i] = w.bytes[g[i]]
    BY <2>1, <2>3
  <2> QED
    BY <2>2, <2>4, <2>5
<1>7. cb[1] = w.bytes[f[1]] /\ cb[2] = w.bytes[f[2]] /\ f[1] # f[2] /\ f[1] \in {1, 2} /\ f[2] \in {1, 2}
  BY <1>6
<1>8. Stored(w.bytes, p) = <<IF w.bytes[2] = 0 THEN 0 ELSE 1>>
  BY DEF Stored
<1>9. CASE bs = <<0>> /\ cb = <<0, 0>>
  <2>1. w.bytes[2] = 0
    BY <1>7, <1>9
  <2> QED
    BY <1>8, <1>9, <2>1
<1>10. CASE bs = <<1>> /\ cb = <<Base - 1, 0>>
  <2>1. w.bytes # <<0, 0>>
    <3> SUFFICES ASSUME w.bytes = <<0, 0>> PROVE FALSE
      OBVIOUS
    <3>1. cb[1] = 0
      BY <1>7
    <3> QED
      BY <1>1, <1>10, <3>1
  <2>2. w.bytes[2] = Base - 1
    BY <1>5, <2>1
  <2> QED
    BY <1>1, <1>8, <1>10, <2>2
<1> QED
  BY <1>2, <1>9, <1>10

\* What is read is the hexadecimal string that the command was made into.
LEMMA HexBack ==
  ASSUME IInv, done # Nothing, NEW hex, hex = Swap(regs, point.byteSwap, point.wordSwap)
  PROVE  \E h \in HexOf(done, point) : IsData(h) /\ h.bytes = hex
<1>1. /\ point \in PointConfig /\ (point.coil => point.width = 1) /\ done \in Command
      /\ point.width \in Nat
  BY ValuesAssumption, PointIs DEF IInv, DoneInv
<1>2. PICK h \in HexOf(done, point) :
        LET w == WriteData(h, point) IN
        w.kind = "data" /\ Executes(w.bytes, point) /\ regs = Stored(w.bytes, point)
  BY DEF IInv, DoneInv
<1> DEFINE w == WriteData(h, point)
           n == 2 * point.width
<1>3. IsData(h)
  <2>1. h = Nothing \/ IsData(h)
    BY <1>1, HexOfType
  <2>2. h # Nothing
    BY <1>2 DEF WriteData, Nothing
  <2> QED
    BY <2>1, <2>2
<1>4. CASE point.coil
  <2>1. /\ CoilData(h.bytes).kind = "data"
        /\ w = HexToBin(SwapForWrite(CoilData(h.bytes).bytes, point), 2)
    BY <1>1, <1>2, <1>3, <1>4 DEF WriteData, IsData, Nothing
  <2>2. regs = h.bytes
    BY <1>1, <1>2, <1>4, <2>1, CoilBack
  <2>3. Len(regs) = 1 /\ regs \in Seq(Byte)
    BY <1>4 DEF IInv, RegsInv
  <2>4. hex = regs
    BY <1>1, <2>3, SwapOne DEF PointConfig
  <2> QED
    BY <1>3, <2>2, <2>4
<1>5. CASE ~point.coil
  <2>1. w = HexToBin(SwapForWrite(h.bytes, point), n) /\ w.kind = "data" /\ regs = w.bytes
    BY <1>2, <1>3, <1>5 DEF WriteData, IsData, Nothing, Stored
  <2>2. h.bytes \in Seq(Byte)
    BY <1>3 DEF IsData
  <2>3. Len(h.bytes) = n
    <3>1. Len(SwapForWrite(h.bytes, point)) = Len(h.bytes)
      BY <1>1, <2>2, WriteOrder
    <3>2. Len(SwapForWrite(h.bytes, point)) = n
      BY <2>1 DEF HexToBin, Nothing
    <3> QED
      BY <3>1, <3>2
  <2>4. n % 2 = 0
    BY <1>1
  <2>5. Swap(w.bytes, point.byteSwap, point.wordSwap) = h.bytes
    <3> HIDE DEF n, w
    <3>1. w = HexToBin(SwapForWrite(h.bytes, point), Len(h.bytes)) /\ Len(h.bytes) % 2 = 0
      BY <2>1, <2>3, <2>4
    <3> QED
      BY <1>1, <2>2, <3>1, SwapBack, Zenon
  <2> QED
    BY <1>3, <2>1, <2>5
<1> QED
  BY <1>4, <1>5

\* A number divided by a scale factor and multiplied with it.
LEMMA ThereAndBack ==
  ASSUME NEW n \in Int, NEW a \in Int \ {0}, NEW d \in Nat \ {0},
         NEW y, y = Trunc(<<n * d * Sign(a), Abs(a)>>), NEW z, z = Trunc(<<y * a, d>>)
  PROVE  /\ y \in Int /\ z \in Int
         /\ 0 <= n => 0 <= z /\ z <= n
         /\ n < 0 => n <= z /\ z <= 0
         /\ d * Abs(z - n) < Abs(a) + d
<1> DEFINE A == Abs(a)
           e == n * d
           N == n * d * Sign(a)
           g == A * y
           m == y * a
           f == d * z
<1>1. /\ A \in Nat \ {0} /\ e \in Int
      /\ \/ a > 0 /\ A = a /\ N = e
         \/ a < 0 /\ A = -a /\ N = -e
  <2>1. e \in Int
    OBVIOUS
  <2>2. CASE a > 0
    <3>1. N = e * 1
      BY <2>2 DEF Sign
    <3> QED
      BY <2>1, <2>2, <3>1 DEF Abs
  <2>3. CASE a < 0
    <3>1. N = e * (-1)
      BY <2>3 DEF Sign
    <3> QED
      BY <2>1, <2>3, <3>1 DEF Abs
  <2> QED
    BY <2>2, <2>3
<1>2. (0 <= n => 0 <= e) /\ (n < 0 => e < 0)
  OBVIOUS
<1>3. /\ y \in Int
      /\ 0 <= N => 0 <= y /\ g <= N /\ N < g + A
      /\ N < 0 => y <= 0 /\ N <= g /\ g - A < N
  <2>1. N \in Int
    BY <1>1
  <2>2. y = Trunc(<<N, A>>)
    OBVIOUS
  <2> HIDE DEF N, A
  <2> QED
    BY <1>1, <2>1, <2>2, TruncIs
<1>4. g \in Int /\ m \in Int /\ (a > 0 => m = g) /\ (a < 0 => m = -g)
  <2>1. A * y \in Int /\ y * a \in Int
    BY <1>1, <1>3
  <2>2. a > 0 => A * y = y * a
    BY <1>1, <1>3
  <2>3. a < 0 => A * y = -(y * a)
    BY <1>1, <1>3
  <2> QED
    BY <2>1, <2>2, <2>3
<1>5. /\ z \in Int /\ f \in Int
      /\ 0 <= m => 0 <= z /\ f <= m /\ m < f + d
      /\ m < 0 => z <= 0 /\ m <= f /\ f - d < m
  <2>1. z = Trunc(<<m, d>>)
    OBVIOUS
  <2> HIDE DEF m
  <2>2. /\ z \in Int
        /\ 0 <= m => 0 <= z /\ f <= m /\ m < f + d
        /\ m < 0 => z <= 0 /\ m <= f /\ f - d < m
    BY <1>4, <2>1, TruncIs
  <2> QED
    BY <2>2
<1>6. (0 <= y => 0 <= g) /\ (y <= 0 => g <= 0)
  <2> HIDE DEF A
  <2> QED
    BY <1>1, <1>3
<1>7. d * (z - n) = f - e /\ (z > n => f >= e + d) /\ (z < n => f + d <= e)
      /\ (z > 0 => f > 0)
  <2>1. d * (z - n) = d * z - n * d
    BY <1>5
  <2>2. z > n => d * (z - n) >= d
    BY <1>5
  <2>3. z < n => d * (n - z) >= d
    BY <1>5
  <2>4. d * (n - z) = n * d - d * z
    BY <1>5
  <2>5. z > 0 => d * z > 0
    BY <1>5
  <2> QED
    BY <1>1, <1>5, <2>1, <2>2, <2>3, <2>4, <2>5
<1> HIDE DEF A, e, N, g, m, f
<1>8. CASE 0 <= n
  <2>1. 0 <= m /\ m <= e /\ e < m + A
    BY <1>1, <1>2, <1>3, <1>4, <1>6, <1>8
  <2>2. 0 <= z /\ z <= n
    BY <1>1, <1>4, <1>5, <1>7, <1>8, <2>1
  <2>3. d * (n - z) = e - f
    <3>1. d * (n - z) = -(d * (z - n))
      BY <1>5
    <3> QED
      BY <1>1, <1>5, <1>7, <3>1
  <2>4. Abs(z - n) = n - z
    BY <1>5, <2>2 DEF Abs
  <2>5. e - f < A + d
    BY <1>1, <1>4, <1>5, <2>1
  <2> QED
    BY <1>3, <1>5, <1>8, <2>2, <2>3, <2>4, <2>5 DEF A
<1>9. CASE n < 0
  <2>1. m <= 0 /\ e <= m /\ m < e + A
    BY <1>1, <1>2, <1>3, <1>4, <1>6, <1>9
  <2>2. z <= 0 /\ n <= z
    BY <1>1, <1>4, <1>5, <1>7, <1>9, <2>1
  <2>3. Abs(z - n) = z - n
    BY <1>5, <2>2 DEF Abs
  <2>4. f - e < A + d
    BY <1>1, <1>4, <1>5, <2>1
  <2> QED
    BY <1>3, <1>5, <1>7, <1>9, <2>2, <2>3, <2>4 DEF A
<1> QED
  BY <1>8, <1>9

\* A remainder is unique.
LEMMA RemainderIs ==
  ASSUME NEW x \in Int, NEW d \in Nat, d >= 1, NEW q \in Int, NEW r \in Nat, r < d, x = d * q + r
  PROVE  x % d = r
<1>1. PICK s \in Int, t \in Nat : s = x \div d /\ t = x % d /\ x = d * s + t /\ t < d
  OBVIOUS
<1>2. d * (q - s) = t - r
  <2>1. d * (q - s) = d * q - d * s
    OBVIOUS
  <2>2. d * q \in Int /\ d * s \in Int
    OBVIOUS
  <2> QED
    BY <1>1, <2>1, <2>2
<1>3. q - s >= 1 => d * (q - s) >= d
  OBVIOUS
<1>4. q - s <= -1 => d * (q - s) <= -d
  OBVIOUS
<1>5. q - s = 0
  BY <1>1, <1>2, <1>3, <1>4
<1>6. d * (q - s) = 0
  BY <1>5
<1> QED
  BY <1>1, <1>2, <1>6

\* The bytes of a number of the type, read as the type.
LEMMA IntegerBack ==
  ASSUME NEW b \in {2, 4, 8}, NEW type, NEW y \in Int, Low(type, b) <= y, y <= High(type, b)
  PROVE  HexToInteger(IntegerToHex(y, b), type, b) = y
<1> DEFINE hex == IntegerToHex(y, b)
           P == Pow[b]
           n == y % P
<1>1. /\ P \in Nat /\ SignBit(b) \in Nat /\ SignBit(b) >= 1 /\ P = 2 * SignBit(b) /\ P >= 1
  BY Ranges, PowType
<1>2. hex \in Seq(Byte) /\ Len(hex) = b /\ Unsigned(hex) = n
  BY HexType, HexReadsBack
<1>3. n \in Nat /\ n < P
  BY <1>1
<1>4. HexToInteger(hex, type, b) = IF n > High(type, b) THEN n - P ELSE n
  BY <1>2, <1>3, HexIs
<1>5. CASE 0 <= y
  <2>1. n = y
    <3>1. y < P
      BY <1>1 DEF High
    <3> QED
      BY <1>1, <1>5, <3>1
  <2> HIDE DEF n
  <2> QED
    BY <1>4, <1>5, <2>1, LowHigh DEF hex
<1>6. CASE y < 0
  <2>1. type = "int" /\ -SignBit(b) <= y
    BY <1>6 DEF Low
  <2>2. n = y + P
    <3> HIDE DEF P
    <3>1. PICK q \in Int, r \in Nat : r = y + P /\ r < P /\ y = P * q + r
      <4>1. y + P \in Nat /\ y + P < P /\ y = P * (-1) + (y + P) /\ -1 \in Int
        BY <1>1, <1>6, <2>1
      <4> QED
        BY <4>1, Zenon
    <3>2. y % P = r
      BY <1>1, <3>1, RemainderIs, Zenon
    <3> QED
      BY <3>1, <3>2
  <2> HIDE DEF n, P
  <2>3. n > High(type, b)
    BY <1>1, <1>6, <2>1, <2>2 DEF High
  <2> QED
    BY <1>1, <1>4, <2>2, <2>3 DEF hex
<1> QED
  BY <1>5, <1>6

\* A scaled integer that was commanded is in the registers as its quotient by the scale factor,
\* where that is a number of the type.
LEMMA CommandedInteger ==
  ASSUME IInv, Whole(point), done.kind = "integer",
         NEW hex, hex = Swap(regs, point.byteSwap, point.wordSwap),
         NEW y, y = Trunc(Quotient(done, point)),
         Low(point.type, 2 * point.width) <= y, y <= High(point.type, 2 * point.width)
  PROVE  y \in Int /\ HexToInteger(hex, point.type, 2 * point.width) = y
<1> DEFINE b == 2 * point.width
           type == IF point.type = "uint" /\ b = 8 THEN "uint" ELSE "int"
<1>1. /\ point \in PointConfig /\ b \in {2, 4, 8} /\ point.type \in {"int", "uint"}
  BY ValuesAssumption, PointIs DEF IInv, Whole
<1>2. done # Nothing /\ done \in Command
  BY ValuesAssumption DEF IInv, DoneInv, Nothing
<1>3. done.n \in Int
  BY <1>2, CommandIs
<1>4. PICK x \in Int, d \in Nat \ {0} : Quotient(done, point) = <<x, d>>
  BY <1>1, <1>3, OverIs DEF Quotient
<1>5. y \in Int
  BY <1>4, TruncIs
<1>6. PICK h \in HexOf(done, point) : IsData(h) /\ h.bytes = hex
  BY <1>2, HexBack
<1>7. h \in ReverseInteger(done, point)
  BY <1>6 DEF HexOf, ReverseScaled, Whole
<1>8. Cast(Quotient(done, point), type, 8) = {y}
  <2>1. Low(type, 8) <= y /\ y <= High(type, 8)
    <3>1. type \in {"int", "uint"} /\ (type = "uint" <=> point.type = "uint" /\ b = 8)
      BY <1>1
    <3> HIDE DEF type, b
    <3> QED
      BY <1>1, <1>5, <3>1, Wider DEF b
  <2> HIDE DEF type
  <2> QED
    BY <1>4, <2>1, CastIs
<1>9. h = [kind |-> "data", bytes |-> IntegerToHex(InRange(y, point), b)]
  <2>1. PICK x1 \in Cast(Quotient(done, point), type, 8) :
          h = [kind |-> "data", bytes |-> IntegerToHex(InRange(x1, point), b)]
    BY <1>7 DEF ReverseInteger
  <2> QED
    BY <1>8, <2>1
<1>10. InRange(y, point) = y
  <2> HIDE DEF b
  <2>1. Low(point.type, b) \in Int /\ High(point.type, b) \in Int
        /\ Low(point.type, b) <= High(point.type, b)
    BY <1>1, LowHigh
  <2>2. Clamp(y, Low(point.type, b), High(point.type, b)) = y
    BY <1>5, <2>1, ClampIn DEF b
  <2> QED
    BY <2>2 DEF InRange, b
<1>11. hex = IntegerToHex(y, b)
  BY <1>6, <1>9, <1>10
<1> HIDE DEF b
<1>12. HexToInteger(IntegerToHex(y, b), point.type, b) = y
  BY <1>1, <1>5, IntegerBack DEF b
<1> QED
  BY <1>5, <1>11, <1>12 DEF b

\* A value that was commanded is the value that is read, for every byte and word order and for
\* coils, and a scaled integer is read to less than one step of the scale and one of the
\* integers (jsonParserForOnDemandRequest against prepareResponseJson).
THEOREM ReadsBackCorrect == Spec => []ReadsBack
<1>1. IInv => ReadsBack
  <2> SUFFICES ASSUME IInv PROVE ReadsBack
    OBVIOUS
  <2>1. PICK hex : hex = Swap(regs, point.byteSwap, point.wordSwap)
    OBVIOUS
  <2>2. ValueReadsBack
    <3> SUFFICES ASSUME done.kind = "value", published.kind = "response"
                 PROVE  published.value = done.bytes
      BY DEF ValueReadsBack
    <3>1. published.value = hex
      BY <2>1, ResponseIs
    <3>2. done # Nothing
      BY DEF Nothing
    <3>3. PICK h \in HexOf(done, point) : IsData(h) /\ h.bytes = hex
      BY <2>1, <3>2, HexBack
    <3>4. h.bytes = done.bytes
      BY <3>3 DEF HexOf
    <3> QED
      BY <3>1, <3>3, <3>4
  <2>3. ScaledReadsBack
    <3> DEFINE bytes == 2 * point.width
               lo == Low(point.type, bytes)
               hi == High(point.type, bytes)
               n == done.n
               a == point.scale[1]
               d == point.scale[2]
               y == Trunc(Over(n, point.scale))
               z == Trunc(Times(y, point.scale))
               s == published.scaled
    <3> SUFFICES ASSUME done.kind = "integer", published.kind = "response", s.kind = "integer",
                        n \in lo..hi, n <= High("int", 8), y \in lo..hi
                 PROVE  d * Abs(s.n - n) < Abs(a) + d
      BY DEF ScaledReadsBack
    <3>1. point \in PointConfig /\ hex \in Seq(Byte) /\ s \in SetScaled(hex, point)
      BY <2>1, ResponseIs
    <3>2. Whole(point) /\ s \in ScaledInteger(hex, point)
      BY <3>1, SetScaledIs
    <3>3. /\ bytes \in {2, 4, 8} /\ point.type \in {"int", "uint"}
          /\ a \in Int \ {0} /\ d \in Nat \ {0}
      BY <3>1, <3>2, PointIs DEF Whole
    <3>4. lo \in Int /\ hi \in Int /\ lo <= 0 /\ 0 <= hi
      BY <3>3, LowHigh
    <3>5. y \in Int /\ n \in Int /\ lo <= y /\ y <= hi /\ lo <= n /\ n <= hi
      BY <3>4
    <3>6. HexToInteger(hex, point.type, bytes) = y
      BY <2>1, <3>2, <3>5, CommandedInteger DEF Quotient
    <3>7. /\ z \in Int
          /\ 0 <= n => 0 <= z /\ z <= n
          /\ n < 0 => n <= z /\ z <= 0
          /\ d * Abs(z - n) < Abs(a) + d
      <4>1. y = Trunc(<<n * d * Sign(a), Abs(a)>>) /\ z = Trunc(<<y * a, d>>)
        BY DEF Over, Times
      <4> HIDE DEF n, d, a, y, z
      <4> QED
        BY <3>3, <3>5, <4>1, ThereAndBack
    <3> HIDE DEF lo, hi, n, y, a, d
    <3>8. lo <= z /\ z <= hi
      BY <3>4, <3>5, <3>7
    <3> HIDE DEF z
    <3>9. z \in Low(point.type, ProductBytes(bytes))..High(point.type, ProductBytes(bytes))
      <4> HIDE DEF bytes
      <4>1. Low(point.type, ProductBytes(bytes)) <= z /\ z <= High(point.type, ProductBytes(bytes))
        BY <3>3, <3>7, <3>8, Wider DEF lo, hi
      <4>2. ProductBytes(bytes) \in {4, 8}
        BY <3>3 DEF ProductBytes
      <4>3. Low(point.type, ProductBytes(bytes)) \in Int /\ High(point.type, ProductBytes(bytes)) \in Int
        BY <4>2, LowHigh
      <4> QED
        BY <3>7, <4>1, <4>3
    <3>10. s.n = Envelope(Clamp(z, lo, hi))
      <4>1. LET x == Trunc(Times(HexToInteger(hex, point.type, bytes), point.scale)) IN
            x \in Low(point.type, ProductBytes(bytes))..High(point.type, ProductBytes(bytes))
              => s.n = Envelope(Clamp(x, Low(point.type, bytes), High(point.type, bytes)))
        BY <3>1, <3>2, ScaledIntegerIs
      <4>2. Trunc(Times(HexToInteger(hex, point.type, bytes), point.scale)) = z
        BY <3>6 DEF z
      <4> QED
        BY <3>9, <4>1, <4>2, Zenon DEF lo, hi
    <3>11. s.n = z
      <4>1. Clamp(z, lo, hi) = z
        BY <3>4, <3>7, <3>8, ClampIn
      <4>2. High("int", 8) \in Int /\ 0 <= High("int", 8)
        BY LowHigh
      <4>3. z <= High("int", 8)
        BY <3>5, <3>7, <4>2
      <4> QED
        BY <3>7, <3>10, <4>1, <4>2, <4>3 DEF Envelope
    <3> QED
      BY <3>7, <3>11
  <2> QED
    BY <2>2, <2>3 DEF ReadsBack
<1> QED
  BY <1>1, InvariantHolds, PTL
=============================================================================
