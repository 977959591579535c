--------------------------- MODULE NumberTheorems ---------------------------
(***************************************************************************)
(* Facts about numbers that the proofs cite by name: the least element of a*)
(* set of naturals, which is the form induction takes here, functions      *)
(* defined step by step, quotients and remainders, powers of two, and      *)
(* indices that wrap: the rings of works, image buffers and audio packets  *)
(* are indexed by a count modulo the size of the ring.                     *)
(***************************************************************************)
EXTENDS Integers, FiniteSetTheorems, FunctionTheorems, TLAPS

(* A nonempty set of natural numbers has a smallest element: the form of   *)
(* induction the proofs below use.                                         *)
LEMMA Smallest ==
  ASSUME NEW S \in SUBSET Nat, S # {}
  PROVE  \E x \in S : \A y \in S : x <= y
<1>1. IsWellFoundedOn(OpToRel(<, Nat), Nat)
  BY NatLessThanWellFounded
<1>2. S \subseteq Nat
  OBVIOUS
<1>3. PICK x \in S : \A y \in S : ~ (<<y, x>> \in OpToRel(<, Nat))
  BY <1>1, <1>2, WFMin, Zenon
<1>4. \A y \in S : ~ (y < x)
  BY <1>3 DEF OpToRel
<1> QED BY <1>4

(* A function defined step by step from its first value exists.            *)
Steps(T, start, n, step) ==
  n \in Nat /\ start \in T /\ step \in [1..n -> [T -> T]]

Iterates(f, T, start, n, step) ==
  /\ f \in [0..n -> T]
  /\ f[0] = start
  /\ \A m \in 1..n : f[m] = step[m][f[m - 1]]

(* There is a function that takes these steps.                             *)
LEMMA Recursion ==
  ASSUME NEW T, NEW start, NEW n, NEW step, Steps(T, start, n, step)
  PROVE  \E f : Iterates(f, T, start, n, step)
<1>0. n \in Nat /\ start \in T /\ step \in [1..n -> [T -> T]]
  BY DEF Steps
<1> USE <1>0
<1> DEFINE Ok(k, f) == f[0] = start /\ \A m \in 1..k : f[m] = step[m][f[m - 1]]
           S == {k \in 0..n : ~ \E f \in [0..k -> T] : Ok(k, f)}
<1> SUFFICES ASSUME S # {} PROVE FALSE
  <2> SUFFICES \E f \in [0..n -> T] : Ok(n, f)
    BY DEF Iterates
  <2>1. CASE S = {}
    <3>1. n \in 0..n
      OBVIOUS
    <3>2. \E f \in [0..n -> T] : Ok(n, f)
      <4> HIDE DEF Ok
      <4> QED BY <2>1, <3>1, Zenon
    <3> QED BY <3>2, Zenon
  <2> QED BY <2>1
<1>1. S \in SUBSET Nat
  OBVIOUS
<1>2. PICK k \in S : \A m \in S : k <= m
  BY <1>1, Smallest
<1>3. k # 0
  <2>1. [m \in 0..0 |-> start] \in [0..0 -> T] /\ Ok(0, [m \in 0..0 |-> start])
    OBVIOUS
  <2> QED BY <1>2, <2>1
<1>4. k \in 1..n /\ k - 1 \in 0..n /\ k - 1 \notin S
  <2>1. k \in 0..n
    OBVIOUS
  <2>2. k \in 1..n /\ k - 1 \in 0..n /\ ~(k <= k - 1)
    BY <1>3, <2>1
  <2> HIDE DEF S
  <2> QED BY <1>2, <2>2, Zenon
<1>5. PICK f \in [0..k - 1 -> T] : Ok(k - 1, f)
  BY <1>4
<1> DEFINE g == [m \in 0..k |-> IF m = k THEN step[k][f[k - 1]] ELSE f[m]]
<1>6. f[k - 1] \in T /\ step[k][f[k - 1]] \in T
  BY <1>4, <1>5
<1>7. g \in [0..k -> T]
  BY <1>4, <1>5, <1>6
<1>8. g[0] = start
  BY <1>4, <1>5
<1>9. ASSUME NEW m \in 1..k PROVE g[m] = step[m][g[m - 1]]
  <2>1. g[m - 1] = f[m - 1]
    BY <1>4
  <2>2. CASE m = k
    BY <1>4, <2>1, <2>2
  <2>3. CASE m # k
    <3>1. m \in 1..k - 1 /\ g[m] = f[m]
      BY <1>4, <2>3
    <3> QED BY <1>5, <2>1, <3>1
  <2> QED BY <2>2, <2>3
<1>10. Ok(k, g)
  BY <1>8, <1>9
<1> QED BY <1>2, <1>7, <1>10

-----------------------------------------------------------------------------
(***************************************************************************)
(* Powers of two, for shifts.                                              *)
(***************************************************************************)

(* Powers of two are counted by the subsets of an interval.                *)
LEMMA PowerIsCount ==
  ASSUME NEW n \in Nat
  PROVE  /\ IsFiniteSet(SUBSET (1..n))
         /\ 2^n = Cardinality(SUBSET (1..n))
         /\ 2^n \in Nat
<1>1. IsFiniteSet(1..n) /\ Cardinality(1..n) = n
  BY FS_Interval
<1>2. IsFiniteSet(SUBSET (1..n)) /\ Cardinality(SUBSET (1..n)) = 2^n
  BY <1>1, FS_SUBSET, Zenon
<1> QED BY <1>2, FS_CardinalityType

(* The next power of two: a new element is in a subset or not.             *)
LEMMA PowerNext ==
  ASSUME NEW n \in Nat
  PROVE  2^(n + 1) = 2 * 2^n
<1> DEFINE A == SUBSET (1..n)
           B == {T \cup {n + 1} : T \in A}
           f == [T \in A |-> T \cup {n + 1}]
<1>1. IsFiniteSet(A) /\ 2^n = Cardinality(A) /\ 2^n \in Nat
  BY PowerIsCount
<1>2. 2^(n + 1) = Cardinality(SUBSET (1..n + 1))
  <2>1. n + 1 \in Nat
    OBVIOUS
  <2> QED BY <2>1, PowerIsCount, Zenon
<1>3. SUBSET (1..n + 1) = A \cup B
  <2>1. ASSUME NEW T \in SUBSET (1..n + 1)
        PROVE  T \in A \cup B
    <3>1. CASE n + 1 \in T
      <4>1. T \ {n + 1} \in A /\ T = (T \ {n + 1}) \cup {n + 1}
        BY <3>1
      <4> QED BY <4>1
    <3>2. CASE n + 1 \notin T
      BY <3>2
    <3> QED BY <3>1, <3>2
  <2>2. ASSUME NEW T \in A \cup B
        PROVE  T \in SUBSET (1..n + 1)
    OBVIOUS
  <2> QED BY <2>1, <2>2, Zenon
<1>4. A \cap B = {}
  OBVIOUS
<1>5. f \in Bijection(A, B)
  <2>1. f \in [A -> B]
    OBVIOUS
  <2>2. ASSUME NEW a \in A, NEW b \in A, f[a] = f[b]
        PROVE  a = b
    <3>1. a \cup {n + 1} = b \cup {n + 1} /\ n + 1 \notin a /\ n + 1 \notin b
      BY <2>2
    <3> QED BY <3>1
  <2>3. \A t \in B : \E s \in A : f[s] = t
    OBVIOUS
  <2> QED BY <2>1, <2>2, <2>3, Fun_IsBij, Zenon
<1>6. IsFiniteSet(B) /\ Cardinality(B) = Cardinality(A)
  <2>1. ExistsBijection(A, B)
    BY <1>5, Zenon DEF ExistsBijection
  <2> QED BY <1>1, <2>1, FS_Bijection, Zenon
<1> HIDE DEF A, B, f
<1>7. Cardinality(A \cup B) = Cardinality(A) + Cardinality(B) - Cardinality({})
  BY <1>1, <1>4, <1>6, FS_Union
<1>8. Cardinality({}) = 0
  BY FS_EmptySet
<1>9. Cardinality(SUBSET (1..n + 1)) = Cardinality(A) + Cardinality(A) - 0
  BY <1>3, <1>6, <1>7, <1>8, Zenon
<1>10. 2^(n + 1) = 2^n + 2^n - 0
  BY <1>1, <1>2, <1>9, Zenon
<1> QED BY <1>1, <1>10

(* Powers of two are positive.                                             *)
LEMMA PowerPositive ==
  ASSUME NEW n \in Nat
  PROVE  2^n \in Nat \ {0}
<1>1. IsFiniteSet(SUBSET (1..n)) /\ 2^n = Cardinality(SUBSET (1..n)) /\ 2^n \in Nat
  BY PowerIsCount
<1>2. {} \in SUBSET (1..n)
  OBVIOUS
<1>3. Cardinality(SUBSET (1..n)) # 0
  BY <1>1, <1>2, FS_EmptySet
<1> QED BY <1>1, <1>3

(* Shifts add up.                                                          *)
LEMMA PowerSum ==
  ASSUME NEW a \in Nat, NEW b \in Nat
  PROVE  2^(a + b) = 2^a * 2^b
<1> DEFINE S == {n \in Nat : 2^(a + n) # 2^a * 2^n}
<1> SUFFICES ASSUME S # {} PROVE FALSE
  OBVIOUS
<1>1. PICK n \in S : \A m \in S : n <= m
  BY Smallest
<1>2. n # 0
  <2>1. 2^0 = 1
    OBVIOUS
  <2>2. 2^a \in Nat
    BY PowerPositive
  <2>3. 2^(a + 0) = 2^a * 2^0
    BY <2>1, <2>2
  <2> QED BY <1>1, <2>3
<1>3. n - 1 \in Nat /\ 2^(a + (n - 1)) = 2^a * 2^(n - 1)
  BY <1>1, <1>2
<1>4. 2^(a + n) = 2 * 2^(a + (n - 1))
  <2>1. a + (n - 1) \in Nat /\ (a + (n - 1)) + 1 = a + n
    BY <1>3
  <2> QED BY <2>1, PowerNext
<1>5. 2^n = 2 * 2^(n - 1)
  <2>1. (n - 1) + 1 = n
    BY <1>3
  <2> QED BY <1>3, <2>1, PowerNext
<1>6. 2^a \in Nat /\ 2^(n - 1) \in Nat
  BY <1>3, PowerPositive
<1> QED BY <1>1, <1>3, <1>4, <1>5, <1>6

-----------------------------------------------------------------------------
(***************************************************************************)
(* Quotients and remainders of integers.                                   *)
(***************************************************************************)

(* Quotient and remainder of an integer, rounded down.                     *)
LEMMA IntDivMod ==
  ASSUME NEW w \in Nat \ {0}, NEW n \in Int
  PROVE  /\ n = w * (n \div w) + (n % w)
         /\ n % w \in 0 .. w - 1
         /\ n \div w \in Int
OBVIOUS

(* The same with names for the two, for proofs that compute with them.     *)
LEMMA QuotRem ==
  ASSUME NEW w \in Nat \ {0}, NEW n \in Int
  PROVE  \E q \in Int, r \in 0 .. w - 1 : q = n \div w /\ r = n % w /\ n = w * q + r
BY IntDivMod

(* They are the only ones.                                                 *)
LEMMA IntDivUnique ==
  ASSUME NEW w \in Nat \ {0}, NEW a \in Int, NEW b \in 0 .. w - 1,
         NEW q \in Int, a = w * q + b
  PROVE  a % w = b /\ a \div w = q
<1> DEFINE d == a \div w
           m == a % w
<1>1. a = w * d + m /\ m \in 0 .. w - 1 /\ d \in Int
  BY IntDivMod
<1> HIDE DEF d, m
<1> SUFFICES d = q
  BY <1>1 DEF d, m
<1>3. CASE d < q
  <2>1. q - d >= 1 /\ q - d \in Nat
    BY <1>1, <1>3
  <2>2. w * (q - d) >= w
    BY <2>1
  <2>3. w * (q - d) = w * q - w * d
    BY <1>1
  <2> QED BY <1>1, <2>2, <2>3
<1>4. CASE d > q
  <2>1. d - q >= 1 /\ d - q \in Nat
    BY <1>1, <1>4
  <2>2. w * (d - q) >= w
    BY <2>1
  <2>3. w * (d - q) = w * d - w * q
    BY <1>1
  <2> QED BY <1>1, <2>2, <2>3
<1> QED BY <1>1, <1>3, <1>4

(* Division is monotone.                                                   *)
LEMMA DivMonotone ==
  ASSUME NEW w \in Nat \ {0}, NEW a \in Int, NEW b \in Int, a <= b
  PROVE  a \div w <= b \div w
<1> DEFINE p == a \div w
           q == b \div w
<1>1. a = w * p + (a % w) /\ a % w \in 0 .. w - 1 /\ p \in Int
  BY IntDivMod
<1>2. b = w * q + (b % w) /\ b % w \in 0 .. w - 1 /\ q \in Int
  BY IntDivMod
<1> HIDE DEF p, q
<1> SUFFICES ASSUME p > q PROVE FALSE
  BY <1>1, <1>2 DEF p, q
<1>3. p - q >= 1 /\ p - q \in Nat
  BY <1>1, <1>2
<1>4. w * (p - q) >= w
  BY <1>3
<1>5. w * (p - q) = w * p - w * q
  BY <1>1, <1>2
<1> QED BY <1>1, <1>2, <1>4, <1>5

(* The quotient of a number less than a product.                           *)
LEMMA DivRange ==
  ASSUME NEW w \in Nat \ {0}, NEW n \in Nat, NEW a \in 0 .. w * n - 1
  PROVE  a \div w \in 0 .. n - 1
<1> DEFINE p == a \div w
<1>0. w * n \in Int
  OBVIOUS
<1>1. a = w * p + (a % w) /\ a % w \in 0 .. w - 1 /\ p \in Int
  BY <1>0, IntDivMod
<1> HIDE DEF p
<1>2. CASE p >= n
  <2>1. w * (p - n) >= 0
    BY <1>1, <1>2
  <2>2. w * (p - n) = w * p - w * n
    BY <1>1
  <2>3. FALSE
    BY <1>0, <1>1, <2>1, <2>2
  <2> QED BY <2>3
<1>3. CASE p < 0
  <2>1. w * (-1 - p) >= 0
    BY <1>1, <1>3
  <2>2. w * (-1 - p) = -w - w * p
    BY <1>1
  <2>3. FALSE
    BY <1>0, <1>1, <2>1, <2>2
  <2> QED BY <2>3
<1> QED BY <1>1, <1>2, <1>3 DEF p

-----------------------------------------------------------------------------
(***************************************************************************)
(* Indices that wrap.                                                      *)
(***************************************************************************)

(* Quotient and remainder.                                                 *)
LEMMA DivMod ==
  ASSUME NEW w \in Nat \ {0}, NEW n \in Nat
  PROVE  /\ n = w * (n \div w) + (n % w)
         /\ n % w \in 0 .. w - 1
         /\ n \div w \in Nat
OBVIOUS

(* The remainder is determined by any quotient.                            *)
LEMMA ModUnique ==
  ASSUME NEW w \in Nat \ {0}, NEW a \in Nat, NEW b \in 0 .. w - 1,
         NEW q \in Nat, a = w * q + b
  PROVE  a % w = b
<1> DEFINE d == a \div w
           m == a % w
<1>1. a = w * d + m /\ m \in 0 .. w - 1 /\ d \in Nat
  BY DivMod
<1> HIDE DEF d, m
<1>2. CASE d = q
  BY <1>1, <1>2 DEF m
<1>3. CASE d < q
  <2>1. q - d >= 1 /\ q - d \in Nat
    BY <1>1, <1>3
  <2>2. w * (q - d) >= w
    BY <2>1
  <2>3. w * (q - d) = w * q - w * d
    BY <1>1
  <2> QED BY <1>1, <2>2, <2>3
<1>4. CASE d > q
  <2>1. d - q >= 1 /\ d - q \in Nat
    BY <1>1, <1>4
  <2>2. w * (d - q) >= w
    BY <2>1
  <2>3. w * (d - q) = w * d - w * q
    BY <1>1
  <2> QED BY <1>1, <2>2, <2>3
<1> QED BY <1>1, <1>2, <1>3, <1>4

(* An index that is incremented modulo the size wraps to 0 at the end.     *)
LEMMA ModNext ==
  ASSUME NEW w \in Nat \ {0}, NEW n \in Nat
  PROVE  (n + 1) % w = IF (n % w) + 1 = w THEN 0 ELSE (n % w) + 1
<1>1. /\ n = w * (n \div w) + (n % w)
      /\ n % w \in 0 .. w - 1
      /\ n \div w \in Nat
  BY DivMod
<1>2. CASE (n % w) + 1 = w
  <2>1. n + 1 = w * ((n \div w) + 1) + 0
    BY <1>1, <1>2
  <2> QED BY <1>1, <1>2, <2>1, ModUnique
<1>3. CASE (n % w) + 1 # w
  <2>1. n + 1 = w * (n \div w) + ((n % w) + 1) /\ (n % w) + 1 \in 0 .. w - 1
    BY <1>1, <1>3
  <2>2. n + 1 \in Nat
    OBVIOUS
  <2>3. (n + 1) % w = (n % w) + 1
    BY <1>1, <2>1, <2>2, ModUnique, Zenon
  <2> QED BY <1>3, <2>3
<1> QED BY <1>2, <1>3

(* Once around the ring.                                                   *)
LEMMA ModWrap ==
  ASSUME NEW w \in Nat \ {0}, NEW n \in Nat
  PROVE  (n + w) % w = n % w
<1>1. /\ n = w * (n \div w) + (n % w)
      /\ n % w \in 0 .. w - 1
      /\ n \div w \in Nat
  BY DivMod
<1>2. n + w = w * ((n \div w) + 1) + (n % w)
  BY <1>1
<1>3. n + w \in Nat /\ (n \div w) + 1 \in Nat
  BY <1>1
<1> QED BY <1>1, <1>2, <1>3, ModUnique, Zenon

(* Two counts less than the size apart have different indices.             *)
LEMMA ModInjective ==
  ASSUME NEW w \in Nat \ {0}, NEW a \in Nat, NEW b \in Nat,
         a <= b, b < a + w, a % w = b % w
  PROVE  a = b
<1>1. /\ a = w * (a \div w) + (a % w)
      /\ a % w \in 0 .. w - 1
      /\ a \div w \in Nat
  BY DivMod
<1>2. /\ b = w * (b \div w) + (b % w)
      /\ b % w \in 0 .. w - 1
      /\ b \div w \in Nat
  BY DivMod
<1>3. b - a = w * ((b \div w) - (a \div w))
  BY <1>1, <1>2
<1>4. (b \div w) - (a \div w) = 0
  <2>1. CASE (b \div w) - (a \div w) >= 1
    BY <1>1, <1>2, <1>3, <2>1
  <2>2. CASE (b \div w) - (a \div w) < 0
    BY <1>1, <1>2, <1>3, <2>2
  <2> QED BY <2>1, <2>2, <1>1, <1>2
<1> QED BY <1>3, <1>4

(* The difference of two wrapped counts that are less than the size apart  *)
(* is the difference of the counts.                                        *)
LEMMA WrapSub ==
  ASSUME NEW w \in Nat \ {0}, NEW a \in Nat, NEW b \in Nat,
         b <= a, a - b < w
  PROVE  ((a % w) + w - (b % w)) % w = a - b
<1> DEFINE qa == a \div w
           ra == a % w
           qb == b \div w
           rb == b % w
<1>1. a = w * qa + ra /\ ra \in 0 .. w - 1 /\ qa \in Nat
  BY DivMod
<1>2. b = w * qb + rb /\ rb \in 0 .. w - 1 /\ qb \in Nat
  BY DivMod
<1> HIDE DEF qa, ra, qb, rb
<1>3. a - b = w * (qa - qb) + (ra - rb)
  BY <1>1, <1>2
<1>4. CASE qa = qb
  <2>1. ra + w - rb = w * 1 + (a - b)
    BY <1>1, <1>2, <1>3, <1>4
  <2>2. ra + w - rb \in Nat /\ a - b \in 0 .. w - 1
    BY <1>1, <1>2
  <2>3. (ra + w - rb) % w = a - b
    BY <2>1, <2>2, ModUnique
  <2> QED BY <2>3 DEF ra, rb
<1>5. CASE qa = qb + 1
  <2>1. ra + w - rb = w * 0 + (a - b)
    BY <1>1, <1>2, <1>3, <1>5
  <2>2. ra + w - rb \in Nat /\ a - b \in 0 .. w - 1
    BY <1>1, <1>2
  <2>3. (ra + w - rb) % w = a - b
    BY <2>1, <2>2, ModUnique
  <2> QED BY <2>3 DEF ra, rb
<1>6. CASE qa < qb
  <2>1. w * (qa - qb) <= 0 - w
    BY <1>1, <1>2, <1>6
  <2> QED BY <1>1, <1>2, <1>3, <2>1
<1>7. CASE qa > qb + 1
  <2>1. w * (qa - qb) >= w * 2
    BY <1>1, <1>2, <1>7
  <2> QED BY <1>1, <1>2, <1>3, <2>1
<1> QED BY <1>1, <1>2, <1>4, <1>5, <1>6, <1>7

(* A count wrapped at a multiple of the size of the ring and moved on has  *)
(* the index of the count itself moved on.                                 *)
LEMMA ModAdd ==
  ASSUME NEW w \in Nat \ {0}, NEW m \in Nat \ {0}, m % w = 0,
         NEW n \in Nat, NEW i \in Nat
  PROVE  ((n % m) + i) % w = (n + i) % w
<1>1. m = w * (m \div w) /\ m \div w \in Nat
  BY DivMod
<1>2. n = m * (n \div m) + (n % m) /\ n % m \in Nat /\ n \div m \in Nat
  BY DivMod
<1>3. PICK k \in Nat : m = w * k
  BY <1>1
<1>4. PICK q \in Nat, r \in Nat : n = m * q + r /\ r = n % m
  BY <1>2
<1>5. PICK u \in Nat : u = r + i
  OBVIOUS
<1>6. u = w * (u \div w) + (u % w) /\ u % w \in 0 .. w - 1 /\ u \div w \in Nat
  BY DivMod
<1>7. PICK p \in Nat, s \in 0 .. w - 1 : u = w * p + s /\ s = u % w
  BY <1>6
<1>8. n + i = w * (k * q + p) + s
  <2>1. n + i = (w * k) * q + (w * p + s)
    BY <1>3, <1>4, <1>5, <1>7
  <2>2. (w * k) * q = w * (k * q)
    BY Z3
  <2>3. w * (k * q + p) = w * (k * q) + w * p
    BY Z3
  <2>4. k * q \in Nat /\ w * (k * q) \in Nat /\ w * p \in Nat
    BY Z3
  <2> QED BY <2>1, <2>2, <2>3, <2>4
<1>9. k * q + p \in Nat /\ n + i \in Nat
  BY Z3
<1>10. PICK x \in Nat, y \in Nat : x = n + i /\ y = k * q + p
  BY <1>9, Zenon
<1>11. x = w * y + s
  BY <1>8, <1>10, Zenon
<1>12. x % w = s
  BY <1>11, ModUnique
<1> QED BY <1>4, <1>5, <1>7, <1>10, <1>12

(* In particular its index is that of the count.                           *)
LEMMA ModMod ==
  ASSUME NEW w \in Nat \ {0}, NEW m \in Nat \ {0}, m % w = 0,
         NEW n \in Nat
  PROVE  (n % m) % w = n % w
<1>1. PICK i \in Nat : i = 0
  OBVIOUS
<1>2. m % w = 0
  OBVIOUS
<1>3. ((n % m) + i) % w = (n + i) % w
  BY <1>2, ModAdd
<1> QED BY <1>1, <1>3

(* A wrapped count that is incremented is the wrapped next count.          *)
LEMMA ModSucc ==
  ASSUME NEW w \in Nat \ {0}, NEW n \in Nat
  PROVE  ((n % w) + 1) % w = (n + 1) % w
<1>1. w % w = 0
  OBVIOUS
<1>2. PICK i \in Nat : i = 1
  OBVIOUS
<1>3. ((n % w) + i) % w = (n + i) % w
  BY <1>1, ModAdd
<1> QED BY <1>2, <1>3
=============================================================================
