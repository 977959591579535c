---------------------------- MODULE CodecProofs -----------------------------
(***************************************************************************)
(* The two encoders, for every picture, width, level and table of steps:   *)
(* the lossless decoder has the cut picture the encoder saw, and the       *)
(* receiver of a delta coded stream rescales to the coefficients the       *)
(* encoder keeps.                                                          *)
(***************************************************************************)
EXTENDS Codec, FiniteSetTheorems, FunctionTheorems, SequenceTheorems,
        NumberTheorems, TLAPS

-----------------------------------------------------------------------------
(***************************************************************************)
(* Lossless: what a residual says, and the median predictor.               *)
(***************************************************************************)

(* The powers the lossless encoder computes with, as products.             *)
LEMMA LosslessPowers ==
  ASSUME LosslessAssumption, bits \in 1..W
  PROVE  /\ 2^Lost \in Nat \ {0} /\ 2^bits \in Nat \ {0}
         /\ 2^(bits - 1) \in Nat \ {0}
         /\ 2^W = 2^Lost * 2^bits
         /\ Half = 2^Lost * 2^(bits - 1)
         /\ 2^bits = 2 * 2^(bits - 1)
         /\ 2^W = 2 * Half
         /\ Half \in Nat \ {0} /\ 2^W \in Nat \ {0}
<1>1. W \in Nat \ {0} /\ bits \in Nat /\ bits - 1 \in Nat /\ Lost \in Nat
      /\ W - 1 \in Nat
  BY DEF LosslessAssumption, Lost
<1>2. Lost + bits = W /\ Lost + (bits - 1) = W - 1 /\ (bits - 1) + 1 = bits
      /\ (W - 1) + 1 = W
  BY <1>1 DEF Lost
<1>3. 2^Lost \in Nat \ {0} /\ 2^bits \in Nat \ {0}
      /\ 2^(bits - 1) \in Nat \ {0} /\ 2^(W - 1) \in Nat \ {0}
      /\ 2^W \in Nat \ {0}
  BY <1>1, PowerPositive
<1>4. 2^(Lost + bits) = 2^Lost * 2^bits
  BY <1>1, PowerSum
<1>5. 2^(Lost + (bits - 1)) = 2^Lost * 2^(bits - 1)
  BY <1>1, PowerSum
<1>6. 2^((bits - 1) + 1) = 2 * 2^(bits - 1)
  BY <1>1, PowerNext
<1>7. 2^((W - 1) + 1) = 2 * 2^(W - 1)
  BY <1>1, PowerNext
<1> QED BY <1>2, <1>3, <1>4, <1>5, <1>6, <1>7 DEF Half

(* The steps of Residual for any powers: k is cut off, b = 2 * h values    *)
(* are coded.                                                              *)
ResidualSteps(k, h, b, m, hh, cq, pq, d, up, sg, r) ==
  /\ k \in Nat \ {0} /\ h \in Nat \ {0} /\ b \in Nat /\ m \in Nat /\ hh \in Nat
  /\ b = 2 * h /\ m = k * b /\ hh = k * h
  /\ cq \in 0 .. b - 1 /\ pq \in 0 .. b - 1
  /\ d = (cq - pq) % m
  /\ up = (d * k) % m
  /\ sg = (IF up >= hh THEN up - m ELSE up)
  /\ r = (sg \div k + hh) % m

(* The residual added to the cut prediction, modulo the coded values, is   *)
(* the cut pixel: the shifts lose nothing that is coded.                   *)
LEMMA ResidualArith ==
  ASSUME NEW k, NEW h, NEW b, NEW m, NEW hh, NEW cq, NEW pq,
         NEW d, NEW up, NEW sg, NEW r,
         ResidualSteps(k, h, b, m, hh, cq, pq, d, up, sg, r)
  PROVE  r \in Int /\ (pq + r - hh) % b = cq
<1>0. /\ k \in Nat \ {0} /\ h \in Nat \ {0} /\ b \in Nat /\ m \in Nat /\ hh \in Nat
      /\ b = 2 * h /\ m = k * b /\ hh = k * h
      /\ cq \in 0 .. b - 1 /\ pq \in 0 .. b - 1
      /\ d = (cq - pq) % m
      /\ up = (d * k) % m
      /\ sg = (IF up >= hh THEN up - m ELSE up)
      /\ r = (sg \div k + hh) % m
  BY DEF ResidualSteps
<1> USE <1>0
<1> DEFINE u == IF cq >= pq THEN cq - pq ELSE cq - pq + b
<1>1. u \in 0 .. b - 1
  OBVIOUS
<1>2. m \in Nat \ {0} /\ m >= b /\ m = 2 * hh /\ b >= 1 /\ hh >= h
  <2>1. k * b >= b /\ k * h >= h
    OBVIOUS
  <2>2. k * (2 * h) = 2 * (k * h)
    OBVIOUS
  <2> QED BY <2>1, <2>2
<1>3. d = (IF cq >= pq THEN cq - pq ELSE cq - pq + m)
  <2>1. CASE cq >= pq
    <3>1. cq - pq \in 0 .. m - 1 /\ cq - pq = m * 0 + (cq - pq)
          /\ cq - pq \in Int /\ 0 \in Int
      BY <2>1, <1>2
    <3>2. (cq - pq) % m = cq - pq
      BY <3>1, <1>2, IntDivUnique, Zenon
    <3> QED BY <2>1, <3>2
  <2>2. CASE cq < pq
    <3>0. PICK z \in Int : z = -1
      OBVIOUS
    <3>1. PICK x \in Int, y \in 0 .. m - 1 : x = cq - pq /\ y = cq - pq + m
      BY <2>2, <1>2
    <3>2. x = m * z + y
      BY <1>2, <3>0, <3>1
    <3>3. x % m = y
      BY <3>2, <1>2, IntDivUnique, Zenon
    <3> QED BY <2>2, <3>1, <3>3
  <2> QED BY <2>1, <2>2
<1>4. k * u \in 0 .. m - 1
  <2>1. k * u >= 0 /\ k * u \in Int
    BY <1>1
  <2>2. k * (b - 1 - u) >= 0
    BY <1>1
  <2>3. k * (b - 1 - u) = k * b - k - k * u
    BY <1>1
  <2> QED BY <2>1, <2>2, <2>3
<1>5. up = k * u
  <2>1. CASE cq >= pq
    <3>1. d * k = m * 0 + k * u /\ d * k \in Int /\ 0 \in Int
      BY <2>1, <1>2, <1>3
    <3>2. PICK x \in Int, y \in 0 .. m - 1 : x = d * k /\ y = k * u
      BY <3>1, <1>4
    <3>3. x = m * 0 + y /\ 0 \in Int
      BY <3>1, <3>2
    <3>4. x % m = y
      BY <3>3, <1>2, IntDivUnique, Zenon
    <3> QED BY <3>2, <3>4
  <2>2. CASE cq < pq
    <3>1. d * k = m * (k - 1) + k * u /\ d * k \in Int
      <4>1. d * k = (cq - pq) * k + m * k /\ d * k \in Int
        BY <2>2, <1>2, <1>3
      <4>2. k * u = (cq - pq) * k + b * k
        BY <2>2
      <4>3. m * (k - 1) = m * k - m
        BY <1>2
      <4> QED BY <4>1, <4>2, <4>3
    <3>2. k - 1 \in Int
      OBVIOUS
    <3>3. PICK x \in Int, y \in 0 .. m - 1 : x = d * k /\ y = k * u
      BY <3>1, <1>4
    <3>4. x = m * (k - 1) + y
      BY <3>1, <3>3
    <3>5. x % m = y
      BY <3>2, <3>4, <1>2, IntDivUnique, Zenon
    <3> QED BY <3>3, <3>5
  <2> QED BY <2>1, <2>2
<1> DEFINE s == IF u >= h THEN u - b ELSE u
<1>6. sg = k * s
  <2>1. CASE u >= h
    <3>1. k * (u - h) >= 0 /\ k * (u - h) = k * u - k * h
      BY <2>1, <1>1
    <3>2. up >= hh
      BY <3>1, <1>5, <1>1
    <3>3. k * (u - b) = k * u - k * b
      BY <1>1
    <3> QED BY <2>1, <3>2, <3>3, <1>5
  <2>2. CASE u < h
    <3>1. k * (h - u) >= 1 /\ k * (h - u) = k * h - k * u
      BY <2>2, <1>1
    <3>2. ~ (up >= hh)
      BY <3>1, <1>5, <1>1
    <3> QED BY <2>2, <3>2, <1>5
  <2> QED BY <2>1, <2>2, <1>1
<1>7. s \in -h .. h - 1
  BY <1>1
<1>8. sg \div k = s
  <2>1. k * s = k * s + 0 /\ k * s \in Int /\ s \in Int /\ 0 \in 0 .. k - 1
    BY <1>7
  <2> HIDE DEF s
  <2>2. (k * s) \div k = s
    BY <2>1, IntDivUnique, Zenon
  <2> QED BY <1>6, <2>2, Zenon
<1>9. r = s + hh
  <2>1. s + hh \in 0 .. m - 1 /\ s + hh = m * 0 + (s + hh)
         /\ s + hh \in Int /\ 0 \in Int
    <3> HIDE DEF s
    <3> QED BY <1>2, <1>7
  <2> HIDE DEF s
  <2>2. (s + hh) % m = s + hh
    BY <1>2, <2>1, IntDivUnique, Zenon
  <2> QED BY <1>8, <2>2, Zenon
<1>10. pq + r - hh = pq + s /\ r \in Int
  <2> HIDE DEF s
  <2> QED BY <1>7, <1>9
<1>11. \E j \in {-1, 0, 1} : pq + s = b * j + cq
  <2>1. pq + s = b * 0 + cq \/ pq + s = b * 1 + cq \/ pq + s = b * (-1) + cq
    BY <1>1
  <2> QED BY <2>1
<1>12. PICK j \in {-1, 0, 1} : pq + s = b * j + cq
  BY <1>11
<1> HIDE DEF s
<1>13. (pq + s) % b = cq
  <2>1. pq + s \in Int /\ j \in Int /\ b \in Nat \ {0}
    BY <1>2, <1>7
  <2> QED BY <1>12, <2>1, IntDivUnique, Zenon
<1> QED BY <1>10, <1>13

(* The values of a pixel.                                                  *)
Pixels == 0..2^W - 1

(* The residual of a pixel, added to the cut prediction modulo the coded   *)
(* values, gives the cut pixel.                                            *)
LEMMA ResidualDecodes ==
  ASSUME LosslessAssumption, bits \in 1..W, NEW c \in Pixels, NEW p \in Pixels
  PROVE  /\ Residual(c, p) \in Int
         /\ (p \div 2^Lost + Residual(c, p) - Half) % 2^bits = c \div 2^Lost
<1>1. /\ 2^Lost \in Nat \ {0} /\ 2^bits \in Nat \ {0}
      /\ 2^(bits - 1) \in Nat \ {0}
      /\ 2^W = 2^Lost * 2^bits
      /\ Half = 2^Lost * 2^(bits - 1)
      /\ 2^bits = 2 * 2^(bits - 1)
      /\ 2^W = 2 * Half
      /\ Half \in Nat \ {0} /\ 2^W \in Nat \ {0}
  BY LosslessPowers
<1>2. PICK k \in Nat \ {0}, h \in Nat \ {0}, b \in Nat, m \in Nat, hh \in Nat :
        /\ k = 2^Lost /\ h = 2^(bits - 1) /\ b = 2^bits /\ m = 2^W /\ hh = Half
        /\ b = 2 * h /\ m = k * b /\ hh = k * h
  BY <1>1
<1>3. c \in 0 .. k * b - 1 /\ p \in 0 .. k * b - 1
  BY <1>2 DEF Pixels
<1>4. c \div k \in 0 .. b - 1 /\ p \div k \in 0 .. b - 1
  BY <1>3, DivRange
<1> DEFINE d == (c \div k - p \div k) % m
           up == (d * k) % m
           sg == IF up >= hh THEN up - m ELSE up
           r == (sg \div k + hh) % m
<1>5. Residual(c, p) = r
  BY <1>2 DEF Residual, Signed, Half
<1>6. PICK cq \in 0 .. b - 1, pq \in 0 .. b - 1 : cq = c \div k /\ pq = p \div k
  BY <1>4
<1>7. ResidualSteps(k, h, b, m, hh, cq, pq, d, up, sg, r)
  BY <1>2, <1>6 DEF ResidualSteps
<1> HIDE DEF d, up, sg, r
<1>8. r \in Int /\ (pq + r - hh) % b = cq
  BY <1>7, ResidualArith
<1> QED BY <1>2, <1>5, <1>6, <1>8

(* The middle one of three numbers.                                        *)
Middle(a, b, c) ==
  CASE (b <= a /\ a <= c) \/ (c <= a /\ a <= b) -> a
    [] (a <= b /\ b <= c) \/ (c <= b /\ b <= a) -> b
    [] OTHER -> c

(* median_3, written with the largest and the smallest of the three, is    *)
(* the middle one.                                                         *)
LEMMA MedianIsMiddle ==
  ASSUME LosslessAssumption, NEW a \in Pixels, NEW b \in Pixels, NEW c \in Pixels
  PROVE  Median_3(a, b, c) = Middle(a, b, c) /\ Middle(a, b, c) \in Pixels
<1>1. 2^W \in Nat \ {0}
  BY PowerPositive DEF LosslessAssumption
<1> DEFINE s == {a, b, c}
           max == CHOOSE m \in s : \A n \in s : m >= n
           min == CHOOSE m \in s : \A n \in s : m <= n
<1>2. PICK k \in Nat \ {0} : k = 2^W /\ a \in 0 .. k - 1 /\ b \in 0 .. k - 1 /\ c \in 0 .. k - 1
  BY <1>1 DEF Pixels
<1>3. max \in s /\ \A n \in s : max >= n
  <2>1. \E m \in s : \A n \in s : m >= n
    <3>1. (a >= b /\ a >= c) \/ (b >= a /\ b >= c) \/ (c >= a /\ c >= b)
      BY <1>2
    <3> QED BY <1>2, <3>1
  <2> QED BY <2>1, Zenon
<1>4. min \in s /\ \A n \in s : min <= n
  <2>1. \E m \in s : \A n \in s : m <= n
    <3>1. (a <= b /\ a <= c) \/ (b <= a /\ b <= c) \/ (c <= a /\ c <= b)
      BY <1>2
    <3> QED BY <1>2, <3>1
  <2> QED BY <2>1, Zenon
<1>5. Median_3(a, b, c) = (a + b + c - max - min) % k
  BY <1>2, Zenon DEF Median_3
<1> HIDE DEF max, min
<1>6. /\ max \in {a, b, c} /\ max >= a /\ max >= b /\ max >= c
      /\ min \in {a, b, c} /\ min <= a /\ min <= b /\ min <= c
  BY <1>3, <1>4, Zenon
<1> HIDE DEF s
<1>7. Middle(a, b, c) \in {a, b, c}
  BY DEF Middle
<1>8. a + b + c - max - min = Middle(a, b, c)
  BY <1>2, <1>6 DEF Middle
<1>9. PICK z \in 0 .. k - 1 : z = Middle(a, b, c)
  BY <1>2, <1>7
<1>10. z % k = z
  BY <1>2
<1> QED BY <1>2, <1>5, <1>8, <1>9, <1>10 DEF Pixels

(* Cutting bits off commutes with the prediction.                          *)
LEMMA PredictCut ==
  ASSUME LosslessAssumption, bits \in 1..W,
         NEW hasTop \in BOOLEAN, NEW hasLeft \in BOOLEAN,
         NEW t \in Pixels, NEW l \in Pixels, NEW tl \in Pixels
  PROVE  /\ Predict(hasTop, hasLeft, t, l, tl) \in Pixels
         /\ Predict(hasTop, hasLeft, t, l, tl) \div 2^Lost =
              IF ~hasTop /\ ~hasLeft THEN Half \div 2^Lost
              ELSE Predict(hasTop, hasLeft, t \div 2^Lost, l \div 2^Lost,
                           tl \div 2^Lost)
<1>1. /\ 2^Lost \in Nat \ {0} /\ 2^bits \in Nat \ {0}
      /\ 2^W = 2^Lost * 2^bits
      /\ 2^W = 2 * Half
      /\ Half \in Nat \ {0} /\ 2^W \in Nat \ {0}
  BY LosslessPowers
<1>2. Half \in Pixels
  BY <1>1 DEF Pixels
<1>3. PICK k \in Nat \ {0} : k = 2^Lost
  BY <1>1
<1>4. \A v \in Pixels : v \div k \in Pixels
  <2> TAKE v \in Pixels
  <2>1. v \in 0 .. k * 2^bits - 1
    BY <1>1, <1>3 DEF Pixels
  <2>2. v \div k \in 0 .. 2^bits - 1
    BY <1>1, <2>1, DivRange
  <2>3. 2^bits <= 2^W
    <3>1. PICK y \in Nat, w \in Nat : y = 2^bits /\ w = 2^W /\ w = k * y
      BY <1>1, <1>3
    <3>2. y <= k * y
      OBVIOUS
    <3> QED BY <3>1, <3>2
  <2> QED BY <1>1, <2>2, <2>3 DEF Pixels
<1>5. CASE hasTop /\ hasLeft
  <2>1. /\ Predict(hasTop, hasLeft, t, l, tl) = Median_3(t, l, tl)
        /\ Predict(hasTop, hasLeft, t \div 2^Lost, l \div 2^Lost, tl \div 2^Lost)
             = Median_3(t \div k, l \div k, tl \div k)
    BY <1>3, <1>5 DEF Predict
  <2>2. Median_3(t, l, tl) = Middle(t, l, tl) /\ Middle(t, l, tl) \in Pixels
    BY MedianIsMiddle
  <2>3. Median_3(t \div k, l \div k, tl \div k) = Middle(t \div k, l \div k, tl \div k)
    BY <1>4, MedianIsMiddle
  <2>4. Middle(t, l, tl) \div k = Middle(t \div k, l \div k, tl \div k)
    <3>0. t \in Int /\ l \in Int /\ tl \in Int
      BY <1>1 DEF Pixels
    <3>1. PICK a \in Int, b \in Int, c \in Int : a = t \div k /\ b = l \div k /\ c = tl \div k
      BY <3>0, IntDivMod
    <3>2. /\ t <= l => a <= b
          /\ l <= t => b <= a
          /\ t <= tl => a <= c
          /\ tl <= t => c <= a
          /\ l <= tl => b <= c
          /\ tl <= l => c <= b
      BY <3>0, <3>1, DivMonotone
    <3>3. Middle(t, l, tl) \in {t, l, tl}
      BY DEF Middle
    <3>4. CASE (l <= t /\ t <= tl) \/ (tl <= t /\ t <= l)
      <4>1. Middle(t, l, tl) = t /\ Middle(a, b, c) = a
        BY <3>0, <3>1, <3>2, <3>4 DEF Middle
      <4> QED BY <3>1, <4>1
    <3>5. CASE ~((l <= t /\ t <= tl) \/ (tl <= t /\ t <= l))
               /\ ((t <= l /\ l <= tl) \/ (tl <= l /\ l <= t))
      <4>1. Middle(t, l, tl) = l /\ Middle(a, b, c) = b
        BY <3>0, <3>1, <3>2, <3>5 DEF Middle
      <4> QED BY <3>1, <4>1
    <3>6. CASE ~((l <= t /\ t <= tl) \/ (tl <= t /\ t <= l))
               /\ ~((t <= l /\ l <= tl) \/ (tl <= l /\ l <= t))
      <4>1. Middle(t, l, tl) = tl /\ Middle(a, b, c) = c
        BY <3>0, <3>1, <3>2, <3>6 DEF Middle
      <4> QED BY <3>1, <4>1
    <3> QED BY <3>4, <3>5, <3>6
  <2> QED BY <1>3, <1>5, <2>1, <2>2, <2>3, <2>4
<1>6. CASE hasTop /\ ~hasLeft
  BY <1>6 DEF Predict
<1>7. CASE ~hasTop /\ hasLeft
  BY <1>7 DEF Predict
<1>8. CASE ~hasTop /\ ~hasLeft
  BY <1>2, <1>8 DEF Predict
<1> QED BY <1>5, <1>6, <1>7, <1>8

-----------------------------------------------------------------------------
(***************************************************************************)
(* Lossless: the invariant and the pixels decoded from a chunk of rows.    *)
(***************************************************************************)

(* The rows of a picture.                                                  *)
Rows == 0..STEPS * bh - 1

(* What a lossless stream keeps: the row above is still in the buffer, the *)
(* rows of the last frame are the ones encoded last.                       *)
LosslessOn ==
  /\ bits \in BITS /\ bh \in BH /\ delta_prog \in BOOLEAN
  /\ i \in 0..STEPS - 1 /\ by \in 0..bh - 1
  /\ buf \in [0..2 * bh - 1 -> [Xs -> Pixels]]
  /\ src \in [Rows -> [Xs -> Pixels]]
  /\ prev_pixels \in [Rows -> [Xs -> Pixels]]
  /\ dec \in [Rows -> [Xs -> Int]]
  /\ delta_prog => prev_pixels = src
  /\ HasTop => buf[Top_row] = src[Y - 1]
  /\ LosslessExact

(* The stream is not running, or runs and keeps that.                      *)
LosslessInv == LosslessOff \/ LosslessOn

(* Where a row is in the buffer and the picture; the row above it is       *)
(* another one, both within their arrays.                                  *)
LEMMA LosslessPlaces ==
  ASSUME LosslessAssumption, LosslessOn
  PROVE  /\ bits \in 1..W /\ bh \in Nat \ {0} /\ STEPS \in Nat \ {0}
         /\ i \in Nat /\ by \in Nat /\ by < bh /\ i < STEPS
         /\ i % 2 \in {0, 1}
         /\ Iy \in 0..2 * bh - 1 /\ Iy = (IF i % 2 = 1 THEN bh + by ELSE by)
         /\ Top_row # Iy
         /\ HasTop => Top_row \in 0..2 * bh - 1
         /\ Y \in Rows
         /\ HasTop => Y - 1 \in Rows
<1>1. /\ bits \in 1..W /\ bh \in Nat \ {0} /\ STEPS \in Nat \ {0}
      /\ i \in Nat /\ by \in Nat /\ by < bh /\ i < STEPS
  <2>1. BITS \subseteq 1..W /\ BH \subseteq Nat \ {0} /\ STEPS \in Nat \ {0}
    BY Zenon DEF LosslessAssumption
  <2>2. bits \in BITS /\ bh \in BH /\ i \in 0..STEPS - 1 /\ by \in 0..bh - 1
    BY Zenon DEF LosslessOn
  <2>3. bits \in 1..W /\ bh \in Nat \ {0}
    BY <2>1, <2>2, Zenon
  <2> QED BY <2>1, <2>2, <2>3
<1>2. i % 2 \in {0, 1}
  BY <1>1
<1>3. /\ Iy \in 0..2 * bh - 1 /\ Iy = (IF i % 2 = 1 THEN bh + by ELSE by)
  BY <1>1, <1>2 DEF Iy
<1>4. Top_row # Iy /\ (HasTop => Top_row \in 0..2 * bh - 1)
  <2>1. Top_row = IF by > 0 \/ i % 2 = 1 THEN Iy - 1 ELSE Iy + 2 * bh - 1
    BY DEF Top_row
  <2> QED BY <1>1, <1>2, <1>3, <2>1
<1>5. i * bh + by \in 0..STEPS * bh - 1
  <2>1. (STEPS - 1 - i) * bh >= 0 /\ i * bh >= 0
    BY <1>1
  <2>2. (STEPS - 1 - i) * bh = STEPS * bh - bh - i * bh
    BY <1>1
  <2> QED BY <1>1, <2>1, <2>2
<1>6. HasTop => i * bh + by >= 1
  <2>1. CASE by > 0
    <3>1. i * bh >= 0
      BY <1>1
    <3> QED BY <1>1, <2>1, <3>1
  <2>2. CASE i > 0
    <3>1. (i - 1) * bh >= 0
      BY <1>1, <2>2
    <3>2. (i - 1) * bh = i * bh - bh
      BY <1>1
    <3> QED BY <1>1, <3>1, <3>2
  <2> QED BY <2>1, <2>2 DEF HasTop
<1>7. PICK y \in Int, n \in Int : y = i * bh + by /\ n = STEPS * bh
  BY <1>1
<1>8. y \in 0..n - 1 /\ (HasTop => y - 1 \in 0..n - 1)
  BY <1>5, <1>6, <1>7
<1>9. Y \in Rows /\ (HasTop => Y - 1 \in Rows)
  BY <1>7, <1>8, Zenon DEF Y, Rows
<1> QED BY <1>1, <1>2, <1>3, <1>4, <1>9

(* Decoded is a function that decodes its own pixels from left to right.   *)
LEMMA DecodedByPixel ==
  ASSUME NEW flags, NEW res
  PROVE  Decoded(flags, res) =
           CHOOSE d : d = [x \in Xs |-> Decoded_pixel(x, d[x - 1], flags, res)]
BY DEF Decoded

(* Every pixel of a row is in one of the chunks with a flag of its own.    *)
LEMMA ChunkOf ==
  ASSUME LosslessAssumption, NEW x \in Xs
  PROVE  x \div CHUNK \in 0..(WIDTH \div CHUNK) - 1
<1>1. PICK w \in Nat \ {0}, c \in Nat \ {0} : w = WIDTH /\ c = CHUNK /\ w % c = 0
  BY DEF LosslessAssumption
<1>2. w = c * (w \div c) + 0 /\ w \div c \in Int
  BY <1>1, IntDivMod
<1>3. PICK n \in Int : n = w \div c /\ w = c * n
  BY <1>2
<1>4. n \in Nat
  <2>1. CASE n < 0
    <3>1. c * n <= 0
      BY <2>1
    <3> QED BY <1>1, <1>3, <3>1
  <2> QED BY <2>1
<1>5. x \in 0 .. c * n - 1
  BY <1>1, <1>3 DEF Xs
<1> QED BY <1>1, <1>3, <1>4, <1>5, DivRange

(* The decoder's row is the cut row: whatever it already has of the row    *)
(* being right, the next pixel is, and so the function it computes is the  *)
(* one that cuts every pixel.                                              *)
LEMMA DecodedIsCut ==
  ASSUME LosslessAssumption, LosslessOn,
         NEW g \in [Xs -> Pixels], NEW flags \in Flags, NEW b,
         b = [buf EXCEPT ![Iy] = g]
  PROVE  Decoded(flags, Encoded(b, flags)) = [x \in Xs |-> g[x] \div 2^Lost]
<1> DEFINE e == [x \in Xs |-> g[x] \div 2^Lost]
           res == Encoded(b, flags)
<1>1. /\ bits \in 1..W /\ Iy \in 0..2 * bh - 1 /\ Top_row # Iy
      /\ HasTop => Top_row \in 0..2 * bh - 1
      /\ Y \in Rows /\ (HasTop => Y - 1 \in Rows)
      /\ WIDTH \in Nat \ {0}
  BY LosslessPlaces DEF LosslessAssumption
<1>2. /\ buf \in [0..2 * bh - 1 -> [Xs -> Pixels]]
      /\ src \in [Rows -> [Xs -> Pixels]]
      /\ prev_pixels \in [Rows -> [Xs -> Pixels]]
      /\ delta_prog => prev_pixels = src
      /\ HasTop => buf[Top_row] = src[Y - 1]
  BY Zenon DEF LosslessOn
<1>3. \A y \in Rows, x \in Xs : dec[y][x] = src[y][x] \div 2^Lost
  BY <1>2 DEF LosslessOn, LosslessExact
<1>4. b[Iy] = g /\ (HasTop => b[Top_row] = src[Y - 1])
  BY <1>1, <1>2
<1>5. ASSUME NEW x \in Xs, NEW d, x > 0 => d[x - 1] = e[x - 1]
      PROVE  Decoded_pixel(x, d[x - 1], flags, res) = e[x]
  <2>1. x \in Int /\ x \in 0..WIDTH - 1 /\ (x > 0 => x - 1 \in Xs)
    BY <1>1 DEF Xs
  <2>2. flags[x \div CHUNK] \in BOOLEAN /\ (flags[x \div CHUNK] => delta_prog)
    <3>1. x \div CHUNK \in 0..(WIDTH \div CHUNK) - 1
      BY ChunkOf
    <3>2. flags \in [0..(WIDTH \div CHUNK) - 1 -> BOOLEAN]
          /\ (~delta_prog => flags \in [0..(WIDTH \div CHUNK) - 1 -> {FALSE}])
      <4>1. CASE delta_prog
        BY <4>1, Zenon DEF Flags
      <4>2. CASE ~delta_prog
        <5>1. flags \in [0..(WIDTH \div CHUNK) - 1 -> {FALSE}]
          BY <4>2, Zenon DEF Flags
        <5> QED BY <4>2, <5>1
      <4> QED BY <4>1, <4>2
    <3> HIDE DEF Flags
    <3> QED BY <3>1, <3>2
  <2>3. g[x] \in Pixels /\ e[x] = g[x] \div 2^Lost
    OBVIOUS
  <2>4. CASE flags[x \div CHUNK]
    <3>1. PICK p \in Pixels : p = prev_pixels[Y][x]
      BY <1>1, <1>2
    <3>2. dec[Y][x] = p \div 2^Lost
      BY <1>1, <1>2, <1>3, <2>2, <2>4, <3>1
    <3>3. res[x] = Residual(g[x], p)
      BY <1>4, <2>4, <3>1 DEF Encoded
    <3>4. Decoded_pixel(x, d[x - 1], flags, res) = (p \div 2^Lost + Residual(g[x], p) - Half) % 2^bits
      BY <2>4, <3>2, <3>3 DEF Decoded_pixel
    <3> QED BY <1>1, <2>3, <3>4, ResidualDecodes
  <2>5. CASE ~flags[x \div CHUNK]
    <3> DEFINE tr == IF HasTop THEN Top_row ELSE Iy
               lx == IF x > 0 THEN x - 1 ELSE x
               p == Predict(HasTop, x > 0, b[tr][x], b[Iy][lx], b[tr][lx])
               t == IF HasTop THEN dec[Y - 1] ELSE dec[Y]
    <3>1. res[x] = Residual(g[x], p)
      BY <1>4, <2>5 DEF Encoded, Pred_pixel
    <3>2. lx \in Xs /\ HasTop \in BOOLEAN /\ (x > 0) \in BOOLEAN
      BY <2>1 DEF HasTop
    <3>3. b[tr] \in [Xs -> Pixels]
      BY <1>1, <1>2, <1>4
    <3>4. PICK tt \in Pixels, l \in Pixels, tl \in Pixels :
            tt = b[tr][x] /\ l = b[Iy][lx] /\ tl = b[tr][lx]
      BY <1>4, <3>2, <3>3
    <3>5. HasTop => t[x] = tt \div 2^Lost /\ (x > 0 => t[x - 1] = tl \div 2^Lost)
      BY <1>1, <1>3, <1>4, <2>1, <3>4
    <3>6. x > 0 => d[x - 1] = l \div 2^Lost
      BY <1>4, <1>5, <2>1, <3>4
    <3>7. p = Predict(HasTop, x > 0, tt, l, tl)
      BY <3>4
    <3>8. p \in Pixels /\ p \div 2^Lost =
              IF ~HasTop /\ ~(x > 0) THEN Half \div 2^Lost
              ELSE Predict(HasTop, x > 0, tt \div 2^Lost, l \div 2^Lost,
                           tl \div 2^Lost)
      <4>1. PICK hasTop \in BOOLEAN, hasLeft \in BOOLEAN :
              hasTop = HasTop /\ hasLeft = (x > 0)
        BY <3>2
      <4> HIDE DEF p
      <4>2. /\ Predict(hasTop, hasLeft, tt, l, tl) \in Pixels
            /\ Predict(hasTop, hasLeft, tt, l, tl) \div 2^Lost =
                 IF ~hasTop /\ ~hasLeft THEN Half \div 2^Lost
                 ELSE Predict(hasTop, hasLeft, tt \div 2^Lost, l \div 2^Lost,
                              tl \div 2^Lost)
        BY <1>1, PredictCut
      <4> QED BY <3>7, <4>1, <4>2, Zenon
    <3> HIDE DEF p, t, res, tr, lx
    <3>9. Decoded_pixel(x, d[x - 1], flags, res) = (p \div 2^Lost + res[x] - Half) % 2^bits
      <4>1. CASE x > 0
        <5>1. Decoded_pixel(x, d[x - 1], flags, res) =
                (Predict(HasTop, TRUE, t[x], d[x - 1], t[x - 1]) + res[x] - Half) % 2^bits
          <6>1. x # 0
            BY <2>1, <4>1
          <6> QED BY <2>5, <4>1, <6>1, Zenon DEF Decoded_pixel, t
        <5>2. Predict(HasTop, TRUE, t[x], d[x - 1], t[x - 1]) = p \div 2^Lost
          BY <3>2, <3>5, <3>6, <3>8, <4>1 DEF Predict
        <5> QED BY <5>1, <5>2
      <4>2. CASE ~(x > 0)
        <5>1. x = 0
          BY <2>1, <4>2
        <5>2. Decoded_pixel(x, d[x - 1], flags, res) =
                ((IF HasTop THEN t[x] ELSE Half \div 2^Lost) + res[x] - Half) % 2^bits
          BY <2>5, <4>2, <5>1 DEF Decoded_pixel, t
        <5>3. (IF HasTop THEN t[x] ELSE Half \div 2^Lost) = p \div 2^Lost
          BY <3>2, <3>5, <3>8, <4>2 DEF Predict
        <5> QED BY <5>2, <5>3
      <4> QED BY <4>1, <4>2
    <3> QED BY <1>1, <2>3, <3>1, <3>8, <3>9, ResidualDecodes
  <2> QED BY <2>2, <2>4, <2>5
<1> HIDE DEF res
<1>6. e = [x \in Xs |-> Decoded_pixel(x, e[x - 1], flags, res)]
  <2>1. \A x \in Xs : Decoded_pixel(x, e[x - 1], flags, res) = e[x]
    BY <1>5
  <2> QED BY <2>1
<1>7. ASSUME NEW d, d = [x \in Xs |-> Decoded_pixel(x, d[x - 1], flags, res)]
      PROVE  d = e
  <2>1. \A x \in Xs : d[x] = Decoded_pixel(x, d[x - 1], flags, res)
    BY <1>7
  <2> DEFINE S == {x \in Xs : d[x] # e[x]}
  <2>2. CASE S # {}
    <3>1. S \in SUBSET Nat
      BY <1>1 DEF Xs
    <3>2. PICK x \in S : \A y \in S : x <= y
      BY <2>2, <3>1, Smallest
    <3>3. x \in Xs /\ d[x] # e[x] /\ x \in Nat
      BY <3>1, <3>2
    <3>4. x > 0 => d[x - 1] = e[x - 1]
      <4>1. x > 0 => x - 1 \in Xs /\ ~(x <= x - 1)
        BY <1>1, <3>3 DEF Xs
      <4> QED BY <3>2, <4>1
    <3>5. Decoded_pixel(x, d[x - 1], flags, res) = e[x]
      BY <1>5, <3>3, <3>4
    <3> QED BY <2>1, <3>3, <3>5
  <2>3. CASE S = {}
    BY <1>7, <2>3
  <2> QED BY <2>2, <2>3
<1> HIDE DEF e
<1>8. (CHOOSE d : d = [x \in Xs |-> Decoded_pixel(x, d[x - 1], flags, res)]) = e
  BY <1>6, <1>7, Zenon
<1> QED BY <1>8, DecodedByPixel DEF e, res

-----------------------------------------------------------------------------
(***************************************************************************)
(* Lossless: every step keeps the invariant.                               *)
(***************************************************************************)

(* A stream begins black on both sides, or never.                          *)
LEMMA LosslessInitInv ==
  ASSUME LosslessAssumption, LosslessInit \/ LosslessOff
  PROVE  LosslessInv
<1>1. CASE LosslessOff
  BY <1>1 DEF LosslessInv
<1>2. CASE LosslessInit
  <2>1. /\ bits \in BITS /\ bh \in BH /\ delta_prog \in BOOLEAN
        /\ i = 0 /\ by = 0 /\ buf = Black(2 * bh)
        /\ prev_pixels = Black(STEPS * bh) /\ src = Black(STEPS * bh)
        /\ dec = Black(STEPS * bh)
    BY <1>2, Zenon DEF LosslessInit
  <2>2. bits \in 1..W /\ bh \in Nat \ {0} /\ STEPS \in Nat \ {0} /\ WIDTH \in Nat \ {0}
    <3>1. BITS \subseteq 1..W /\ BH \subseteq Nat \ {0} /\ STEPS \in Nat \ {0}
          /\ WIDTH \in Nat \ {0}
      BY Zenon DEF LosslessAssumption
    <3> QED BY <2>1, <3>1
  <2>3. 2^Lost \in Nat \ {0} /\ 2^W \in Nat \ {0}
    BY <2>2, LosslessPowers
  <2>4. 0 \in Pixels /\ 0 \div 2^Lost = 0
    BY <2>3 DEF Pixels
  <2>5. /\ buf \in [0..2 * bh - 1 -> [Xs -> Pixels]]
        /\ src \in [Rows -> [Xs -> Pixels]]
        /\ dec \in [Rows -> [Xs -> Int]]
    BY <2>1, <2>4 DEF Black, Rows
  <2>6. LosslessExact
    BY <2>1, <2>4 DEF LosslessExact, Black
  <2>7. ~HasTop
    BY <2>1 DEF HasTop
  <2>8. i \in 0..STEPS - 1 /\ by \in 0..bh - 1
    BY <2>1, <2>2
  <2>9. prev_pixels = src
    BY <2>1
  <2>10. LosslessOn
    BY <2>1, <2>5, <2>6, <2>7, <2>8, <2>9, Zenon DEF LosslessOn
  <2> QED BY <2>10 DEF LosslessInv
<1> QED BY <1>1, <1>2

(* Encoding a row, in the middle of a half buffer, at its end or at the end*)
(* of the frame.                                                           *)
LEMMA LosslessRowInv ==
  ASSUME LosslessAssumption, LosslessInv, Process_row
  PROVE  LosslessInv'
<1>1. bh > 0 /\ LosslessOn
  <2>1. bh > 0
    BY DEF Process_row
  <2>2. ~LosslessOff
    BY <2>1 DEF LosslessOff
  <2> QED BY <2>1, <2>2 DEF LosslessInv
<1>2. PICK g \in [Xs -> PALETTE[bh]], flags \in Flags :
        /\ buf' = [buf EXCEPT ![Iy] = g]
        /\ src' = [src EXCEPT ![Y] = g]
        /\ prev_pixels' = IF delta_prog THEN [prev_pixels EXCEPT ![Y] = g]
                          ELSE prev_pixels
        /\ dec' = [dec EXCEPT ![Y] = Decoded(flags, Encoded([buf EXCEPT ![Iy] = g], flags))]
  BY Zenon DEF Process_row
<1>3. /\ by' = (by + 1) % bh
      /\ i' = IF by' = 0 THEN (i + 1) % STEPS ELSE i
      /\ bits' = bits /\ bh' = bh /\ delta_prog' = delta_prog
  BY Zenon DEF Process_row
<1>4. /\ bits \in 1..W /\ bh \in Nat \ {0} /\ STEPS \in Nat \ {0}
      /\ i \in Nat /\ by \in Nat /\ by < bh /\ i < STEPS
      /\ i % 2 \in {0, 1}
      /\ Iy \in 0..2 * bh - 1 /\ Iy = (IF i % 2 = 1 THEN bh + by ELSE by)
      /\ Y \in Rows
  BY <1>1, LosslessPlaces
<1>5. /\ bits \in BITS /\ bh \in BH /\ delta_prog \in BOOLEAN
      /\ buf \in [0..2 * bh - 1 -> [Xs -> Pixels]]
      /\ src \in [Rows -> [Xs -> Pixels]]
      /\ prev_pixels \in [Rows -> [Xs -> Pixels]]
      /\ dec \in [Rows -> [Xs -> Int]]
      /\ delta_prog => prev_pixels = src
      /\ LosslessExact
  BY <1>1, Zenon DEF LosslessOn
<1>6. g \in [Xs -> Pixels]
  <2>1. PALETTE[bh] \subseteq Pixels
    BY <1>5, Zenon DEF LosslessAssumption, Pixels
  <2> QED BY <2>1
<1> DEFINE e == [x \in Xs |-> g[x] \div 2^Lost]
<1>7. Decoded(flags, Encoded([buf EXCEPT ![Iy] = g], flags)) = e
  BY <1>1, <1>6, DecodedIsCut
<1>8. dec' = [dec EXCEPT ![Y] = e]
  BY <1>2, <1>7
<1>9. 2^Lost \in Nat \ {0}
  BY <1>4, LosslessPowers
<1>10. e \in [Xs -> Int]
  <2>1. ASSUME NEW x \in Xs PROVE g[x] \div 2^Lost \in Int
    <3>1. g[x] \in Int
      BY <1>6 DEF Pixels
    <3> QED BY <1>9, <3>1, IntDivMod
  <2> QED BY <2>1
<1>11. Rows' = Rows /\ Xs' = Xs /\ Pixels' = Pixels /\ Lost' = Lost
  BY <1>3 DEF Rows, Xs, Pixels, Lost
<1>12. /\ (buf \in [0..2 * bh - 1 -> [Xs -> Pixels]])'
       /\ (src \in [Rows -> [Xs -> Pixels]])'
       /\ (prev_pixels \in [Rows -> [Xs -> Pixels]])'
       /\ (dec \in [Rows -> [Xs -> Int]])'
       /\ (delta_prog => prev_pixels = src)'
  <2>1. buf' \in [0..2 * bh - 1 -> [Xs -> Pixels]]
    BY <1>2, <1>4, <1>5, <1>6
  <2>2. src' \in [Rows -> [Xs -> Pixels]]
    BY <1>2, <1>4, <1>5, <1>6
  <2>3. prev_pixels' \in [Rows -> [Xs -> Pixels]]
    BY <1>2, <1>4, <1>5, <1>6
  <2>4. dec' \in [Rows -> [Xs -> Int]]
    BY <1>4, <1>5, <1>8, <1>10
  <2>5. delta_prog => prev_pixels' = src'
    BY <1>2, <1>5
  <2> QED BY <1>3, <1>11, <2>1, <2>2, <2>3, <2>4, <2>5
<1>13. LosslessExact'
  <2> SUFFICES ASSUME NEW y \in Rows, NEW x \in Xs
               PROVE  dec'[y][x] = src'[y][x] \div 2^Lost
    <3>1. DOMAIN src' = Rows
      BY <1>11, <1>12
    <3> QED BY <1>11, <3>1 DEF LosslessExact
  <2>1. dec[y][x] = src[y][x] \div 2^Lost
    BY <1>5 DEF LosslessExact
  <2>2. CASE y = Y
    <3>1. dec'[y] = e /\ src'[y] = g
      <4> HIDE DEF e
      <4> QED BY <1>2, <1>4, <1>5, <1>8, <2>2
    <3> QED BY <3>1
  <2>3. CASE y # Y
    BY <1>2, <1>5, <1>8, <2>1, <2>3
  <2> QED BY <2>2, <2>3
<1>14. by' = IF by + 1 = bh THEN 0 ELSE by + 1
  <2>1. CASE by + 1 = bh
    BY <1>3, <1>4, <2>1
  <2>2. CASE by + 1 < bh
    BY <1>3, <1>4, <2>2
  <2> QED BY <1>4, <2>1, <2>2
<1>15. i' = IF by + 1 = bh THEN (IF i + 1 = STEPS THEN 0 ELSE i + 1) ELSE i
  <2>1. (i + 1) % STEPS = IF i + 1 = STEPS THEN 0 ELSE i + 1
    <3>1. CASE i + 1 = STEPS
      BY <1>4, <3>1
    <3>2. CASE i + 1 < STEPS
      BY <1>4, <3>2
    <3> QED BY <1>4, <3>1, <3>2
  <2> QED BY <1>3, <1>4, <1>14, <2>1
<1>16. (i \in 0..STEPS - 1 /\ by \in 0..bh - 1)'
  BY <1>3, <1>4, <1>14, <1>15
<1>17. (HasTop => buf[Top_row] = src[Y - 1])'
  <2> SUFFICES ASSUME HasTop' PROVE Top_row' = Iy /\ (Y - 1)' = Y
    BY <1>2, <1>4, <1>5
  <2>1. CASE by + 1 # bh
    <3>1. by' = by + 1 /\ i' = i
      BY <1>14, <1>15, <2>1
    <3>2. Iy' = Iy + 1 /\ Y' = Y + 1 /\ by' > 0
      <4>1. Iy' = (i % 2) * bh + (by + 1) /\ Y' = i * bh + (by + 1) /\ by' > 0
        BY <1>3, <1>4, <3>1 DEF Iy, Y
      <4>2. (i % 2) * bh \in Int /\ i * bh \in Int
        BY <1>4
      <4> QED BY <1>4, <4>1, <4>2 DEF Iy, Y
    <3>3. Y \in Int
      BY <1>4 DEF Y
    <3> QED BY <1>4, <3>2, <3>3 DEF Top_row
  <2>2. CASE by + 1 = bh
    <3>1. by' = 0 /\ i' = i + 1
      BY <1>4, <1>14, <1>15, <2>2 DEF HasTop
    <3>2. (i + 1) % 2 = 1 - (i % 2)
      BY <1>4
    <3>3. Iy' = IF i % 2 = 1 THEN 0 ELSE bh
      BY <1>3, <1>4, <3>1, <3>2 DEF Iy
    <3>4. Top_row' = IF i % 2 = 1 THEN 2 * bh - 1 ELSE bh - 1
      BY <1>3, <1>4, <3>1, <3>2, <3>3 DEF Top_row
    <3>5. Top_row' = Iy
      BY <1>4, <2>2, <3>4
    <3>6. PICK m \in Int, n \in Int : m = (i + 1) * bh /\ n = i * bh
      BY <1>4
    <3>7. m = n + bh
      BY <1>4, <3>6
    <3>8. Y' = m + 0
      BY <1>3, <3>1, <3>6, Zenon DEF Y
    <3>9. Y = n + by
      BY <3>6, Zenon DEF Y
    <3>10. Y' - 1 = Y
      BY <1>4, <2>2, <3>7, <3>8, <3>9
    <3>11. (Y - 1)' = Y
      BY <3>10
    <3> QED BY <3>5, <3>11
  <2> QED BY <2>1, <2>2
<1>18. LosslessOn'
  BY <1>3, <1>5, <1>12, <1>13, <1>16, <1>17, Zenon DEF LosslessOn
<1> QED BY <1>18 DEF LosslessInv

(* Steps that leave the lossless stream alone.                             *)
LEMMA LosslessStutter ==
  ASSUME LosslessInv, UNCHANGED losslessVars
  PROVE  LosslessInv'
<1>1. /\ bits' = bits /\ bh' = bh /\ delta_prog' = delta_prog /\ i' = i /\ by' = by
      /\ buf' = buf /\ prev_pixels' = prev_pixels /\ src' = src /\ dec' = dec
  BY DEF losslessVars
<1>2. CASE LosslessOff
  <2>1. LosslessOff'
    BY <1>1, <1>2 DEF LosslessOff
  <2> QED BY <2>1 DEF LosslessInv
<1>3. CASE LosslessOn
  <2>1. /\ Rows' = Rows /\ HasTop' = HasTop /\ Top_row' = Top_row /\ Y' = Y
        /\ LosslessExact' = LosslessExact
    BY <1>1 DEF Rows, HasTop, Top_row, Iy, Y, LosslessExact, Lost
  <2>2. LosslessOn'
    BY <1>1, <1>3, <2>1 DEF LosslessOn
  <2> QED BY <2>2 DEF LosslessInv
<1> QED BY <1>2, <1>3 DEF LosslessInv

(* The invariant of the lossless stream.                                   *)
LEMMA LosslessInvHolds == Spec => []LosslessInv
<1> USE LosslessAssumption
<1>1. Init => LosslessInv
  BY LosslessInitInv DEF Init
<1>2. LosslessInv /\ [Next]_vars => LosslessInv'
  <2> SUFFICES ASSUME LosslessInv, [Next]_vars PROVE LosslessInv'
    OBVIOUS
  <2>1. CASE UNCHANGED losslessVars
    BY <2>1, LosslessStutter
  <2>2. CASE LosslessNext
    BY <2>2, LosslessRowInv DEF LosslessNext
  <2>3. CASE UNCHANGED vars
    <3>1. UNCHANGED losslessVars
      BY <2>3 DEF vars
    <3> QED BY <3>1, LosslessStutter
  <2> QED BY <2>1, <2>2, <2>3 DEF Next
<1> QED BY <1>1, <1>2, PTL DEF Spec

(* The decoder, which never sees the low bits and predicts from its own    *)
(* image, has of every row exactly the coded bits of the pixels encoded    *)
(* last, for every width, palette, number of bits, chunk size and choice of*)
(* chunks.                                                                 *)
THEOREM LosslessExactHolds == Spec => []LosslessExact
<1>1. LosslessInv => LosslessExact
  BY DEF LosslessInv, LosslessOn, LosslessOff, LosslessExact
<1> QED BY <1>1, LosslessInvHolds, PTL

-----------------------------------------------------------------------------
(***************************************************************************)
(* CoefDelta: quantizing by shifts.                                        *)
(***************************************************************************)

(* Shifting the magnitude is shifting with the correction for negatives.   *)
LEMMA RoundToZero ==
  ASSUME NEW w \in Nat \ {0}, NEW c \in Int
  PROVE  (IF c < 0 THEN -((-c) \div w) ELSE c \div w)
           = c \div w + (IF c < 0 /\ c % w > 0 THEN 1 ELSE 0)
<1>1. PICK q \in Int, r \in 0 .. w - 1 : c = w * q + r /\ q = c \div w /\ r = c % w
  BY IntDivMod
<1>2. CASE c < 0 /\ r = 0
  <2>1. PICK x \in Int, y \in Int, z \in 0 .. w - 1 : x = -c /\ y = -q /\ z = 0
    OBVIOUS
  <2>2. x = w * y + z
    BY <1>1, <1>2, <2>1
  <2>3. x \div w = y
    BY <2>2, IntDivUnique, Zenon
  <2> QED BY <1>1, <1>2, <2>1, <2>3
<1>3. CASE c < 0 /\ r # 0
  <2>1. PICK x \in Int, y \in Int, z \in 0 .. w - 1 : x = -c /\ y = -q - 1 /\ z = w - r
    BY <1>3
  <2>2. x = w * y + z
    BY <1>1, <1>3, <2>1
  <2>3. x \div w = y
    BY <2>2, IntDivUnique, Zenon
  <2> QED BY <1>1, <1>3, <2>1, <2>3
<1>4. CASE c >= 0
  BY <1>1, <1>4
<1> QED BY <1>2, <1>3, <1>4

(* A difference shifted is the difference of the shifted, less a borrow.   *)
LEMMA DivSub ==
  ASSUME NEW w \in Nat \ {0}, NEW a \in Int, NEW b \in Int
  PROVE  (a - b) \div w = a \div w - b \div w - (IF b % w > a % w THEN 1 ELSE 0)
<1>1. PICK q \in Int, r \in 0 .. w - 1 : a = w * q + r /\ q = a \div w /\ r = a % w
  BY IntDivMod
<1>2. PICK p \in Int, t \in 0 .. w - 1 : b = w * p + t /\ p = b \div w /\ t = b % w
  BY IntDivMod
<1>3. CASE t > r
  <2>1. PICK x \in Int, y \in Int, z \in 0 .. w - 1 :
          x = a - b /\ y = q - p - 1 /\ z = r - t + w
    BY <1>3
  <2>2. x = w * y + z
    <3>1. w * (q - p - 1) = w * q - w * p - w
      OBVIOUS
    <3>2. w * q \in Int /\ w * p \in Int
      OBVIOUS
    <3> QED BY <1>1, <1>2, <2>1, <3>1, <3>2
  <2>3. x \div w = y
    BY <2>2, IntDivUnique, Zenon
  <2> QED BY <1>1, <1>2, <1>3, <2>1, <2>3
<1>4. CASE ~(t > r)
  <2>1. PICK x \in Int, y \in Int, z \in 0 .. w - 1 :
          x = a - b /\ y = q - p /\ z = r - t
    BY <1>4
  <2>2. x = w * y + z
    <3>1. PICK m \in Int, n \in Int : m = w * q /\ n = w * p
      OBVIOUS
    <3>2. w * (q - p) = m - n
      BY <3>1
    <3>3. w * y = m - n
      BY <2>1, <3>2
    <3>4. a = m + r /\ b = n + t
      BY <1>1, <1>2, <3>1
    <3> QED BY <2>1, <3>3, <3>4
  <2>3. x \div w = y
    BY <2>2, IntDivUnique, Zenon
  <2>4. (a - b) \div w = q - p
    BY <2>1, <2>3
  <2>5. (IF b % w > a % w THEN 1 ELSE 0) = 0
    BY <1>1, <1>2, <1>4
  <2>6. (a - b) \div w = a \div w - b \div w - 0
    BY <1>1, <1>2, <2>4
  <2> QED BY <2>5, <2>6
<1> QED BY <1>3, <1>4

(* Scaling up before a larger shift is the shift by the difference.        *)
LEMMA ScaleDiv ==
  ASSUME NEW u \in Nat \ {0}, NEW w \in Nat \ {0}, NEW c \in Int
  PROVE  /\ (c * u) \div (u * w) = c \div w
         /\ (c * u) % (u * w) > 0 <=> c % w > 0
         /\ c * u < 0 <=> c < 0
<1>1. PICK q \in Int, r \in 0 .. w - 1 : c = w * q + r /\ q = c \div w /\ r = c % w
  BY IntDivMod
<1>2. PICK v \in Nat \ {0} : v = u * w
  <2>1. u * w >= 1 /\ u * w \in Int
    OBVIOUS
  <2> QED BY <2>1
<1>3. u * r \in 0 .. v - 1 /\ (u * r > 0 <=> r > 0)
  <2>1. u * (w - 1 - r) >= 0 /\ u * r >= 0 /\ u * r \in Int
    OBVIOUS
  <2>2. u * (w - 1 - r) = u * w - u - u * r
    OBVIOUS
  <2>3. r > 0 => u * r > 0
    OBVIOUS
  <2>4. r = 0 => u * r = 0
    OBVIOUS
  <2> QED BY <1>2, <2>1, <2>2, <2>3, <2>4
<1>4. PICK x \in Int, z \in 0 .. v - 1 : x = c * u /\ z = u * r
  BY <1>3
<1>5. x = v * q + z
  <2>1. (w * q + r) * u = (u * w) * q + u * r
    OBVIOUS
  <2> QED BY <1>1, <1>2, <1>4, <2>1
<1>6. x \div v = q /\ x % v = z
  BY <1>5, IntDivUnique, Zenon
<1>7. c * u < 0 <=> c < 0
  <2>1. CASE c < 0
    <3>1. (-c) * u >= 1 /\ (-c) * u = -(c * u)
      BY <2>1
    <3> QED BY <2>1, <3>1
  <2>2. CASE c >= 0
    <3>1. c * u >= 0
      BY <2>2
    <3> QED BY <2>2, <3>1
  <2> QED BY <2>1, <2>2
<1> QED BY <1>1, <1>2, <1>3, <1>4, <1>6, <1>7

(* Subtracting a multiple of the divisor.                                  *)
LEMMA DivSubMultiple ==
  ASSUME NEW w \in Nat \ {0}, NEW a \in Int, NEW b \in Int
  PROVE  (a - b * w) \div w = a \div w - b
<1>1. PICK q \in Int, r \in 0 .. w - 1 : a = w * q + r /\ q = a \div w /\ r = a % w
  BY IntDivMod
<1>2. PICK x \in Int, y \in Int : x = a - b * w /\ y = q - b
  OBVIOUS
<1>3. x = w * y + r
  <2>1. PICK m \in Int, n \in Int : m = w * q /\ n = b * w
    OBVIOUS
  <2>2. w * (q - b) = m - n
    BY <2>1
  <2>3. w * y = m - n
    BY <1>2, <2>2
  <2>4. a = m + r /\ x = a - n
    BY <1>1, <1>2, <2>1
  <2> QED BY <2>3, <2>4
<1>4. x \div w = y
  BY <1>3, IntDivUnique, Zenon
<1> QED BY <1>1, <1>2, <1>4

(* A higher level is never shifted more.                                   *)
LEMMA TblAntitone ==
  ASSUME CoefDeltaAssumption, log2 \in Nat, NEW p \in Levels, NEW q \in Levels
  PROVE  /\ Delta_q_tbl(q) \in Nat
         /\ p <= q => Delta_q_tbl(p) >= Delta_q_tbl(q)
<1>1. DELTA_Q_COUNT \in Nat \ {0} /\ STEP \in Nat
  BY DEF CoefDeltaAssumption
<1>2. p \in Nat /\ q \in Nat
  BY <1>1 DEF Levels
<1>3. PICK x \in Int, y \in Int : x = log2 - STEP * p /\ y = log2 - STEP * q
  BY <1>1, <1>2
<1>4. p <= q => x >= y
  <2> SUFFICES ASSUME p <= q PROVE x >= y
    OBVIOUS
  <2>1. STEP * (q - p) >= 0
    BY <1>1, <1>2
  <2>2. STEP * (q - p) = STEP * q - STEP * p
    BY <1>1, <1>2
  <2>3. x - y = STEP * q - STEP * p
    BY <1>1, <1>2, <1>3
  <2> QED BY <1>3, <2>1, <2>2, <2>3
<1>5. /\ Delta_q_tbl(p) = IF x > 0 THEN (x + 1) \div 2 ELSE 0
      /\ Delta_q_tbl(q) = IF y > 0 THEN (y + 1) \div 2 ELSE 0
  BY <1>3 DEF Delta_q_tbl
<1> QED BY <1>4, <1>5

(* The shifts between levels, as natural numbers.                          *)
LEMMA Shifts ==
  ASSUME CoefDeltaAssumption, log2 \in Nat, NEW p \in Levels, NEW q \in Levels
  PROVE  /\ Full \in Levels /\ p <= Full /\ q <= Full
         /\ p \in Int /\ q \in Int
         /\ Delta_q0(p) \in Nat /\ Delta_q0(q) \in Nat /\ Delta_q0(Full) = 0
         /\ p <= q => /\ Delta_q_tbl(p) - Delta_q_tbl(q) \in Nat
                      /\ Delta_q0(p) = Delta_q0(q) + (Delta_q_tbl(p) - Delta_q_tbl(q))
         /\ q <= p => /\ Delta_q_tbl(q) - Delta_q_tbl(p) \in Nat
                      /\ Delta_q0(q) = Delta_q0(p) + (Delta_q_tbl(q) - Delta_q_tbl(p))
<1>1. Full \in Levels /\ p <= Full /\ q <= Full /\ p \in Int /\ q \in Int
  BY DEF CoefDeltaAssumption, Full, Levels
<1>2. PICK tp \in Nat, tq \in Nat, tf \in Nat :
        tp = Delta_q_tbl(p) /\ tq = Delta_q_tbl(q) /\ tf = Delta_q_tbl(Full)
  BY <1>1, TblAntitone
<1>3. tp >= tf /\ tq >= tf /\ (p <= q => tp >= tq) /\ (q <= p => tq >= tp)
  BY <1>1, <1>2, TblAntitone
<1>4. Delta_q0(p) = tp - tf /\ Delta_q0(q) = tq - tf /\ Delta_q0(Full) = tf - tf
  BY <1>2 DEF Delta_q0
<1> QED BY <1>1, <1>2, <1>3, <1>4

(* do_quantize, which divides the magnitude, is an arithmetic shift and    *)
(* the correction for negatives that compute_dq makes.                     *)
LEMMA QuantizeIsShr ==
  ASSUME NEW c \in Int, NEW n \in Nat
  PROVE  Quantize(c, n) = Shr(c, n) + Off(c, n) /\ Quantize(c, n) \in Int
<1>1. PICK w \in Nat \ {0} : w = 2^n
  BY PowerPositive
<1>2. (IF c < 0 THEN -((-c) \div w) ELSE c \div w)
           = c \div w + (IF c < 0 /\ c % w > 0 THEN 1 ELSE 0)
  BY RoundToZero
<1>3. c \div w \in Int
  BY IntDivMod
<1>4. Shr(c, n) + Off(c, n) = c \div w + (IF c < 0 /\ c % w > 0 THEN 1 ELSE 0)
  BY <1>1 DEF Shr, Off, Low
<1>5. Quantize(c, n) = IF c < 0 THEN -((-c) \div w) ELSE c \div w
  BY <1>1 DEF Quantize
<1> QED BY <1>2, <1>3, <1>4, <1>5

(* What the cache holds of a sampled block brings the receiver to the      *)
(* quantised coefficient, whatever the level was and has become.           *)
LEMMA CachedAgrees ==
  ASSUME CoefDeltaAssumption, log2 \in Nat, NEW p \in Levels, NEW q \in Levels,
         next \in Int, copy \in Int, prev = copy * 2^Delta_q0(p),
         held = next - prev
  PROVE  /\ Cached(q, p).prev = Quantize(next, Delta_q0(q))
         /\ Rescale_prev(copy, p, q) + Cached(q, p).output = Cached(q, p).prev
         /\ Cached(q, p).prev \in Int
<1>1. /\ Full \in Levels /\ p <= Full /\ q <= Full
      /\ p \in Int /\ q \in Int
      /\ Delta_q0(p) \in Nat /\ Delta_q0(q) \in Nat /\ Delta_q0(Full) = 0
      /\ p <= q => /\ Delta_q_tbl(p) - Delta_q_tbl(q) \in Nat
                   /\ Delta_q0(p) = Delta_q0(q) + (Delta_q_tbl(p) - Delta_q_tbl(q))
      /\ q <= p => /\ Delta_q_tbl(q) - Delta_q_tbl(p) \in Nat
                   /\ Delta_q0(q) = Delta_q0(p) + (Delta_q_tbl(q) - Delta_q_tbl(p))
  BY Shifts
<1>2. PICK sp \in Nat, sq \in Nat : sp = Delta_q0(p) /\ sq = Delta_q0(q)
  BY <1>1
<1>3. PICK wp \in Nat \ {0}, wq \in Nat \ {0} : wp = 2^sp /\ wq = 2^sq
  BY PowerPositive
<1>4. prev = copy * wp /\ prev \in Int /\ held \in Int
  <2>1. prev = copy * wp
    BY <1>2, <1>3
  <2> QED BY <2>1
<1>5. 2^0 = 1
  OBVIOUS
<1>6. Full \in Int
  BY <1>1 DEF CoefDeltaAssumption, Full
<1>7. Quantize(next, sq) = Shr(next, sq) + Off(next, sq) /\ Quantize(next, sq) \in Int
  BY QuantizeIsShr
<1>8. CASE q = Full
  <2>1. Cached(q, p) = [prev |-> next, output |-> held]
    BY <1>8 DEF Cached
  <2>2. sq = 0
    BY <1>1, <1>2, <1>8
  <2>3. Quantize(next, sq) = next
    <3>1. \A c \in Int : c \div 1 = c
      OBVIOUS
    <3>2. wq = 1
      BY <1>3, <1>5, <2>2
    <3>3. Quantize(next, sq) = IF next < 0 THEN -((-next) \div wq) ELSE next \div wq
      BY <1>3 DEF Quantize
    <3> QED BY <3>1, <3>2, <3>3
  <2>4. Rescale_prev(copy, p, q) = prev
    <3>1. CASE p = Full
      <4>1. sp = 0
        BY <1>1, <1>2, <3>1
      <4>2. prev = copy
        BY <1>3, <1>4, <1>5, <4>1
      <4>3. ~(q > p) /\ ~(q < p)
        BY <1>1, <1>8, <3>1
      <4>4. Rescale_prev(copy, p, q) = copy
        BY <4>3 DEF Rescale_prev
      <4> QED BY <4>2, <4>4
    <3>2. CASE p # Full
      <4>1. q > p /\ p <= q /\ ~(q < p)
        BY <1>1, <1>6, <1>8, <3>2
      <4>2. Rescale_prev(copy, p, q) = copy * 2^(Delta_q_tbl(p) - Delta_q_tbl(q))
        BY <4>1 DEF Rescale_prev
      <4>3. Delta_q_tbl(p) - Delta_q_tbl(q) = sp
        BY <1>1, <1>2, <2>2, <4>1
      <4> QED BY <1>3, <1>4, <4>2, <4>3
    <3> QED BY <3>1, <3>2
  <2> QED BY <1>2, <1>4, <2>1, <2>3, <2>4
<1>9. CASE q # Full
  <2> DEFINE borrow == IF Low(prev, sq) > Low(next, sq) THEN 1 ELSE 0
             corr == IF q < p THEN Off(next, sq) - Off(prev, sq) + borrow
                     ELSE Off(next, sq)
  <2>1. /\ Cached(q, p).prev = Shr(next, sq) + Off(next, sq)
        /\ Cached(q, p).output = Shr(held, sq) + corr
    BY <1>2, <1>9 DEF Cached
  <2>2. Shr(next, sq) \in Int /\ Shr(next, sq) = next \div wq /\ Off(next, sq) \in Int
    BY <1>3, IntDivMod DEF Shr, Off
  <2> SUFFICES Rescale_prev(copy, p, q) + (Shr(held, sq) + corr)
                 = Shr(next, sq) + Off(next, sq)
    BY <1>2, <1>7, <2>1
  <2>3. CASE q < p
    <3>1. PICK n \in Nat : n = Delta_q_tbl(q) - Delta_q_tbl(p) /\ sq = sp + n
      BY <1>1, <1>2, <2>3
    <3>2. PICK w \in Nat \ {0} : w = 2^n /\ wq = wp * w
      <4>1. 2^n \in Nat \ {0} /\ 2^(sp + n) = 2^sp * 2^n
        BY PowerPositive, PowerSum
      <4> QED BY <1>3, <3>1, <4>1
    <3>3. ~(q > p)
      BY <1>1, <2>3
    <3>4. Rescale_prev(copy, p, q) = Shr(copy, n) + Off(copy, n)
      BY <2>3, <3>1, <3>3 DEF Rescale_prev
    <3>5. /\ (copy * wp) \div (wp * w) = copy \div w
          /\ (copy * wp) % (wp * w) > 0 <=> copy % w > 0
          /\ copy * wp < 0 <=> copy < 0
      BY ScaleDiv
    <3>6. Shr(copy, n) = prev \div wq /\ Off(copy, n) = Off(prev, sq)
      BY <1>3, <1>4, <3>2, <3>5 DEF Shr, Off, Low
    <3>7. held \div wq = next \div wq - prev \div wq - borrow
      BY <1>3, <1>4, DivSub DEF Low
    <3>8. prev \div wq \in Int /\ next \div wq \in Int /\ Off(prev, sq) \in Int
          /\ borrow \in Int /\ Off(next, sq) \in Int
      BY <1>4, IntDivMod DEF Off
    <3>9. Shr(held, sq) = held \div wq
      BY <1>3 DEF Shr
    <3>10. corr = Off(next, sq) - Off(prev, sq) + borrow
      BY <2>3
    <3> HIDE DEF borrow, corr
    <3> QED BY <2>2, <3>4, <3>6, <3>7, <3>8, <3>9, <3>10
  <2>4. CASE ~(q < p)
    <3>1. PICK n \in Nat : n = Delta_q_tbl(p) - Delta_q_tbl(q) /\ sp = sq + n
      BY <1>1, <1>2, <2>4
    <3>2. PICK w \in Nat \ {0} : w = 2^n /\ wp = wq * w
      <4>1. 2^n \in Nat \ {0} /\ 2^(sq + n) = 2^sq * 2^n
        BY PowerPositive, PowerSum
      <4> QED BY <1>3, <3>1, <4>1
    <3>3. PICK m \in Int : m = copy * w
      OBVIOUS
    <3>4. Rescale_prev(copy, p, q) = m
      <4>1. CASE q > p
        BY <2>4, <3>1, <3>2, <3>3, <4>1 DEF Rescale_prev
      <4>2. CASE ~(q > p)
        <5>1. q = p
          BY <1>1, <2>4, <4>2
        <5>2. n = 0
          <6>1. sp = sq
            BY <1>2, <5>1, Zenon
          <6>2. sp = sq + n
            BY <3>1
          <6>3. ASSUME NEW x \in Nat, NEW y \in Nat, NEW z \in Nat, x = y + z, x = y
                PROVE  z = 0
            BY <6>3
          <6> QED BY <6>1, <6>2, <6>3
        <5>3. w = 1
          BY <1>5, <3>2, <5>2
        <5>4. Rescale_prev(copy, p, q) = copy
          BY <2>4, <4>2 DEF Rescale_prev
        <5> QED BY <3>3, <5>3, <5>4
      <4> QED BY <4>1, <4>2
    <3>5. prev = m * wq
      <4>1. copy * (wq * w) = (copy * w) * wq
        OBVIOUS
      <4> QED BY <1>4, <3>2, <3>3, <4>1
    <3>6. held \div wq = next \div wq - m
      BY <3>5, DivSubMultiple
    <3>7. Shr(held, sq) = held \div wq
      BY <1>3 DEF Shr
    <3>8. corr = Off(next, sq)
      BY <2>4
    <3> HIDE DEF borrow, corr
    <3> QED BY <2>2, <3>4, <3>6, <3>7, <3>8
  <2> QED BY <2>3, <2>4
<1> QED BY <1>8, <1>9

-----------------------------------------------------------------------------
(***************************************************************************)
(* CoefDelta: the sampled blocks are drawn without repetition, in order.   *)
(***************************************************************************)

(* A sequence of numbers in strictly ascending order.                      *)
Ascending(s) ==
  /\ s \in Seq(Nat)
  /\ \A j, k \in 1..Len(s) : j < k => s[j] < s[k]

(* A drawn number that skips the ones taken is free.                       *)
LEMMA SkipTakenFree ==
  ASSUME NEW s, Ascending(s), NEW v \in Nat
  PROVE  /\ Skip_taken(v, s) \in v..v + Len(s)
         /\ \A j \in 1..Len(s) : s[j] # Skip_taken(v, s)
<1> DEFINE L == Len(s)
           D(a, n) == IF n = 0 THEN v
                      ELSE a[n - 1] + (IF a[n - 1] >= s[n] THEN 1 ELSE 0)
           sk == CHOOSE a : a = [n \in 0..L |-> D(a, n)]
<1>1. Skip_taken(v, s) = sk[L]
  BY DEF Skip_taken
<1>2. L \in Nat /\ s \in Seq(Nat) /\ (\A j \in 1..L : s[j] \in Nat)
      /\ \A j, k \in 1..L : j < k => s[j] < s[k]
  BY DEF Ascending
<1> HIDE DEF L
<1>3. \E a : a = [n \in 0..L |-> D(a, n)]
  <2> DEFINE step == [m \in 1..L |-> [x \in Nat |-> x + (IF x >= s[m] THEN 1 ELSE 0)]]
  <2>1. step \in [1..L -> [Nat -> Nat]]
    BY <1>2
  <2>2. PICK f \in [0..L -> Nat] :
          f[0] = v /\ \A m \in 1..L : f[m] = step[m][f[m - 1]]
    <3>1. Steps(Nat, v, L, step)
      BY <1>2, <2>1 DEF Steps
    <3> HIDE DEF step
    <3> QED BY <3>1, Recursion DEF Iterates
  <2>3. ASSUME NEW n \in 0..L PROVE f[n] = D(f, n)
    <3>1. CASE n = 0
      BY <2>2, <3>1
    <3>2. CASE n # 0
      <4>1. n \in 1..L /\ n - 1 \in 0..L
        BY <1>2, <3>2
      <4>2. f[n - 1] \in Nat
        BY <4>1
      <4>3. f[n] = step[n][f[n - 1]]
        BY <2>2, <4>1
      <4> QED BY <3>2, <4>1, <4>2, <4>3
    <3> QED BY <3>1, <3>2
  <2>4. f = [n \in 0..L |-> D(f, n)]
    BY <2>3
  <2> QED BY <2>4
<1>4. sk = [n \in 0..L |-> D(sk, n)]
  <2> HIDE DEF D
  <2> QED BY <1>3, Zenon
<1> HIDE DEF sk
<1>5. \A n \in 0..L : sk[n] = D(sk, n)
  BY <1>4
<1> DEFINE Good(n) == sk[n] \in v..v + n /\ \A j \in 1..n : s[j] # sk[n]
           S == {n \in 0..L : ~ Good(n)}
<1>6. S = {}
  <2> SUFFICES ASSUME S # {} PROVE FALSE
    OBVIOUS
  <2>1. S \in SUBSET Nat
    BY <1>2
  <2>2. PICK n \in S : \A m \in S : n <= m
    BY <2>1, Smallest
  <2>3. n # 0
    <3>1. Good(0)
      BY <1>2, <1>5
    <3> QED BY <2>2, <3>1
  <2>4. n \in 1..L /\ n - 1 \in 0..L /\ n - 1 \notin S
    BY <1>2, <2>2, <2>3
  <2>5. Good(n - 1)
    BY <2>4
  <2>6. PICK x \in Int : x = sk[n - 1]
    BY <2>5
  <2>7. sk[n] = x + (IF x >= s[n] THEN 1 ELSE 0)
    BY <1>5, <2>3, <2>4, <2>6
  <2>8. s[n] \in Nat /\ \A j \in 1..n - 1 : s[j] \in Nat /\ s[j] < s[n]
    BY <1>2, <2>4
  <2>9. x \in v..v + (n - 1) /\ \A j \in 1..n - 1 : s[j] # x
    BY <2>5, <2>6
  <2> HIDE DEF S
  <2>10. Good(n)
    <3>1. sk[n] \in v..v + n
      BY <2>4, <2>7, <2>8, <2>9
    <3>2. ASSUME NEW j \in 1..n PROVE s[j] # sk[n]
      <4>1. CASE j = n
        BY <2>4, <2>7, <2>8, <4>1
      <4>2. CASE j \in 1..n - 1
        BY <2>4, <2>7, <2>8, <2>9, <4>2
      <4> QED BY <2>4, <4>1, <4>2
    <3> QED BY <3>1, <3>2
  <2> QED BY <2>2, <2>10 DEF S
<1>7. Good(L)
  BY <1>2, <1>6
<1> QED BY <1>1, <1>7 DEF L

(* Inserting a free number before the first larger one keeps the order.    *)
LEMMA InsertSortedAscending ==
  ASSUME NEW s, Ascending(s), NEW v \in Nat, \A j \in 1..Len(s) : s[j] # v
  PROVE  /\ Ascending(Insert_sorted(s, v))
         /\ Len(Insert_sorted(s, v)) = Len(s) + 1
         /\ \A j \in 1..Len(s) + 1 :
              Insert_sorted(s, v)[j] = v \/ \E k \in 1..Len(s) : Insert_sorted(s, v)[j] = s[k]
<1> DEFINE L == Len(s)
           P == {j \in DOMAIN s : v < s[j]} \cup {Len(s) + 1}
           pos == Min(P)
           t == Insert_sorted(s, v)
<1>1. L \in Nat /\ s \in Seq(Nat) /\ (\A j \in 1..L : s[j] \in Nat) /\ DOMAIN s = 1..L
      /\ \A j, k \in 1..L : j < k => s[j] < s[k]
  BY DEF Ascending
<1>2. P \in SUBSET Nat /\ P # {} /\ P \subseteq 1..L + 1
  BY <1>1
<1>3. pos \in P /\ \A j \in P : pos <= j
  <2>1. \E x \in P : \A y \in P : x <= y
    BY <1>2, Smallest
  <2> HIDE DEF P
  <2> QED BY <2>1, Zenon DEF Min
<1>4. t = InsertAt(s, pos, v)
  BY DEF Insert_sorted
<1>5. pos \in 1..L + 1 /\ pos \in Int
  BY <1>2, <1>3
<1>6. ASSUME NEW j \in 1..L PROVE IF j < pos THEN s[j] < v ELSE v < s[j]
  <2>1. CASE j < pos
    <3>1. ~(pos <= j)
      BY <1>5, <2>1
    <3>2. j \notin P
      <4> HIDE DEF P, pos
      <4> QED BY <1>3, <3>1
    <3>3. ~(v < s[j])
      BY <1>1, <3>2
    <3> QED BY <1>1, <2>1, <3>3
  <2>2. CASE ~(j < pos)
    <3>1. pos \in 1..L /\ v < s[pos]
      BY <1>1, <1>3, <1>5, <2>2
    <3> QED BY <1>1, <1>5, <2>2, <3>1
  <2> QED BY <2>1, <2>2
<1> HIDE DEF pos, P, t
<1>7. /\ t \in Seq(Nat) /\ Len(t) = L + 1
      /\ \A j \in 1..L + 1 : t[j] = IF j < pos THEN s[j] ELSE IF j = pos THEN v ELSE s[j - 1]
  <2>1. t = SubSeq(s, 1, pos - 1) \o <<v>> \o SubSeq(s, pos, Len(s))
    BY <1>4 DEF InsertAt
  <2>2. PICK a \in Seq(Nat), b \in Seq(Nat), c \in Seq(Nat) :
          /\ a = SubSeq(s, 1, pos - 1) /\ b = <<v>> /\ c = SubSeq(s, pos, Len(s))
          /\ Len(a) = pos - 1 /\ Len(b) = 1 /\ Len(c) = L + 1 - pos
          /\ \A j \in 1..pos - 1 : a[j] = s[j]
          /\ b[1] = v
          /\ \A j \in 1..L + 1 - pos : c[j] = s[pos + j - 1]
    <3>1. SubSeq(s, 1, pos - 1) \in Seq(Nat) /\ Len(SubSeq(s, 1, pos - 1)) = pos - 1
          /\ \A j \in 1..pos - 1 : SubSeq(s, 1, pos - 1)[j] = s[j]
      BY <1>1, <1>5
    <3>2. SubSeq(s, pos, Len(s)) \in Seq(Nat) /\ Len(SubSeq(s, pos, Len(s))) = L + 1 - pos
          /\ \A j \in 1..L + 1 - pos : SubSeq(s, pos, Len(s))[j] = s[pos + j - 1]
      BY <1>1, <1>5
    <3>3. <<v>> \in Seq(Nat) /\ Len(<<v>>) = 1 /\ <<v>>[1] = v
      OBVIOUS
    <3> QED BY <3>1, <3>2, <3>3
  <2>3. t = (a \o b) \o c
    BY <2>1, <2>2, Zenon
  <2>4. /\ a \o b \in Seq(Nat) /\ Len(a \o b) = pos
        /\ \A j \in 1..pos - 1 : (a \o b)[j] = s[j]
        /\ (a \o b)[pos] = v
    BY <1>5, <2>2
  <2>5. PICK e \in Seq(Nat) : e = a \o b
    BY <2>4
  <2>6. t = e \o c /\ Len(e) = pos /\ (\A j \in 1..pos - 1 : e[j] = s[j]) /\ e[pos] = v
    BY <2>3, <2>4, <2>5
  <2>7. t \in Seq(Nat) /\ Len(t) = L + 1
    BY <1>1, <1>5, <2>2, <2>6
  <2>8. ASSUME NEW j \in 1..L + 1
        PROVE  t[j] = IF j < pos THEN s[j] ELSE IF j = pos THEN v ELSE s[j - 1]
    <3>1. CASE j <= pos
      <4>1. t[j] = e[j]
        BY <1>1, <1>5, <2>2, <2>6, <3>1
      <4> QED BY <1>5, <2>6, <3>1, <4>1
    <3>2. CASE j > pos
      <4>1. PICK n \in Int : n = j - pos /\ n \in 1..L + 1 - pos /\ pos + n - 1 = j - 1
        BY <1>1, <1>5, <3>2
      <4>2. j \in 1..Len(e) + Len(c) /\ ~(j <= Len(e)) /\ j - Len(e) = n
        BY <1>1, <1>5, <2>2, <2>6, <3>2, <4>1
      <4>3. t[j] = c[n]
        <5>1. \A m \in 1..Len(e) + Len(c) :
                (e \o c)[m] = IF m <= Len(e) THEN e[m] ELSE c[m - Len(e)]
          BY ConcatProperties
        <5> QED BY <2>6, <4>2, <5>1
      <4>4. c[n] = s[j - 1]
        BY <2>2, <4>1
      <4> QED BY <1>5, <3>2, <4>3, <4>4
    <3> QED BY <1>5, <3>1, <3>2
  <2> QED BY <2>7, <2>8
<1>8. ASSUME NEW j \in 1..L + 1, NEW k \in 1..L + 1, j < k PROVE t[j] < t[k]
  <2> DEFINE at(m) == IF m < pos THEN m ELSE m - 1
  <2>1. \A m \in 1..L + 1 : m # pos => at(m) \in 1..L /\ t[m] = s[at(m)]
    BY <1>1, <1>5, <1>7
  <2>2. CASE j = pos
    <3>1. t[j] = v /\ k # pos /\ at(k) \in 1..L /\ ~(at(k) < pos)
      BY <1>1, <1>5, <1>7, <1>8, <2>1, <2>2
    <3> QED BY <1>6, <1>8, <2>1, <3>1
  <2>3. CASE k = pos
    <3>1. t[k] = v /\ j # pos /\ at(j) \in 1..L /\ at(j) < pos
      BY <1>1, <1>5, <1>7, <1>8, <2>1, <2>3
    <3> QED BY <1>6, <1>8, <2>1, <3>1
  <2>4. CASE j # pos /\ k # pos
    <3>1. at(j) \in 1..L /\ at(k) \in 1..L /\ at(j) < at(k)
      BY <1>1, <1>5, <1>8, <2>1, <2>4
    <3> QED BY <1>1, <1>8, <2>1, <2>4, <3>1
  <2> QED BY <2>2, <2>3, <2>4
<1>9. Ascending(t)
  BY <1>1, <1>7, <1>8 DEF Ascending
<1>10. ASSUME NEW j \in 1..L + 1
       PROVE  t[j] = v \/ \E k \in 1..L : t[j] = s[k]
  <2>1. CASE j < pos
    BY <1>1, <1>5, <1>7, <2>1
  <2>2. CASE j = pos
    BY <1>5, <1>7, <2>2
  <2>3. CASE j > pos
    <3>1. j - 1 \in 1..L /\ t[j] = s[j - 1]
      BY <1>1, <1>5, <1>7, <2>3
    <3> QED BY <3>1
  <2> QED BY <1>5, <2>1, <2>2, <2>3
<1> QED BY <1>7, <1>9, <1>10 DEF t, L

(* One more index is drawn.                                                *)
LEMMA DrawAscending ==
  ASSUME NEW s, Ascending(s), NEW v \in Nat, NEW t,
         t = Insert_sorted(s, Skip_taken(v, s))
  PROVE  /\ Ascending(t) /\ Len(t) = Len(s) + 1
         /\ \A j \in 1..Len(t) :
              t[j] \in v..v + Len(s) \/ \E k \in 1..Len(s) : t[j] = s[k]
<1>1. Len(s) \in Nat
  BY DEF Ascending
<1>2. PICK u \in Nat : u = Skip_taken(v, s) /\ u \in v..v + Len(s)
                       /\ \A j \in 1..Len(s) : s[j] # u
  <2>1. /\ Skip_taken(v, s) \in v..v + Len(s)
        /\ \A j \in 1..Len(s) : s[j] # Skip_taken(v, s)
    BY SkipTakenFree
  <2>2. Skip_taken(v, s) \in Nat
    BY <1>1, <2>1
  <2> QED BY <2>1, <2>2
<1>3. /\ Ascending(Insert_sorted(s, u))
      /\ Len(Insert_sorted(s, u)) = Len(s) + 1
      /\ \A j \in 1..Len(s) + 1 :
           Insert_sorted(s, u)[j] = u \/ \E k \in 1..Len(s) : Insert_sorted(s, u)[j] = s[k]
  BY <1>2, InsertSortedAscending
<1> QED BY <1>2, <1>3

(* The sampled blocks are distinct, in order and blocks of the row.        *)
Sampled(s) == Ascending(s) /\ Len(s) = COUNT /\ \A j \in 1..COUNT : s[j] \in Blocks

(* The constants as the arithmetic needs them.                             *)
LEMMA CoefTypes ==
  ASSUME CoefDeltaAssumption
  PROVE  /\ MCUS \in Nat \ {0} /\ PerMcu \in Nat \ {0} /\ MCUS * PerMcu \in Nat
         /\ COUNT \in Nat \ {0} /\ COUNT <= MCUS * PerMcu
         /\ 2^WE \in Nat \ {0} /\ 2^HE \in Nat \ {0} /\ PerMcu = 2^WE * 2^HE
         /\ 0 \in Blocks /\ Blocks \subseteq Nat
<1>1. MCUS \in Nat \ {0} /\ WE \in Nat /\ HE \in Nat
      /\ COUNT \in 1..MCUS * 2^(WE + HE)
  BY DEF CoefDeltaAssumption
<1>2. 2^WE \in Nat \ {0} /\ 2^HE \in Nat \ {0} /\ 2^(WE + HE) = 2^WE * 2^HE
      /\ 2^(WE + HE) \in Nat \ {0}
  <2>1. WE + HE \in Nat
    BY <1>1
  <2> QED BY <1>1, <2>1, PowerPositive, PowerSum
<1>3. PICK p \in Nat \ {0} : p = PerMcu /\ p = 2^WE * 2^HE /\ COUNT \in 1..MCUS * p
  BY <1>1, <1>2 DEF PerMcu
<1>4. MCUS * p \in Nat /\ MCUS * p >= 1
  BY <1>1
<1> QED BY <1>1, <1>2, <1>3, <1>4 DEF Blocks

(* dq_cache_gen_unique_indices draws distinct blocks of the picture in     *)
(* order, whatever the random numbers are.                                 *)
LEMMA GenIndices ==
  ASSUME CoefDeltaAssumption, NEW d \in Draws
  PROVE  Sampled(Gen_unique_indices(d))
<1> DEFINE T == {s \in Seq(Nat) : Ascending(s)}
           D(a, n) == IF n = 0 THEN <<>>
                      ELSE Insert_sorted(a[n - 1], Skip_taken(d[n], a[n - 1]))
           gen == CHOOSE a : a = [n \in 0..COUNT |-> D(a, n)]
<1>1. Gen_unique_indices(d) = gen[COUNT]
  BY DEF Gen_unique_indices
<1>2. PICK m \in Nat : m = MCUS * PerMcu /\ COUNT \in Nat \ {0} /\ COUNT <= m
  BY CoefTypes
<1>3. \A n \in 1..COUNT : d[n] \in Nat /\ d[n] <= m - n
  BY <1>2, CoefTypes DEF Draws, Blocks
<1>4. <<>> \in T
  BY DEF Ascending
<1>5. \A s \in T, n \in 1..COUNT : Insert_sorted(s, Skip_taken(d[n], s)) \in T
  <2> TAKE s \in T, n \in 1..COUNT
  <2>1. Ascending(Insert_sorted(s, Skip_taken(d[n], s)))
    BY <1>3, DrawAscending
  <2> QED BY <2>1 DEF Ascending
<1>6. \E a : a = [n \in 0..COUNT |-> D(a, n)]
  <2> DEFINE step == [n \in 1..COUNT |-> [s \in T |-> Insert_sorted(s, Skip_taken(d[n], s))]]
  <2> HIDE DEF T
  <2>1. step \in [1..COUNT -> [T -> T]]
    BY <1>5
  <2>2. PICK none : none = <<>> /\ Steps(T, none, COUNT, step)
    BY <1>2, <1>4, <2>1 DEF Steps
  <2>3. PICK f \in [0..COUNT -> T] :
          f[0] = none /\ \A n \in 1..COUNT : f[n] = step[n][f[n - 1]]
    <3> HIDE DEF step
    <3>1. PICK f : Iterates(f, T, none, COUNT, step)
      BY <2>2, Recursion, Zenon
    <3> QED BY <3>1, Zenon DEF Iterates
  <2>4. ASSUME NEW n \in 0..COUNT PROVE f[n] = D(f, n)
    <3>1. CASE n = 0
      BY <2>2, <2>3, <3>1
    <3>2. CASE n # 0
      <4>1. n \in 1..COUNT /\ n - 1 \in 0..COUNT
        BY <1>2, <3>2
      <4>2. f[n - 1] \in T
        BY <4>1
      <4>3. f[n] = step[n][f[n - 1]]
        BY <2>3, <4>1
      <4> QED BY <3>2, <4>1, <4>2, <4>3
    <3> QED BY <3>1, <3>2
  <2>5. f = [n \in 0..COUNT |-> D(f, n)]
    <3> HIDE DEF D
    <3> QED BY <2>4
  <2> QED BY <2>5
<1>7. gen = [n \in 0..COUNT |-> D(gen, n)]
  <2> HIDE DEF D
  <2> QED BY <1>6, Zenon
<1> HIDE DEF gen
<1>8. \A n \in 0..COUNT : gen[n] = D(gen, n)
  <2> HIDE DEF D
  <2> QED BY <1>7
<1> DEFINE Good(n) == /\ Ascending(gen[n]) /\ Len(gen[n]) = n
                      /\ \A j \in 1..n : gen[n][j] \in 0..m - 1
           S == {n \in 0..COUNT : ~ Good(n)}
<1>9. S = {}
  <2> SUFFICES ASSUME S # {} PROVE FALSE
    OBVIOUS
  <2>1. S \in SUBSET Nat
    BY <1>2
  <2>2. PICK n \in S : \A k \in S : n <= k
    BY <2>1, Smallest
  <2>3. n \in 0..COUNT /\ ~Good(n)
    BY <2>2
  <2>4. n # 0
    <3>1. Good(0)
      <4>1. gen[0] = <<>>
        BY <1>2, <1>8
      <4> QED BY <1>4, <4>1
    <3> QED BY <2>3, <3>1
  <2>5. n \in 1..COUNT /\ n - 1 \in 0..COUNT /\ ~(n <= n - 1)
    BY <1>2, <2>3, <2>4
  <2>6. Good(n - 1)
    <3> HIDE DEF Good
    <3> QED BY <2>2, <2>5
  <2>7. PICK s : s = gen[n - 1]
    OBVIOUS
  <2>8. Ascending(s) /\ Len(s) = n - 1 /\ \A j \in 1..n - 1 : s[j] \in 0..m - 1
    BY <2>6, <2>7
  <2>9. gen[n] = Insert_sorted(s, Skip_taken(d[n], s))
    BY <1>8, <2>4, <2>5, <2>7
  <2>10. d[n] \in Nat /\ d[n] <= m - n
    BY <1>3, <2>5
  <2>11. /\ Ascending(gen[n]) /\ Len(gen[n]) = Len(s) + 1
         /\ \A j \in 1..Len(gen[n]) :
              gen[n][j] \in d[n]..d[n] + Len(s) \/ \E k \in 1..Len(s) : gen[n][j] = s[k]
    <3>1. PICK v \in Nat : v = d[n]
      BY <2>10
    <3>2. PICK t : t = Insert_sorted(s, Skip_taken(v, s))
      OBVIOUS
    <3>3. /\ Ascending(t) /\ Len(t) = Len(s) + 1
          /\ \A j \in 1..Len(t) :
               t[j] \in v..v + Len(s) \/ \E k \in 1..Len(s) : t[j] = s[k]
      BY <2>8, <3>2, DrawAscending
    <3>4. gen[n] = t
      BY <2>9, <3>1, <3>2
    <3> QED BY <3>1, <3>3, <3>4
  <2>12. Len(gen[n]) = n
    BY <2>5, <2>8, <2>11
  <2>13. ASSUME NEW j \in 1..n PROVE gen[n][j] \in 0..m - 1
    <3>1. CASE gen[n][j] \in d[n]..d[n] + (n - 1)
      BY <1>2, <2>5, <2>10, <3>1
    <3>2. CASE \E k \in 1..n - 1 : gen[n][j] = s[k]
      BY <2>8, <3>2
    <3> QED BY <2>8, <2>11, <2>12, <3>1, <3>2
  <2> QED BY <2>3, <2>11, <2>12, <2>13
<1>10. Good(COUNT)
  <2>1. COUNT \in 0..COUNT
    BY <1>2
  <2> HIDE DEF Good
  <2> QED BY <1>9, <2>1
<1> QED BY <1>1, <1>2, <1>10 DEF Sampled, Blocks

(* The place of a block in the row determines it, and the blocks are       *)
(* compressed in the order of their numbers.                               *)
LEMMA ScanIsPosition ==
  ASSUME CoefDeltaAssumption, NEW k \in Nat
  PROVE  Scan(k + 1) = Position(k)
<1>1. (k + 1) - 1 = k
  OBVIOUS
<1>2. PICK p \in Nat \ {0}, w \in Nat \ {0} : p = PerMcu /\ w = 2^WE
  BY CoefTypes
<1>3. PICK q \in Int, r \in 0..p - 1 : q = k \div p /\ r = k % p /\ k = p * q + r
  <2>1. k \in Int
    OBVIOUS
  <2> QED BY <2>1, QuotRem, Zenon
<1>4. PICK y \in Int, x \in 0..w - 1 : y = r \div w /\ x = r % w /\ r = w * y + x
  <2>1. r \in Int
    OBVIOUS
  <2> QED BY <2>1, QuotRem, Zenon
<1>5. q * w + (r % w) = (r % w) + q * w
  BY <1>4
<1> QED BY <1>1, <1>2, <1>3, <1>5 DEF Scan, Position

(* No two blocks are encoded at the same position.                         *)
LEMMA PositionInjective ==
  ASSUME CoefDeltaAssumption, NEW a \in Nat, NEW b \in Nat, Position(a) = Position(b)
  PROVE  a = b
<1>1. PICK p \in Nat \ {0}, w \in Nat \ {0}, h \in Nat \ {0} :
        p = PerMcu /\ w = 2^WE /\ h = 2^HE /\ p = w * h
  BY CoefTypes
<1>2. PICK qa \in Int, ra \in 0..p - 1 : qa = a \div p /\ ra = a % p /\ a = p * qa + ra
  <2>1. a \in Int
    OBVIOUS
  <2> QED BY <2>1, QuotRem, Zenon
<1>3. PICK qb \in Int, rb \in 0..p - 1 : qb = b \div p /\ rb = b % p /\ b = p * qb + rb
  <2>1. b \in Int
    OBVIOUS
  <2> QED BY <2>1, QuotRem, Zenon
<1>4. PICK ya \in Int, xa \in 0..w - 1 : ya = ra \div w /\ xa = ra % w /\ ra = w * ya + xa
  <2>1. ra \in Int
    OBVIOUS
  <2> QED BY <2>1, QuotRem, Zenon
<1>5. PICK yb \in Int, xb \in 0..w - 1 : yb = rb \div w /\ xb = rb % w /\ rb = w * yb + xb
  <2>1. rb \in Int
    OBVIOUS
  <2> QED BY <2>1, QuotRem, Zenon
<1>6. xa + qa * w = xb + qb * w /\ ya = yb
  <2>1. /\ Position(a) = [x |-> xa + qa * w, y |-> ya]
        /\ Position(b) = [x |-> xb + qb * w, y |-> yb]
    <3>1. /\ Position(a) = [x |-> ((a % p) % w) + (a \div p) * w, y |-> (a % p) \div w]
          /\ Position(b) = [x |-> ((b % p) % w) + (b \div p) * w, y |-> (b % p) \div w]
      BY <1>1, Zenon DEF Position
    <3>2. Position(a) = [x |-> (ra % w) + qa * w, y |-> ra \div w]
      BY <1>2, <3>1
    <3>3. Position(b) = [x |-> (rb % w) + qb * w, y |-> rb \div w]
      BY <1>3, <3>1
    <3> QED BY <1>4, <1>5, <3>2, <3>3
  <2>2. [x |-> xa + qa * w, y |-> ya] = [x |-> xb + qb * w, y |-> yb]
    BY <2>1
  <2>3. \A k, l, m, n : [x |-> k, y |-> l] = [x |-> m, y |-> n] => k = m /\ l = n
    OBVIOUS
  <2> QED BY <2>2, <2>3
<1>7. PICK n \in Int : n = xa + qa * w
  OBVIOUS
<1>8. n = w * qa + xa /\ n = w * qb + xb
  BY <1>6, <1>7
<1>9. n \div w = qa /\ n % w = xa
  BY <1>8, IntDivUnique, Zenon
<1>10. n \div w = qb /\ n % w = xb
  BY <1>8, IntDivUnique, Zenon
<1> QED BY <1>2, <1>3, <1>4, <1>5, <1>6, <1>9, <1>10

-----------------------------------------------------------------------------
(***************************************************************************)
(* CoefDelta: the cursor into the sampled blocks.                          *)
(***************************************************************************)

(* Entry c is the first one for a block not before n.                      *)
IsPlace(c, n) ==
  /\ c \in 1..COUNT + 1
  /\ \A j \in 1..COUNT : IF j < c THEN indices[j] < n ELSE indices[j] >= n

(* At its place the cursor finds the block that comes next if it was       *)
(* sampled, and nothing else.                                              *)
LEMMA HitsAtPlace ==
  ASSUME CoefDeltaAssumption, Sampled(indices), NEW n \in Nat, NEW c, IsPlace(c, n)
  PROVE  Hits(c, Scan(n + 1)) = IF c <= COUNT /\ indices[c] = n THEN {c} ELSE {}
<1>1. COUNT \in Nat \ {0} /\ c \in 1..COUNT + 1
  BY CoefTypes DEF IsPlace
<1>2. /\ \A j \in 1..COUNT : indices[j] \in Nat
      /\ \A j, k \in 1..COUNT : j < k => indices[j] < indices[k]
  BY DEF Sampled, Ascending
<1>3. Scan(n + 1) = Position(n)
  BY ScanIsPosition
<1>4. ASSUME NEW j \in Hits(c, Scan(n + 1))
      PROVE  j = c /\ c <= COUNT /\ indices[c] = n
  <2>1. j \in c..COUNT /\ Position(indices[j]) = Position(n)
    BY <1>3 DEF Hits
  <2>2. j \in 1..COUNT
    BY <1>1, <2>1
  <2>3. indices[j] = n
    BY <1>2, <2>1, <2>2, PositionInjective
  <2>4. CASE c < j
    <3>1. c \in 1..COUNT
      BY <1>1, <2>1
    <3>2. indices[c] >= n
      BY <1>1, <3>1 DEF IsPlace
    <3> QED BY <1>2, <2>2, <2>3, <2>4, <3>1, <3>2
  <2> QED BY <1>1, <2>1, <2>3, <2>4
<1>5. ASSUME c <= COUNT, indices[c] = n
      PROVE  c \in Hits(c, Scan(n + 1))
  <2>1. c \in c..COUNT /\ \A e \in c..c : e = c
    BY <1>1, <1>5
  <2>2. PICK x \in Int, y \in Int : Position(n).x = x /\ Position(n).y = y
    <3>1. PICK p \in Nat \ {0}, w \in Nat \ {0} : p = PerMcu /\ w = 2^WE
      BY CoefTypes
    <3>2. n \in Int
      OBVIOUS
    <3>3. PICK q \in Int, r \in 0..p - 1 : q = n \div p /\ r = n % p /\ n = p * q + r
      BY <3>2, QuotRem, Zenon
    <3>4. r \in Int
      OBVIOUS
    <3>5. PICK y \in Int, x \in 0..w - 1 : y = r \div w /\ x = r % w /\ r = w * y + x
      BY <3>4, QuotRem, Zenon
    <3>6. Position(n) = [x |-> ((n % p) % w) + (n \div p) * w, y |-> (n % p) \div w]
      BY <3>1, Zenon DEF Position
    <3>7. Position(n) = [x |-> x + q * w, y |-> y]
      BY <3>3, <3>5, <3>6
    <3>8. x + q * w \in Int
      OBVIOUS
    <3> QED BY <3>7, <3>8
  <2>3. ~Stops(c, Position(n))
    BY <1>5, <2>2 DEF Stops
  <2> QED BY <1>3, <1>5, <2>1, <2>3 DEF Hits
<1>6. CASE c <= COUNT /\ indices[c] = n
  BY <1>4, <1>5, <1>6
<1>7. CASE ~(c <= COUNT /\ indices[c] = n)
  BY <1>4, <1>7
<1> QED BY <1>6, <1>7

(* Past the block that comes next the cursor is at its next place.         *)
LEMMA AdvancePlace ==
  ASSUME CoefDeltaAssumption, Sampled(indices), NEW n \in Nat, NEW c, IsPlace(c, n)
  PROVE  IsPlace(Advance(c, Scan(n + 1)), n + 1)
<1>1. COUNT \in Nat \ {0} /\ c \in 1..COUNT + 1
  BY CoefTypes DEF IsPlace
<1>2. /\ \A j \in 1..COUNT : indices[j] \in Nat
      /\ \A j, k \in 1..COUNT : j < k => indices[j] < indices[k]
  BY DEF Sampled, Ascending
<1>3. Hits(c, Scan(n + 1)) = IF c <= COUNT /\ indices[c] = n THEN {c} ELSE {}
  BY HitsAtPlace
<1>4. \A j \in 1..COUNT : IF j < c THEN indices[j] < n ELSE indices[j] >= n
  BY DEF IsPlace
<1>5. CASE c <= COUNT /\ indices[c] = n
  <2>1. Min({c}) = c
    BY DEF Min
  <2>2. Advance(c, Scan(n + 1)) = c + 1
    BY <1>3, <1>5, <2>1 DEF Advance
  <2>3. c + 1 \in 1..COUNT + 1 /\ c \in 1..COUNT
    BY <1>1, <1>5
  <2>4. ASSUME NEW j \in 1..COUNT
        PROVE  IF j < c + 1 THEN indices[j] < n + 1 ELSE indices[j] >= n + 1
    <3>1. CASE j < c
      BY <1>1, <1>2, <1>4, <3>1
    <3>2. CASE j = c
      BY <1>1, <1>2, <1>5, <3>2
    <3>3. CASE j > c
      BY <1>1, <1>2, <1>5, <2>3, <3>3
    <3> QED BY <1>1, <3>1, <3>2, <3>3
  <2> QED BY <2>2, <2>3, <2>4 DEF IsPlace
<1>6. CASE ~(c <= COUNT /\ indices[c] = n)
  <2>1. Advance(c, Scan(n + 1)) = c
    BY <1>3, <1>6 DEF Advance
  <2>2. ASSUME NEW j \in 1..COUNT
        PROVE  IF j < c THEN indices[j] < n + 1 ELSE indices[j] >= n + 1
    <3>1. CASE j < c
      BY <1>1, <1>2, <1>4, <3>1
    <3>2. CASE j = c
      BY <1>1, <1>2, <1>4, <1>6, <3>2
    <3>3. CASE j > c
      <4>1. c \in 1..COUNT
        BY <1>1, <3>3
      <4> QED BY <1>1, <1>2, <1>4, <3>3, <4>1
    <3> QED BY <1>1, <3>1, <3>2, <3>3
  <2> QED BY <1>1, <2>1, <2>2 DEF IsPlace
<1> QED BY <1>5, <1>6

(* The search for a block starts at the first entry not before it.         *)
LEMMA CursorPlace ==
  ASSUME CoefDeltaAssumption, Sampled(indices), NEW b \in Nat
  PROVE  IsPlace(Cursor(b + 1), b)
<1> DEFINE D(a, n) == IF n = 0 THEN 1 ELSE Advance(a[n - 1], Scan(n))
           cur == CHOOSE a : a = [n \in 0..b |-> D(a, n)]
<1>0. (b + 1) - 1 = b
  OBVIOUS
<1>1. Cursor(b + 1) = cur[b]
  <2>1. Cursor(b + 1) = (CHOOSE a : a = [n \in 0..(b + 1) - 1 |-> D(a, n)])[(b + 1) - 1]
    BY DEF Cursor
  <2> HIDE DEF D
  <2> QED BY <1>0, <2>1
<1>2. COUNT \in Nat \ {0}
  BY CoefTypes
<1>3. ASSUME NEW x \in Nat, NEW pos PROVE Advance(x, pos) \in Nat
  <2>1. Hits(x, pos) \in SUBSET Nat
    BY <1>2 DEF Hits
  <2>2. CASE Hits(x, pos) = {}
    BY <2>2 DEF Advance
  <2>3. CASE Hits(x, pos) # {}
    <3>1. \E l \in Hits(x, pos) : \A k \in Hits(x, pos) : l <= k
      BY <2>1, <2>3, Smallest
    <3>2. Min(Hits(x, pos)) \in Hits(x, pos)
      BY <3>1, Zenon DEF Min
    <3>3. Min(Hits(x, pos)) \in Nat
      BY <2>1, <3>2
    <3> QED BY <2>3, <3>3 DEF Advance
  <2> QED BY <2>2, <2>3
<1>4. \E a : a = [n \in 0..b |-> D(a, n)]
  <2> DEFINE step == [m \in 1..b |-> [x \in Nat |-> Advance(x, Scan(m))]]
  <2>1. step \in [1..b -> [Nat -> Nat]]
    BY <1>3
  <2>2. PICK one : one = 1 /\ Steps(Nat, one, b, step)
    BY <2>1 DEF Steps
  <2>3. PICK f : Iterates(f, Nat, one, b, step)
    <3> HIDE DEF step
    <3> QED BY <2>2, Recursion, Zenon
  <2>4. f \in [0..b -> Nat] /\ f[0] = 1 /\ \A m \in 1..b : f[m] = step[m][f[m - 1]]
    <3> HIDE DEF step
    <3> QED BY <2>2, <2>3 DEF Iterates
  <2>5. ASSUME NEW n \in 0..b PROVE f[n] = D(f, n)
    <3>1. CASE n = 0
      BY <2>4, <3>1
    <3>2. CASE n # 0
      <4>1. n \in 1..b /\ n - 1 \in 0..b
        BY <3>2
      <4>2. f[n - 1] \in Nat
        BY <2>4, <4>1
      <4>3. f[n] = step[n][f[n - 1]]
        BY <2>4, <4>1
      <4> QED BY <3>2, <4>1, <4>2, <4>3
    <3> QED BY <3>1, <3>2
  <2>6. f = [n \in 0..b |-> D(f, n)]
    <3> HIDE DEF D
    <3> QED BY <2>4, <2>5
  <2> QED BY <2>6
<1>5. cur = [n \in 0..b |-> D(cur, n)]
  <2> HIDE DEF D
  <2> QED BY <1>4, Zenon
<1> HIDE DEF cur
<1>6. \A n \in 0..b : cur[n] = D(cur, n)
  <2> HIDE DEF D
  <2> QED BY <1>5
<1> DEFINE S == {n \in 0..b : ~IsPlace(cur[n], n)}
<1>7. S = {}
  <2> SUFFICES ASSUME S # {} PROVE FALSE
    OBVIOUS
  <2>1. S \in SUBSET Nat
    OBVIOUS
  <2>2. PICK n \in S : \A k \in S : n <= k
    BY <2>1, Smallest
  <2>3. n \in 0..b /\ ~IsPlace(cur[n], n)
    BY <2>2
  <2>4. n # 0
    <3>1. cur[0] = 1
      BY <1>6
    <3>2. IsPlace(1, 0)
      BY <1>2 DEF IsPlace, Sampled, Ascending
    <3> QED BY <2>3, <3>1, <3>2
  <2>5. n \in 1..b /\ n - 1 \in 0..b /\ ~(n <= n - 1)
    BY <2>3, <2>4
  <2>6. PICK m \in Nat : m = n - 1 /\ m + 1 = n
    BY <2>5
  <2>7. IsPlace(cur[m], m)
    BY <2>2, <2>5, <2>6
  <2>8. cur[n] = Advance(cur[m], Scan(m + 1))
    BY <1>6, <2>4, <2>5, <2>6
  <2>9. IsPlace(Advance(cur[m], Scan(m + 1)), m + 1)
    BY <2>7, AdvancePlace
  <2> QED BY <2>3, <2>6, <2>8, <2>9
<1>8. b \in 0..b
  OBVIOUS
<1> QED BY <1>1, <1>7, <1>8

(* A block is found in the cache exactly if it was sampled.                *)
LEMMA CacheHitIffSampled ==
  ASSUME CoefDeltaAssumption, Sampled(indices), blk \in Blocks
  PROVE  Cache_hit <=> \E j \in 1..COUNT : indices[j] = blk
<1>1. blk \in Nat /\ COUNT \in Nat
  BY CoefTypes
<1>2. PICK c : c = Cursor(blk + 1) /\ IsPlace(c, blk)
  BY <1>1, CursorPlace
<1>3. Hits(c, Scan(blk + 1)) = IF c <= COUNT /\ indices[c] = blk THEN {c} ELSE {}
  BY <1>1, <1>2, HitsAtPlace
<1>4. Cache_hit <=> c <= COUNT /\ indices[c] = blk
  BY <1>2, <1>3 DEF Cache_hit
<1>5. c \in 1..COUNT + 1
  BY <1>2 DEF IsPlace
<1>6. ASSUME NEW j \in 1..COUNT, indices[j] = blk PROVE j = c
  <2>1. ~(j < c)
    BY <1>1, <1>2, <1>6 DEF IsPlace
  <2>2. CASE c < j
    <3>1. c \in 1..COUNT
      BY <1>1, <1>5, <2>2
    <3>2. indices[c] >= blk
      BY <1>2, <1>5, <3>1 DEF IsPlace
    <3>3. indices[c] < indices[j] /\ indices[c] \in Nat
      BY <2>2, <3>1 DEF Sampled, Ascending
    <3> QED BY <1>1, <1>6, <3>2, <3>3
  <2> QED BY <1>1, <1>5, <2>1, <2>2
<1> QED BY <1>1, <1>4, <1>5, <1>6

-----------------------------------------------------------------------------
(***************************************************************************)
(* CoefDelta: the receiver and the encoder agree.                          *)
(***************************************************************************)

(* The block looked at is one of the sampled ones.                         *)
IsSampled == \E j \in 1..COUNT : indices[j] = blk

(* Types of the coefficients and the levels.                               *)
CoefType ==
  /\ log2 \in Nat /\ blk \in Blocks
  /\ stage \in {"off", "row", "computed"}
  /\ delta_q \in Levels /\ prev_q \in Levels
  /\ prev \in Int /\ copy \in Int /\ next \in Int /\ held \in Int /\ coef \in Int

(* Between sampling and compression the receiver still has the old         *)
(* coefficient; a sampled one has been scaled up at the encoder.           *)
ComputedInv ==
  stage = "computed" =>
    /\ Sampled(indices)
    /\ IF IsSampled THEN prev = copy * 2^Delta_q0(prev_q) /\ held = next - prev
       ELSE prev = copy

(* What a delta coded stream keeps.                                        *)
CoefInv == CoefType /\ ReceiverAgrees /\ ComputedInv

(* The rescaled coefficient is an integer.                                 *)
LEMMA RescaleType ==
  ASSUME CoefDeltaAssumption, log2 \in Nat, NEW p \in Levels, NEW q \in Levels,
         NEW c \in Int
  PROVE  Rescale_prev(c, p, q) \in Int
<1>1. /\ p \in Int /\ q \in Int
      /\ p <= q => Delta_q_tbl(p) - Delta_q_tbl(q) \in Nat
      /\ q <= p => Delta_q_tbl(q) - Delta_q_tbl(p) \in Nat
  BY Shifts
<1>2. CASE q > p
  <2>1. p <= q /\ ~(q < p)
    BY <1>1, <1>2
  <2>2. PICK n \in Nat : n = Delta_q_tbl(p) - Delta_q_tbl(q)
    BY <1>1, <2>1
  <2>3. Rescale_prev(c, p, q) = c * 2^n
    BY <1>2, <2>1, <2>2 DEF Rescale_prev
  <2>4. PICK w \in Nat : w = 2^n
    BY PowerPositive
  <2> QED BY <2>3, <2>4
<1>3. CASE q < p
  <2>1. q <= p /\ ~(q > p)
    BY <1>1, <1>3
  <2>2. PICK n \in Nat : n = Delta_q_tbl(q) - Delta_q_tbl(p)
    BY <1>1, <2>1
  <2>3. Rescale_prev(c, p, q) = Shr(c, n) + Off(c, n)
    BY <1>3, <2>1, <2>2 DEF Rescale_prev
  <2>4. Quantize(c, n) = Shr(c, n) + Off(c, n) /\ Quantize(c, n) \in Int
    BY QuantizeIsShr
  <2> QED BY <2>3, <2>4
<1>4. CASE ~(q > p) /\ ~(q < p)
  BY <1>4 DEF Rescale_prev
<1> QED BY <1>2, <1>3, <1>4

(* Both sides begin with the same coefficient.                             *)
LEMMA CoefInitInv ==
  ASSUME CoefDeltaAssumption, CoefInit \/ CoefOff
  PROVE  CoefInv
<1>1. /\ log2 \in Nat /\ blk \in Blocks
      /\ stage \in {"off", "row"}
      /\ delta_q = Full /\ prev_q = Full
      /\ prev = 0 /\ copy = 0 /\ next = 0 /\ held = 0 /\ coef = 0
  BY CoefTypes DEF CoefInit, CoefOff, CoefDeltaAssumption
<1>2. Full \in Levels
  BY DEF Full, Levels, CoefDeltaAssumption
<1>3. Delta_q0(Full) = 0
  BY <1>1, <1>2, Shifts
<1>4. Quantize(0, 0) = 0
  BY DEF Quantize
<1>5. ReceiverAgrees
  BY <1>1, <1>3, <1>4 DEF ReceiverAgrees
<1> QED BY <1>1, <1>2, <1>5 DEF CoefInv, CoefType, ComputedInv

(* Sampling and the choice of the level, compute_dq.                       *)
LEMMA ComputeInv ==
  ASSUME CoefDeltaAssumption, CoefInv, Compute_dq
  PROVE  CoefInv'
<1>1. /\ log2 \in Nat /\ blk \in Blocks
      /\ delta_q \in Levels
      /\ prev \in Int /\ copy \in Int /\ coef \in Int
      /\ stage = "row" /\ copy = prev
  BY DEF CoefInv, CoefType, ReceiverAgrees, Compute_dq
<1>2. /\ stage' = "computed" /\ log2' = log2 /\ blk' = blk /\ copy' = copy
      /\ prev_q' = delta_q
  BY DEF Compute_dq
<1>3. PICK d \in Draws, q \in Levels : indices' = Gen_unique_indices(d) /\ delta_q' = q
  BY DEF Compute_dq
<1>4. Sampled(indices')
  BY <1>3, GenIndices
<1>5. (Delta_q0(prev_q))' = Delta_q0(delta_q)
  BY <1>2 DEF Delta_q0, Delta_q_tbl
<1>6. PICK n \in Nat, w \in Nat : n = Delta_q0(delta_q) /\ w = 2^n
  <2>1. Delta_q0(delta_q) \in Nat
    BY <1>1, Shifts
  <2> QED BY <2>1, PowerPositive
<1>7. (Blocks' = Blocks /\ Levels' = Levels) /\ (Sampled(indices))'
  BY <1>4 DEF Sampled, Ascending, Blocks, PerMcu, Levels
<1>8. CASE \E j \in 1..COUNT : indices'[j] = blk
  <2>1. PICK c \in Coefs :
          /\ prev' = IF delta_q = Full THEN prev ELSE prev * 2^Delta_q0(delta_q)
          /\ coef' = c /\ next' = c /\ held' = c - prev'
    BY <1>8 DEF Compute_dq
  <2>2. c \in Int
    BY DEF Coefs, CoefDeltaAssumption
  <2>3. prev' = copy * w
    <3>1. CASE delta_q = Full
      <4>1. n = 0
        BY <1>1, <1>6, <3>1, Shifts
      <4>2. 2^0 = 1
        OBVIOUS
      <4>3. w = 1
        BY <1>6, <4>1, <4>2
      <4> QED BY <1>1, <2>1, <3>1, <4>3
    <3>2. CASE delta_q # Full
      BY <1>1, <1>6, <2>1, <3>2
    <3> QED BY <3>1, <3>2
  <2>4. prev' \in Int
    BY <1>1, <2>3
  <2>5. prev' = copy' * 2^(Delta_q0(prev_q)') /\ held' = next' - prev'
    BY <1>2, <1>5, <1>6, <2>1, <2>3
  <2>6. IsSampled'
    BY <1>2, <1>8 DEF IsSampled
  <2>7. ComputedInv'
    BY <1>7, <2>5, <2>6 DEF ComputedInv
  <2>8. CoefType'
    BY <1>1, <1>2, <1>3, <1>7, <2>1, <2>2, <2>4 DEF CoefType
  <2>9. ReceiverAgrees'
    BY <1>2 DEF ReceiverAgrees
  <2> QED BY <2>7, <2>8, <2>9 DEF CoefInv
<1>9. CASE ~ \E j \in 1..COUNT : indices'[j] = blk
  <2>1. next' = 0 /\ held' = 0 /\ prev' = prev /\ coef' = coef
    BY <1>9 DEF Compute_dq
  <2>2. ~IsSampled'
    BY <1>2, <1>9 DEF IsSampled
  <2>3. ComputedInv'
    BY <1>1, <1>2, <1>7, <2>1, <2>2 DEF ComputedInv
  <2>4. CoefType'
    BY <1>1, <1>2, <1>3, <1>7, <2>1 DEF CoefType
  <2>5. ReceiverAgrees'
    BY <1>2 DEF ReceiverAgrees
  <2> QED BY <2>3, <2>4, <2>5 DEF CoefInv
<1> QED BY <1>8, <1>9

(* Compressing the block, from the cache of the sampling or anew.          *)
LEMMA CompressInv ==
  ASSUME CoefDeltaAssumption, CoefInv, Compress
  PROVE  CoefInv'
<1>1. /\ log2 \in Nat /\ blk \in Blocks
      /\ delta_q \in Levels /\ prev_q \in Levels
      /\ prev \in Int /\ copy \in Int /\ next \in Int /\ held \in Int
      /\ stage = "computed" /\ Sampled(indices)
      /\ IF IsSampled THEN prev = copy * 2^Delta_q0(prev_q) /\ held = next - prev
         ELSE prev = copy
  BY DEF CoefInv, CoefType, ComputedInv, Compress
<1>2. /\ stage' = "row" /\ prev_q' = delta_q /\ next' = 0 /\ held' = 0
      /\ log2' = log2 /\ blk' = blk /\ delta_q' = delta_q
  BY DEF Compress
<1>3. PICK c \in IF Cache_hit THEN {next} ELSE Coefs :
        /\ coef' = c
        /\ prev' = (IF Cache_hit THEN Cached(delta_q, prev_q)
                    ELSE Quantized(c, delta_q, prev_q)).prev
        /\ copy' = Rescale_prev(copy, prev_q, delta_q)
                   + (IF Cache_hit THEN Cached(delta_q, prev_q)
                      ELSE Quantized(c, delta_q, prev_q)).output
  BY DEF Compress
<1>4. Cache_hit <=> IsSampled
  BY <1>1, CacheHitIffSampled DEF IsSampled
<1>5. (Delta_q0(delta_q))' = Delta_q0(delta_q) /\ Blocks' = Blocks /\ Levels' = Levels
  BY <1>2 DEF Delta_q0, Delta_q_tbl, Blocks, PerMcu, Levels
<1>6. PICK n \in Nat : n = Delta_q0(delta_q)
  BY <1>1, Shifts
<1>7. prev' = Quantize(c, n) /\ copy' = prev' /\ c \in Int /\ prev' \in Int
  <2>1. CASE Cache_hit
    <3>1. c = next /\ prev' = Cached(delta_q, prev_q).prev
          /\ copy' = Rescale_prev(copy, prev_q, delta_q) + Cached(delta_q, prev_q).output
      BY <1>3, <2>1
    <3>2. prev = copy * 2^Delta_q0(prev_q) /\ held = next - prev
      BY <1>1, <1>4, <2>1
    <3>3. /\ Cached(delta_q, prev_q).prev = Quantize(next, Delta_q0(delta_q))
          /\ Rescale_prev(copy, prev_q, delta_q) + Cached(delta_q, prev_q).output
               = Cached(delta_q, prev_q).prev
          /\ Cached(delta_q, prev_q).prev \in Int
      BY <1>1, <3>2, CachedAgrees
    <3> QED BY <1>1, <1>6, <3>1, <3>3
  <2>2. CASE ~Cache_hit
    <3>1. c \in Int
      BY <1>3, <2>2 DEF Coefs, CoefDeltaAssumption
    <3>2. /\ prev' = Quantized(c, delta_q, prev_q).prev
          /\ copy' = Rescale_prev(copy, prev_q, delta_q)
                     + Quantized(c, delta_q, prev_q).output
      BY <1>3, <2>2
    <3>3. prev = copy
      BY <1>1, <1>4, <2>2
    <3>4. PICK v \in Int : v = Quantize(c, n)
      BY <3>1, QuantizeIsShr
    <3>5. PICK r \in Int : r = Rescale_prev(copy, prev_q, delta_q)
      BY <1>1, RescaleType
    <3>6. prev' = v /\ copy' = r + (v - r)
      BY <1>6, <3>2, <3>3, <3>4, <3>5 DEF Quantized
    <3> QED BY <3>1, <3>4, <3>6
  <2> QED BY <2>1, <2>2
<1>8. ReceiverAgrees'
  BY <1>3, <1>5, <1>6, <1>7 DEF ReceiverAgrees
<1>9. CoefType'
  BY <1>1, <1>2, <1>3, <1>5, <1>7 DEF CoefType
<1> QED BY <1>2, <1>8, <1>9 DEF CoefInv, ComputedInv

(* Steps that leave the coefficients alone.                                *)
LEMMA CoefStutter ==
  ASSUME CoefInv, UNCHANGED coefVars
  PROVE  CoefInv'
<1>1. /\ log2' = log2 /\ blk' = blk /\ stage' = stage /\ delta_q' = delta_q
      /\ prev_q' = prev_q /\ prev' = prev /\ indices' = indices /\ held' = held
      /\ next' = next /\ coef' = coef /\ copy' = copy
  BY DEF coefVars
<1>2. CoefType' = CoefType
  BY <1>1 DEF CoefType, Blocks, PerMcu, Levels
<1>3. ReceiverAgrees' = ReceiverAgrees
  BY <1>1 DEF ReceiverAgrees, Delta_q0, Delta_q_tbl
<1>4. (Delta_q0(prev_q))' = Delta_q0(prev_q) /\ (Sampled(indices))' = Sampled(indices)
      /\ IsSampled' = IsSampled
  BY <1>1 DEF Delta_q0, Delta_q_tbl, Sampled, Ascending, Blocks, PerMcu, IsSampled
<1>5. ComputedInv' = ComputedInv
  BY <1>1, <1>4 DEF ComputedInv
<1> QED BY <1>2, <1>3, <1>5 DEF CoefInv

(* The invariant of the delta coded coefficients.                          *)
LEMMA CoefInvHolds == Spec => []CoefInv
<1> USE CoefDeltaAssumption
<1>1. Init => CoefInv
  BY CoefInitInv DEF Init
<1>2. CoefInv /\ [Next]_vars => CoefInv'
  <2> SUFFICES ASSUME CoefInv, [Next]_vars PROVE CoefInv'
    OBVIOUS
  <2>1. CASE UNCHANGED coefVars
    BY <2>1, CoefStutter
  <2>2. CASE Compute_dq
    BY <2>2, ComputeInv
  <2>3. CASE Compress
    BY <2>3, CompressInv
  <2>4. CASE UNCHANGED vars
    <3>1. UNCHANGED coefVars
      BY <2>4 DEF vars
    <3> QED BY <3>1, CoefStutter
  <2> QED BY <2>1, <2>2, <2>3, <2>4 DEF Next, CoefNext
<1> QED BY <1>1, <1>2, PTL DEF Spec

(* Between two frames the receiver's coefficient is the one the encoder    *)
(* compares the next frame with, and both are the picture's at the level in*)
(* force, for every coefficient, table of levels, order of the blocks and  *)
(* sample.                                                                 *)
THEOREM ReceiverAgreesHolds == Spec => []ReceiverAgrees
<1>1. CoefInv => ReceiverAgrees
  BY DEF CoefInv
<1> QED BY <1>1, CoefInvHolds, PTL
=============================================================================
