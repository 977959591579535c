---------------------------- MODULE DeltaQProofs ----------------------------
(***************************************************************************)
(* The delta-coded stream, for every number of work threads, works, rows   *)
(* and levels.  Works are known by an index that wraps; the argument is    *)
(* about FRAMES: setting a work up begins frame F, whose work is F modulo  *)
(* WORK_COUNT.  The invariant says that there are a number F of frames     *)
(* begun and a frame n[t] that thread t is in, or waits for, that fit the  *)
(* state.  Frames start at WORK_COUNT: the works begin as if used once.    *)
(***************************************************************************)
EXTENDS DeltaQ, FiniteSetTheorems, NumberTheorems, TLAPS

-----------------------------------------------------------------------------
(***************************************************************************)
(* The split of the rows.                                                  *)
(***************************************************************************)

(* Ceil rounds up.                                                         *)
LEMMA CeilBounds ==
  ASSUME NEW a \in Nat, NEW b \in Nat \ {0}
  PROVE  /\ Ceil(a, b) \in Nat
         /\ a <= b * Ceil(a, b)
         /\ b * Ceil(a, b) < a + b
<1>1. PICK m \in Nat : m = a + b - 1
  OBVIOUS
<1>2. m = b * (m \div b) + (m % b) /\ m % b \in 0 .. b - 1 /\ m \div b \in Nat
  BY DivMod
<1>3. PICK d \in Nat : d = m \div b
  BY <1>2
<1>4. PICK p \in Nat : p = b * d
  BY <1>3
<1>5. Ceil(a, b) = d
  BY <1>1, <1>3 DEF Ceil
<1>6. m = p + (m % b) /\ m % b \in Nat /\ m % b < b
  BY <1>2, <1>3, <1>4
<1>7. a <= p /\ p < a + b
  BY <1>1, <1>6
<1> QED BY <1>3, <1>4, <1>5, <1>7

(* A product is monotone.                                                  *)
LEMMA TimesMonotone ==
  ASSUME NEW a \in Nat, NEW b \in Nat, NEW c \in Nat, a <= b
  PROVE  a * c <= b * c
<1>1. PICK d \in Nat : b = a + d
  BY SMT
<1>2. b * c = a * c + d * c /\ d * c \in Nat /\ a * c \in Nat
  BY <1>1
<1> QED BY <1>2

(* Dividing by at most what a product was made with gives at least the     *)
(* other factor, and a strictly smaller product a strictly smaller factor. *)
LEMMA TimesStrict ==
  ASSUME NEW a \in Nat, NEW b \in Nat, NEW c \in Nat, a * c < b * c
  PROVE  a < b
<1>1. SUFFICES ASSUME b <= a PROVE FALSE
  OBVIOUS
<1>2. b * c <= a * c
  BY <1>1, TimesMonotone
<1>3. a * c \in Nat /\ b * c \in Nat
  OBVIOUS
<1> QED BY <1>2, <1>3

(* A split gives every thread but the last at least one row and covers the *)
(* screen.                                                                 *)
Splits(i) ==
  /\ i.rows \in Nat /\ i.last \in Nat
  /\ i.rows >= 1
  /\ i.rows * (CORE_COUNT - 1) + i.last = Mcu_rows(i.s)

LEMMA EvenSplit ==
  ASSUME NEW s \in Screen
  PROVE  LET n == Mcu_rows(s) IN
         /\ n \in Nat /\ n >= 1
         /\ Even_rows(n) \in Nat /\ Even_rows(n) >= 1
         /\ Even_rows_last(n) \in Nat
         /\ Even_rows(n) * (CORE_COUNT - 1) \in Nat
         /\ Even_rows(n) * (CORE_COUNT - 1) + Even_rows_last(n) = n
<1>1. PICK n \in Nat : n = Mcu_rows(s) /\ n >= 1
  BY DeltaQAssumption DEF Mcu_rows
<1>2. PICK c \in Nat \ {0} : c = CORE_COUNT
  BY DeltaQAssumption
<1>3. Ceil(n, c) \in Nat /\ n <= c * Ceil(n, c)
  BY CeilBounds
<1>4. PICK r \in Nat : r = Ceil(n, c)
  BY <1>3
<1>5. Even_rows(n) = r /\ n <= c * r
  BY <1>2, <1>3, <1>4 DEF Even_rows
<1>6. r >= 1
  <2>1. r # 0
    BY <1>1, <1>5
  <2> QED BY <2>1
<1>7. PICK d \in Nat : d = c - 1
  OBVIOUS
<1>8. PICK p \in Nat : p = r * d
  OBVIOUS
<1>9. Even_rows_last(n) = n - p /\ Even_rows(n) * (CORE_COUNT - 1) = p
  BY <1>2, <1>5, <1>7, <1>8 DEF Even_rows_last
<1>10. n - p >= 0
  BY <1>1, <1>9, SplitAssumption
<1>11. n - p \in Nat /\ p + (n - p) = n
  BY <1>10
<1> QED BY <1>1, <1>5, <1>6, <1>9, <1>11

(* The adjusted split moves rows from the last thread to the others.       *)
LEMMA SplitsRows ==
  ASSUME NEW s \in Screen, NEW next \in 0 .. RANGE
  PROVE  /\ Rows(Mcu_rows(s), next) \in Nat
         /\ Rows(Mcu_rows(s), next) >= 1
         /\ Rows_last(Mcu_rows(s), next) \in Nat
         /\ Rows(Mcu_rows(s), next) * (CORE_COUNT - 1)
              + Rows_last(Mcu_rows(s), next) = Mcu_rows(s)
<1>1. PICK n \in Nat : n = Mcu_rows(s)
  BY EvenSplit
<1>2. /\ Even_rows(n) \in Nat /\ Even_rows(n) >= 1
      /\ Even_rows_last(n) \in Nat
      /\ Even_rows(n) * (CORE_COUNT - 1) \in Nat
      /\ Even_rows(n) * (CORE_COUNT - 1) + Even_rows_last(n) = n
  BY <1>1, EvenSplit
<1>3. CASE ~Adjusts
  BY <1>1, <1>2, <1>3 DEF Rows, Rows_last
<1>4. CASE Adjusts
  <2>1. PICK g \in Nat \ {0} : g = RANGE
    BY DeltaQAssumption
  <2>2. PICK d \in Nat \ {0} : d = CORE_COUNT - 1
    BY <1>4, DeltaQAssumption DEF Adjusts
  <2>3. PICK e \in Nat : e = Even_rows_last(n)
    BY <1>2
  <2>4. PICK r \in Nat : r = Even_rows(n) /\ r >= 1
    BY <1>2
  <2>5. next \in Nat /\ next <= g
    BY <2>1
  <2>6. PICK a \in Nat : a = e * next
    BY <2>5
  <2>7. PICK c \in Nat : c = Ceil(a, g) /\ g * c < a + g
    BY CeilBounds
  <2>8. c <= e
    <3>1. next * e <= g * e
      BY <2>5, TimesMonotone
    <3>2. a = next * e
      BY <2>5, <2>6
    <3>3. g * c < g * e + g
      BY <2>7, <3>1, <3>2
    <3>4. g * e + g = (e + 1) * g /\ g * c = c * g
      OBVIOUS
    <3>5. PICK f \in Nat : f = e + 1
      OBVIOUS
    <3>6. c * g < f * g
      BY <3>3, <3>4, <3>5
    <3>7. c < f
      BY <3>6, TimesStrict
    <3> QED BY <3>5, <3>7
  <2>9. PICK m \in Nat : m = n - c
    <3>1. e <= n
      BY <1>2, <2>3
    <3> QED BY <2>8, <3>1
  <2>10. m = d * (m \div d) + (m % d) /\ m % d \in 0 .. d - 1 /\ m \div d \in Nat
    BY DivMod
  <2>11. PICK q \in Nat : q = m \div d
    BY <2>10
  <2>12. PICK p \in Nat : p = q * d
    OBVIOUS
  <2>13. m = p + (m % d) /\ m % d \in Nat /\ m % d < d
    BY <2>10, <2>11, <2>12
  <2>14. Rows(n, next) = q
    BY <1>4, <2>1, <2>2, <2>3, <2>6, <2>7, <2>9, <2>11 DEF Rows
  <2>15. Rows_last(n, next) = n - p
    BY <1>4, <2>2, <2>12, <2>14 DEF Rows_last
  <2>16. n - p \in Nat
    BY <2>9, <2>13
  <2>17. q >= 1
    <3>1. r * d \in Nat /\ r * d + e = n
      BY <1>2, <2>2, <2>3, <2>4
    <3>2. r * d <= m
      BY <2>8, <2>9, <3>1
    <3>3. (q + 1) * d = p + d
      BY <2>12
    <3>4. PICK f \in Nat : f = q + 1
      OBVIOUS
    <3>5. r * d < f * d
      BY <2>13, <3>1, <3>2, <3>3, <3>4
    <3>6. r < f
      BY <3>5, TimesStrict
    <3> QED BY <2>4, <3>4, <3>6
  <2>18. q * (CORE_COUNT - 1) + (n - p) = n
    BY <2>2, <2>12
  <2> QED BY <1>1, <2>14, <2>15, <2>16, <2>17, <2>18
<1> QED BY <1>3, <1>4

(* The shares of a split are disjoint intervals that cover the screen: the *)
(* share of thread t begins at rows * t and the last one ends with the     *)
(* screen.                                                                 *)
LEMMA SharesDisjoint ==
  ASSUME NEW w, Splits(info[w]),
         NEW t \in Thread, NEW u \in Thread, t # u
  PROVE  Share(w, t) \cap Share(w, u) = {}
<1>1. PICK r \in Nat : r = info[w].rows
  BY DEF Splits
<1>2. PICK c \in Nat \ {0} : c = CORE_COUNT
  BY DeltaQAssumption
<1>3. ASSUME NEW a \in Thread, NEW b \in Thread, a < b
      PROVE  Share(w, a) \cap Share(w, b) = {}
  <2>1. a \in Nat /\ b \in Nat /\ a + 1 <= b /\ b <= c - 1 /\ a # c - 1
    BY <1>2, <1>3 DEF Thread
  <2>2. PICK x \in Nat : x = a + 1
    BY <2>1
  <2>3. x * r <= b * r
    BY <2>1, <2>2, TimesMonotone
  <2>4. x * r = r * a + r /\ b * r = r * b /\ r * a \in Nat /\ r * b \in Nat
    BY <2>1, <2>2
  <2>5. r * a + r <= r * b
    BY <2>3, <2>4
  <2>6. I_count(w, a) = r
    BY <1>1, <1>2, <2>1 DEF I_count
  <2>7. I_count(w, b) \in Nat
    BY DEF I_count, Splits
  <2>8. Share(w, a) = r * a .. r * a + r - 1
    BY <1>1, <2>6 DEF Share, I_start
  <2>9. Share(w, b) = r * b .. r * b + I_count(w, b) - 1
    BY <1>1 DEF Share, I_start
  <2> QED BY <2>4, <2>5, <2>7, <2>8, <2>9
<1>4. t \in Nat /\ u \in Nat
  BY <1>2 DEF Thread
<1>5. t < u \/ u < t
  BY <1>4
<1> QED BY <1>3, <1>5

LEMMA SharesCover ==
  ASSUME NEW w, Splits(info[w]), info[w].s \in Screen
  PROVE  /\ \A t \in Thread : Share(w, t) \subseteq Row(info[w].s)
         /\ \A x \in Row(info[w].s) : \E t \in Thread : x \in Share(w, t)
<1>1. PICK r \in Nat \ {0} : r = info[w].rows
  BY DEF Splits
<1>2. PICK c \in Nat \ {0} : c = CORE_COUNT
  BY DeltaQAssumption
<1>3. PICK l \in Nat : l = info[w].last
  BY DEF Splits
<1>4. PICK n \in Nat : n = Mcu_rows(info[w].s)
  BY EvenSplit
<1>5. PICK d \in Nat : d = c - 1
  OBVIOUS
<1>6. PICK p \in Nat : p = r * d
  OBVIOUS
<1>7. p + l = n
  BY <1>1, <1>2, <1>3, <1>4, <1>5, <1>6 DEF Splits
<1>8. Row(info[w].s) = 0 .. n - 1
  BY <1>4 DEF Row
<1>9. d \in Thread /\ Share(w, d) = p .. p + l - 1
  BY <1>1, <1>2, <1>3, <1>5, <1>6 DEF Thread, Share, I_start, I_count
<1>10. ASSUME NEW t \in Thread, t # d
       PROVE  /\ t \in Nat /\ t < d
              /\ r * t \in Nat
              /\ Share(w, t) = r * t .. r * t + r - 1
              /\ r * t + r <= p
  <2>1. t \in Nat /\ t < d
    BY <1>2, <1>5, <1>10 DEF Thread
  <2>2. I_count(w, t) = r
    BY <1>1, <1>2, <1>5, <1>10 DEF I_count
  <2>3. Share(w, t) = r * t .. r * t + r - 1
    BY <1>1, <2>2 DEF Share, I_start
  <2>4. PICK x \in Nat : x = t + 1
    BY <2>1
  <2>5. x * r <= d * r
    BY <2>1, <2>4, TimesMonotone
  <2>6. x * r = r * t + r /\ d * r = p /\ r * t \in Nat
    BY <1>6, <2>1, <2>4
  <2> QED BY <2>1, <2>3, <2>5, <2>6
<1>11. ASSUME NEW t \in Thread
       PROVE  Share(w, t) \subseteq Row(info[w].s)
  BY <1>7, <1>8, <1>9, <1>10
<1>12. ASSUME NEW x \in Row(info[w].s)
       PROVE  \E t \in Thread : x \in Share(w, t)
  <2>1. x \in Nat /\ x < n
    BY <1>8
  <2>2. CASE x >= p
    BY <1>7, <1>9, <2>1, <2>2
  <2>3. CASE x < p
    <3>1. x = r * (x \div r) + (x % r) /\ x % r \in 0 .. r - 1 /\ x \div r \in Nat
      BY <2>1, DivMod
    <3>2. PICK t \in Nat : t = x \div r
      BY <3>1
    <3>3. PICK y \in Nat : y = r * t
      OBVIOUS
    <3>4. x = y + (x % r) /\ x % r \in Nat /\ x % r < r
      BY <3>1, <3>2, <3>3
    <3>5. t * r < d * r
      BY <1>6, <2>3, <3>3, <3>4
    <3>6. t < d
      BY <3>5, TimesStrict
    <3>7. t \in Thread /\ t # d
      BY <1>2, <1>5, <3>6 DEF Thread
    <3>8. Share(w, t) = y .. y + r - 1
      BY <1>10, <3>3, <3>7
    <3> QED BY <3>4, <3>7, <3>8
  <2> QED BY <2>1, <2>2, <2>3
<1> QED BY <1>11, <1>12

-----------------------------------------------------------------------------
(***************************************************************************)
(* Types.                                                                  *)
(***************************************************************************)
Types == TypeOK /\ prev = [s \in Screen |-> prev[s]]

SplitTypes ==
  /\ last_n \in 0 .. RANGE
  /\ last_w \in Work
  /\ even_odd \in [Screen -> {0, 1}]
  /\ info \in [Work -> Info]
  /\ left \in [Work -> SUBSET Thread]

SynTypes ==
  /\ inited \in [Work -> BOOLEAN]
  /\ sem_count \in [Work -> 0 .. CORE_COUNT]
  /\ work_sem \in [Work -> 0 .. CORE_COUNT - 1]
  /\ screen_bool \in [Screen -> BOOLEAN]
  /\ screen_sem \in [Screen -> 0 .. 1]
  /\ last_interval \in [Screen -> Nat]

LevelTypes ==
  /\ delta_q \in [Screen -> [{0, 1} -> Level]]
  /\ work_delta_q \in [Work -> Level]
  /\ work_from \in [Work -> Level]
  /\ \A s \in Screen : prev[s] \in [{0, 1} -> [Row(s) -> Level]]
  /\ prev = [s \in Screen |-> prev[s]]

ThreadTypes ==
  /\ pc \in [Thread -> Control]
  /\ wi \in [Thread -> Work]
  /\ row \in [Thread -> Nat]

LEMMA TypesParts ==
  /\ Types <=> SplitTypes /\ SynTypes /\ LevelTypes /\ ThreadTypes
  /\ Types' <=> SplitTypes' /\ SynTypes' /\ LevelTypes' /\ ThreadTypes'
BY DEF Types, TypeOK, SplitTypes, SynTypes, LevelTypes, ThreadTypes

LEMMA InfoFacts ==
  ASSUME SplitTypes, NEW w \in Work
  PROVE  /\ info[w] \in Info
         /\ info[w].s \in Screen /\ info[w].e \in {0, 1}
         /\ info[w].rows \in Nat /\ info[w].last \in Nat
<1>1. info[w] \in Info
  BY DEF SplitTypes
<1> QED BY <1>1 DEF Info

LEMMA TypesInit ==
  ASSUME Init PROVE Types
<1>1. WORK_COUNT \in Nat \ {0} /\ CORE_COUNT \in Nat \ {0} /\ RANGE \in Nat
  BY DeltaQAssumption
<1>2. SplitTypes
  <2>1. [s |-> "top", e |-> 0, rows |-> 0, last |-> 0] \in Info
    BY DEF Info, Screen
  <2> QED BY <1>1, <2>1 DEF Init, SplitTypes, Work
<1>3. SynTypes
  BY <1>1 DEF Init, SynTypes
<1>4. LevelTypes
  <2>1. Full \in Level /\ 0 \in Level
    BY DeltaQAssumption DEF Full, Level
  <2> QED BY <2>1 DEF Init, LevelTypes
<1>5. ThreadTypes
  BY <1>1 DEF Init, ThreadTypes, Control, Work
<1> QED BY <1>2, <1>3, <1>4, <1>5, TypesParts

LEMMA NextLastN ==
  ASSUME SplitTypes, NEW w \in Work
  PROVE  Next_last_n(w) \in 0 .. RANGE
BY DeltaQAssumption DEF SplitTypes, Next_last_n, Adjusts

LEMMA TypesInitWork ==
  ASSUME Types, NEW t \in Thread, NEW s \in Screen, Init_work(t, s)
  PROVE  Types'
<1>1. SplitTypes /\ SynTypes /\ LevelTypes /\ ThreadTypes
  BY TypesParts
<1>2. PICK w \in Work : w = wi[t]
  BY <1>1 DEF ThreadTypes
<1>3. PICK next \in 0 .. RANGE : next = Next_last_n(w)
  BY <1>1, NextLastN
<1>4. PICK i \in Info : i = [s |-> s, e |-> even_odd[s],
                              rows |-> Rows(Mcu_rows(s), next),
                              last |-> Rows_last(Mcu_rows(s), next)]
  <2>1. even_odd[s] \in {0, 1}
    BY <1>1 DEF SplitTypes
  <2>2. Rows(Mcu_rows(s), next) \in Nat /\ Rows_last(Mcu_rows(s), next) \in Nat
    BY SplitsRows
  <2> QED BY <2>1, <2>2 DEF Info
<1>5. /\ last_n' = next
      /\ info' = [info EXCEPT ![w] = i]
      /\ even_odd' = [even_odd EXCEPT ![s] = IF s \in EVEN_ODD THEN 1 - @ ELSE @]
      /\ left' = [left EXCEPT ![w] = Thread]
      /\ UNCHANGED <<last_w, syn, level, pc, wi, row>>
  BY <1>2, <1>3, <1>4, Zenon DEF Init_work
<1>6. SplitTypes'
  BY <1>1, <1>5 DEF SplitTypes
<1>7. SynTypes' /\ LevelTypes' /\ ThreadTypes'
  BY <1>1, <1>5 DEF SynTypes, LevelTypes, ThreadTypes, syn, level
<1> QED BY <1>6, <1>7, TypesParts

(* Where a step leads, and which variables it leaves alone.                *)
LEMMA TypesStep ==
  ASSUME Types, NEW t \in Thread, Step(t),
         pc[t] = "rows" => sem_count[wi[t]] >= 1
  PROVE  Types'
<1>1. SplitTypes /\ SynTypes /\ LevelTypes /\ ThreadTypes
  BY TypesParts
<1>2. PICK w \in Work : w = wi[t]
  BY <1>1 DEF ThreadTypes
<1>3. PICK s \in Screen, e \in {0, 1} : s = info[w].s /\ e = info[w].e
  BY <1>1, InfoFacts
<1>4. CORE_COUNT \in Nat \ {0} /\ WORK_COUNT \in Nat \ {0}
  BY DeltaQAssumption
<1> USE DEF Goto
<1>5. CASE Encode(t)
  <2>1. UNCHANGED <<split, left, syn, level, wi, row>>
    BY <1>5 DEF Encode
  <2>2. ThreadTypes'
    BY <1>1, <1>5 DEF Encode, ThreadTypes, Control
  <2>3. SplitTypes' /\ SynTypes' /\ LevelTypes'
    BY <1>1, <2>1 DEF SplitTypes, SynTypes, LevelTypes, split, syn, level
  <2> QED BY <2>2, <2>3, TypesParts
<1>6. CASE Claim(t) \/ Need_sync(t) \/ Screen_sem_acquire(t) \/ Screen_owned(t)
           \/ Release_work_sem(t) \/ Work_sem_acquire(t) \/ Work_sem_count(t)
           \/ Hand_on(t) \/ Clear_screen_bool(t) \/ Release_screen_sem(t)
  <2>1. UNCHANGED <<split, left, level, wi, row>>
    BY <1>6 DEF Claim, Need_sync, Screen_sem_acquire, Screen_owned,
       Release_work_sem, Work_sem_acquire, Work_sem_count, Hand_on,
       Clear_screen_bool, Release_screen_sem
  <2>2. ThreadTypes'
    BY <1>1, <1>6 DEF ThreadTypes, Control, Claim, Need_sync,
       Screen_sem_acquire, Screen_owned, Release_work_sem, Work_sem_acquire,
       Work_sem_count, Hand_on, Clear_screen_bool, Release_screen_sem
  <2>3. SynTypes'
    <3>1. CASE Claim(t) \/ Need_sync(t)
      BY <1>1, <3>1 DEF SynTypes, Claim, Need_sync
    <3>2. CASE Screen_sem_acquire(t)
      BY <1>1, <1>2, <1>3, <3>2 DEF SynTypes, Screen_sem_acquire
    <3>3. CASE Screen_owned(t)
      <4>1. info[w].rows \in Nat
        BY <1>1, InfoFacts
      <4> QED BY <1>1, <1>2, <1>3, <3>3, <4>1 DEF SynTypes, Screen_owned
    <3>4. CASE Release_work_sem(t) \/ Work_sem_acquire(t)
      BY <1>1, <1>2, <1>4, <3>4 DEF SynTypes, Release_work_sem,
         Work_sem_acquire, Released
    <3>5. CASE Work_sem_count(t)
      BY <1>1, <1>2, <1>4, <3>5 DEF SynTypes, Work_sem_count
    <3>6. CASE Hand_on(t)
      <4>1. /\ sem_count' = [sem_count EXCEPT ![w] = CORE_COUNT]
            /\ inited' = [inited EXCEPT ![w] = FALSE]
            /\ UNCHANGED <<work_sem, screen_sem, last_interval>>
        BY <1>2, <3>6 DEF Hand_on
      <4>2. screen_bool' = screen_bool
              \/ screen_bool' = [screen_bool EXCEPT ![s] = TRUE]
        BY <1>2, <1>3, <3>6 DEF Hand_on
      <4>3. screen_bool' \in [Screen -> BOOLEAN]
        BY <1>1, <4>2 DEF SynTypes
      <4> QED BY <1>1, <1>4, <4>1, <4>3 DEF SynTypes
    <3>7. CASE Clear_screen_bool(t) \/ Release_screen_sem(t)
      <4>1. CASE Clear_screen_bool(t)
        BY <1>1, <1>2, <1>3, <4>1 DEF SynTypes, Clear_screen_bool
      <4>2. CASE Release_screen_sem(t)
        BY <1>1, <1>2, <1>3, <4>2 DEF SynTypes, Release_screen_sem, Released
      <4> QED BY <3>7, <4>1, <4>2
    <3> QED BY <1>6, <3>1, <3>2, <3>3, <3>4, <3>5, <3>6, <3>7
  <2>4. SplitTypes' /\ LevelTypes'
    BY <1>1, <2>1 DEF SplitTypes, LevelTypes, split, level
  <2> QED BY <2>2, <2>3, <2>4, TypesParts
<1>7. CASE Sample_row(t) \/ \E q \in Level : Compute_dq(t, q)
  <2>1. UNCHANGED <<split, left, syn, prev, wi, row>>
    BY <1>7 DEF Sample_row, Compute_dq
  <2>2. ThreadTypes'
    BY <1>1, <1>7 DEF ThreadTypes, Control, Sample_row, Compute_dq
  <2>3. LevelTypes'
    <3>1. delta_q[s][e] \in Level
      BY <1>1, <1>3 DEF LevelTypes
    <3>2. CASE Sample_row(t)
      BY <1>1, <1>2, <1>3, <3>1, <3>2 DEF LevelTypes, Sample_row
    <3>3. CASE \E q \in Level : Compute_dq(t, q)
      <4>1. PICK q \in Level : Compute_dq(t, q)
        BY <3>3
      <4>2. /\ delta_q' = [delta_q EXCEPT ![s][e] = q]
            /\ work_delta_q' = [work_delta_q EXCEPT ![w] = q]
            /\ UNCHANGED <<work_from, prev>>
        BY <1>2, <1>3, <4>1 DEF Compute_dq
      <4> QED BY <1>1, <4>2 DEF LevelTypes
    <3> QED BY <1>7, <3>2, <3>3
  <2>4. SplitTypes' /\ SynTypes'
    BY <1>1, <2>1 DEF SplitTypes, SynTypes, split, syn
  <2> QED BY <2>2, <2>3, <2>4, TypesParts
<1>8. CASE Compress(t)
  <2>1. UNCHANGED <<split, left, syn, delta_q, work_delta_q, work_from, pc, wi>>
    BY <1>8 DEF Compress
  <2>2. ThreadTypes'
    BY <1>1, <1>8 DEF ThreadTypes, Compress
  <2>3. LevelTypes'
    <3>1. PICK q \in Level : q = work_delta_q[w]
      BY <1>1 DEF LevelTypes
    <3>2. PICK r : prev' = [prev EXCEPT ![s][e][r] = q]
      BY <1>2, <1>3, <1>8, <3>1 DEF Compress
    <3>3. \A z \in Screen : prev[z] \in [{0, 1} -> [Row(z) -> Level]]
      BY <1>1 DEF LevelTypes
    <3>4. PICK f : f = prev[s]
      OBVIOUS
    <3>5. [f EXCEPT ![e][r] = q] \in [{0, 1} -> [Row(s) -> Level]]
      BY <3>3, <3>4
    <3>6. PICK p : p = prev /\ p = [z \in Screen |-> p[z]]
      BY <1>1 DEF LevelTypes
    <3>7. prev' = [p EXCEPT ![s] = [f EXCEPT ![e][r] = q]]
      BY <3>2, <3>4, <3>6
    <3>8. /\ prev' = [z \in Screen |-> prev'[z]]
          /\ prev'[s] = [f EXCEPT ![e][r] = q]
          /\ \A z \in Screen : z # s => prev'[z] = p[z]
      BY <3>6, <3>7
    <3>9. \A z \in Screen : prev'[z] \in [{0, 1} -> [Row(z) -> Level]]
      BY <3>3, <3>5, <3>6, <3>8
    <3> QED BY <1>1, <2>1, <3>8, <3>9 DEF LevelTypes
  <2>4. SplitTypes' /\ SynTypes'
    BY <1>1, <2>1 DEF SplitTypes, SynTypes, split, syn
  <2> QED BY <2>2, <2>3, <2>4, TypesParts
<1>9. CASE Finish(t)
  <2>1. UNCHANGED <<last_n, even_odd, info, syn, level>>
    BY <1>9 DEF Finish
  <2>2. ThreadTypes'
    BY <1>1, <1>2, <1>4, <1>9 DEF ThreadTypes, Control, Finish, Work
  <2>3. SplitTypes'
    BY <1>1, <1>2, <1>9, <2>1 DEF SplitTypes, Finish
  <2>4. SynTypes' /\ LevelTypes'
    BY <1>1, <2>1 DEF SynTypes, LevelTypes, syn, level
  <2> QED BY <2>2, <2>3, <2>4, TypesParts
<1> QED BY <1>5, <1>6, <1>7, <1>8, <1>9 DEF Step

-----------------------------------------------------------------------------
(***************************************************************************)
(* Frames: where the threads are, and which works they still hold.         *)
(***************************************************************************)
Slot(k)   == k % WORK_COUNT
Frames(F) == {k \in 0 .. F - 1 : F <= k + WORK_COUNT}

FramesInv(F, n) ==
  /\ F \in Nat /\ F >= WORK_COUNT
  /\ n \in [Thread -> Nat]
  /\ \A t \in Thread :
       /\ wi[t] = Slot(n[t])
       /\ n[t] <= F /\ F <= n[t] + WORK_COUNT
       /\ pc[t] # "idle" => n[t] < F
  /\ \A k \in Frames(F) : left[Slot(k)] = {t \in Thread : n[t] <= k}

SplitInv == \A w \in Work : left[w] # {} => Splits(info[w])

(* The works of two frames in flight are different works.                  *)
LEMMA SlotFacts ==
  ASSUME NEW F \in Nat, NEW k \in Frames(F)
  PROVE  /\ k \in Nat /\ k < F /\ F <= k + WORK_COUNT
         /\ Slot(k) \in Work
         /\ \A j \in Frames(F) : Slot(j) = Slot(k) => j = k
<1>1. PICK w \in Nat \ {0} : w = WORK_COUNT
  BY DeltaQAssumption
<1>2. k \in Nat /\ k < F /\ F <= k + w
  BY <1>1 DEF Frames
<1>3. k % w \in 0 .. w - 1
  BY <1>2, DivMod
<1>4. ASSUME NEW j \in Frames(F), Slot(j) = Slot(k)
      PROVE  j = k
  <2>1. j \in Nat /\ j < F /\ F <= j + w
    BY <1>1 DEF Frames
  <2>2. j % w = k % w
    BY <1>1, <1>4 DEF Slot
  <2>3. j <= k => j = k
    <3>1. SUFFICES ASSUME j <= k PROVE j = k
      OBVIOUS
    <3>2. k < j + w
      BY <1>2, <2>1
    <3> QED BY <1>2, <2>1, <2>2, <3>1, <3>2, ModInjective
  <2>4. k <= j => k = j
    <3>1. SUFFICES ASSUME k <= j PROVE k = j
      OBVIOUS
    <3>2. j < k + w
      BY <1>2, <2>1
    <3> QED BY <1>2, <2>1, <2>2, <3>1, <3>2, ModInjective
  <2> QED BY <1>2, <2>1, <2>3, <2>4
<1> QED BY <1>1, <1>2, <1>3, <1>4 DEF Slot, Work

(* The frame a thread is in.                                               *)
LEMMA InFrame ==
  ASSUME NEW F, NEW n, FramesInv(F, n), NEW t \in Thread, n[t] < F
  PROVE  /\ n[t] \in Frames(F) /\ wi[t] = Slot(n[t]) /\ wi[t] \in Work
         /\ t \in left[wi[t]]
         /\ \A k \in Frames(F) : k # n[t] => Slot(k) # wi[t]
<1>1. F \in Nat /\ n[t] \in Nat /\ F <= n[t] + WORK_COUNT
  BY DEF FramesInv
<1>2. n[t] \in Frames(F)
  BY <1>1 DEF Frames
<1>3. wi[t] = Slot(n[t])
  BY DEF FramesInv
<1>4. left[Slot(n[t])] = {u \in Thread : n[u] <= n[t]}
  BY <1>2 DEF FramesInv
<1> QED BY <1>1, <1>2, <1>3, <1>4, SlotFacts

(* Where each step of a thread leads.                                      *)
LEMMA StepEdge ==
  ASSUME ThreadTypes, NEW t \in Thread
  PROVE  /\ Encode(t) => pc[t] = "idle" /\ pc'[t] \in {"empty", "claim"}
         /\ Claim(t) => pc[t] = "claim" /\ pc'[t] =
              IF inited[wi[t]] THEN "work_sem"
              ELSE IF CORE_COUNT = 1 THEN "read" ELSE "sync"
         /\ Need_sync(t) => pc[t] = "sync" /\ pc'[t] =
              IF Interval_changed(wi[t]) \/ screen_bool[info[wi[t]].s]
              THEN "screen_sem" ELSE "read"
         /\ Screen_sem_acquire(t) => pc[t] = "screen_sem" /\ pc'[t] = "own"
         /\ Screen_owned(t) => pc[t] = "own" /\ pc'[t] = "read"
         /\ Sample_row(t) => pc[t] = "read" /\ pc'[t] = "compute"
         /\ \A q \in Level : Compute_dq(t, q) =>
              pc[t] = "compute" /\ pc'[t] = "wake"
         /\ Release_work_sem(t) => pc[t] = "wake" /\ pc'[t] = "rows"
         /\ Work_sem_acquire(t) =>
              pc[t] \in {"work_sem", "empty"} /\ pc'[t] = "rows"
         /\ Compress(t) => pc[t] = "rows" /\ pc'[t] = "rows"
         /\ Work_sem_count(t) => pc[t] = "rows" /\ pc'[t] =
              IF sem_count[wi[t]] = 1 THEN "hand" ELSE "finish"
         /\ Hand_on(t) => pc[t] = "hand" /\ pc'[t] =
              IF CORE_COUNT = 1 THEN "finish"
              ELSE IF Overtaken(info[wi[t]].s) THEN "clear" ELSE "give"
         /\ Clear_screen_bool(t) => pc[t] = "clear" /\ pc'[t] = "finish"
         /\ Release_screen_sem(t) => pc[t] = "give" /\ pc'[t] = "finish"
         /\ Finish(t) => pc[t] = "finish" /\ pc'[t] = "idle"
<1>1. pc \in [Thread -> Control]
  BY DEF ThreadTypes
<1> USE <1>1 DEF Goto
<1>2. Encode(t) => pc[t] = "idle" /\ pc'[t] \in {"empty", "claim"}
  BY DEF Encode
<1>3. Claim(t) => pc[t] = "claim" /\ pc'[t] =
        IF inited[wi[t]] THEN "work_sem"
        ELSE IF CORE_COUNT = 1 THEN "read" ELSE "sync"
  BY DEF Claim
<1>4. Need_sync(t) => pc[t] = "sync" /\ pc'[t] =
        IF Interval_changed(wi[t]) \/ screen_bool[info[wi[t]].s]
        THEN "screen_sem" ELSE "read"
  BY DEF Need_sync
<1>5. /\ Screen_sem_acquire(t) => pc[t] = "screen_sem" /\ pc'[t] = "own"
      /\ Screen_owned(t) => pc[t] = "own" /\ pc'[t] = "read"
      /\ Sample_row(t) => pc[t] = "read" /\ pc'[t] = "compute"
  BY DEF Screen_sem_acquire, Screen_owned, Sample_row
<1>6. \A q \in Level : Compute_dq(t, q) => pc[t] = "compute" /\ pc'[t] = "wake"
  BY DEF Compute_dq
<1>7. /\ Release_work_sem(t) => pc[t] = "wake" /\ pc'[t] = "rows"
      /\ Work_sem_acquire(t) =>
           pc[t] \in {"work_sem", "empty"} /\ pc'[t] = "rows"
      /\ Compress(t) => pc[t] = "rows" /\ pc'[t] = "rows"
  BY DEF Release_work_sem, Work_sem_acquire, Compress
<1>8. Work_sem_count(t) => pc[t] = "rows" /\ pc'[t] =
        IF sem_count[wi[t]] = 1 THEN "hand" ELSE "finish"
  BY DEF Work_sem_count
<1>9. Hand_on(t) => pc[t] = "hand" /\ pc'[t] =
        IF CORE_COUNT = 1 THEN "finish"
        ELSE IF Overtaken(info[wi[t]].s) THEN "clear" ELSE "give"
  BY DEF Hand_on
<1>10. /\ Clear_screen_bool(t) => pc[t] = "clear" /\ pc'[t] = "finish"
       /\ Release_screen_sem(t) => pc[t] = "give" /\ pc'[t] = "finish"
       /\ Finish(t) => pc[t] = "finish" /\ pc'[t] = "idle"
  BY DEF Clear_screen_bool, Release_screen_sem, Finish
<1> QED BY <1>2, <1>3, <1>4, <1>5, <1>6, <1>7, <1>8, <1>9, <1>10

(* What a step of a thread leaves alone, as long as it stays in its frame. *)
LEMMA StepLocal ==
  ASSUME Types, NEW t \in Thread, Step(t), pc[t] # "finish"
  PROVE  /\ UNCHANGED <<split, left, wi>>
         /\ \A u \in Thread : u # t => pc'[u] = pc[u] /\ row'[u] = row[u]
         /\ \A w \in Work : w # wi[t] =>
              /\ inited'[w] = inited[w]
              /\ sem_count'[w] = sem_count[w]
              /\ work_sem'[w] = work_sem[w]
              /\ work_delta_q'[w] = work_delta_q[w]
              /\ work_from'[w] = work_from[w]
         /\ Compress(t) \/ UNCHANGED <<row, prev>>
         /\ Encode(t) \/ pc[t] # "idle"
         /\ pc'[t] # "idle"
<1>1. SynTypes /\ LevelTypes /\ ThreadTypes
  BY TypesParts
<1>2. wi[t] \in Work /\ t \in DOMAIN pc /\ t \in DOMAIN row
  BY <1>1 DEF ThreadTypes
<1> USE DEF Goto, split, syn, level
<1>3. CASE Encode(t) \/ Claim(t) \/ Need_sync(t) \/ Screen_sem_acquire(t)
  BY <1>1, <1>2, <1>3 DEF Encode, Claim, Need_sync, Screen_sem_acquire,
     SynTypes, LevelTypes, ThreadTypes
<1>4. CASE Screen_owned(t) \/ Sample_row(t)
  BY <1>1, <1>2, <1>4 DEF Screen_owned, Sample_row,
     SynTypes, LevelTypes, ThreadTypes
<1>5. CASE \E q \in Level : Compute_dq(t, q)
  BY <1>1, <1>2, <1>5 DEF Compute_dq, SynTypes, LevelTypes, ThreadTypes
<1>6. CASE Release_work_sem(t) \/ Work_sem_acquire(t) \/ Work_sem_count(t)
  BY <1>1, <1>2, <1>6 DEF Release_work_sem, Work_sem_acquire, Work_sem_count,
     SynTypes, LevelTypes, ThreadTypes
<1>7. CASE Compress(t)
  BY <1>1, <1>2, <1>7 DEF Compress, SynTypes, LevelTypes, ThreadTypes
<1>8. CASE Hand_on(t) \/ Clear_screen_bool(t) \/ Release_screen_sem(t)
  BY <1>1, <1>2, <1>8 DEF Hand_on, Clear_screen_bool, Release_screen_sem,
     SynTypes, LevelTypes, ThreadTypes
<1>9. ~Finish(t)
  BY DEF Finish
<1> QED BY <1>3, <1>4, <1>5, <1>6, <1>7, <1>8, <1>9 DEF Step

LEMMA FramesStep ==
  ASSUME Types, NEW F, NEW n, FramesInv(F, n),
         NEW t \in Thread, Step(t), pc[t] # "finish"
  PROVE  FramesInv(F, n)' /\ n[t] < F
<1>1. /\ UNCHANGED <<left, wi>>
      /\ \A u \in Thread : u # t => pc'[u] = pc[u]
      /\ Encode(t) \/ pc[t] # "idle"
  BY StepLocal DEF split
<1>2. n[t] < F
  <2>1. CASE pc[t] # "idle"
    BY <2>1 DEF FramesInv
  <2>2. CASE Encode(t)
    <3>1. t \in left[wi[t]]
      BY <2>2 DEF Encode
    <3>2. SUFFICES ASSUME n[t] = F PROVE FALSE
      BY DEF FramesInv
    <3>3. PICK w \in Nat \ {0} : w = WORK_COUNT
      BY DeltaQAssumption
    <3>4. PICK k \in Nat : F = k + w
      BY <3>3 DEF FramesInv
    <3>5. k \in Frames(F)
      BY <3>3, <3>4 DEF Frames
    <3>6. Slot(F) = Slot(k)
      BY <3>3, <3>4, ModWrap DEF Slot
    <3>7. wi[t] = Slot(k)
      BY <3>2, <3>6 DEF FramesInv
    <3>8. n[t] <= k
      BY <3>1, <3>5, <3>7 DEF FramesInv
    <3> QED BY <3>2, <3>3, <3>4, <3>8
  <2> QED BY <1>1, <2>1, <2>2
<1> QED BY <1>1, <1>2 DEF FramesInv

LEMMA FramesFinished ==
  ASSUME Types, NEW F, NEW n, FramesInv(F, n),
         NEW t \in Thread, Finish(t)
  PROVE  FramesInv(F, [n EXCEPT ![t] = n[t] + 1])'
<1> DEFINE m == [n EXCEPT ![t] = n[t] + 1]
<1>1. F \in Nat /\ F >= WORK_COUNT /\ n \in [Thread -> Nat] /\ n[t] < F
  BY DEF FramesInv, Finish
<1>2. PICK w \in Nat \ {0} : w = WORK_COUNT
  BY DeltaQAssumption
<1>3. /\ n[t] \in Frames(F) /\ wi[t] = Slot(n[t]) /\ wi[t] \in Work
      /\ \A k \in Frames(F) : k # n[t] => Slot(k) # wi[t]
  BY <1>1, InFrame
<1>4. /\ left' = [left EXCEPT ![wi[t]] = @ \ {t}]
      /\ wi' = [wi EXCEPT ![t] = IF wi[t] + 1 = WORK_COUNT THEN 0 ELSE wi[t] + 1]
      /\ pc' = [pc EXCEPT ![t] = "idle"]
  BY DEF Finish, Goto
<1>5. left \in [Work -> SUBSET Thread] /\ wi \in [Thread -> Work]
      /\ pc \in [Thread -> Control]
  BY DEF Types, TypeOK
<1>6. PICK x \in Nat : x = n[t]
  BY <1>1
<1>7. wi'[t] = Slot(x + 1)
  <2>1. (x + 1) % w = IF (x % w) + 1 = w THEN 0 ELSE (x % w) + 1
    BY ModNext
  <2>2. wi[t] = x % w
    BY <1>2, <1>3, <1>6 DEF Slot
  <2>3. wi'[t] = IF wi[t] + 1 = w THEN 0 ELSE wi[t] + 1
    BY <1>2, <1>4, <1>5
  <2> QED BY <1>2, <2>1, <2>2, <2>3 DEF Slot
<1>8. m \in [Thread -> Nat] /\ m[t] = x + 1
      /\ \A u \in Thread : u # t => m[u] = n[u]
  BY <1>1, <1>6
<1>9. ASSUME NEW u \in Thread
      PROVE  /\ wi'[u] = Slot(m[u])
             /\ m[u] <= F /\ F <= m[u] + WORK_COUNT
             /\ pc'[u] # "idle" => m[u] < F
  <2>1. CASE u = t
    BY <1>1, <1>2, <1>4, <1>5, <1>6, <1>7, <1>8, <2>1 DEF FramesInv
  <2>2. CASE u # t
    BY <1>4, <1>5, <1>8, <2>2 DEF FramesInv
  <2> QED BY <2>1, <2>2
<1>10. ASSUME NEW k \in Frames(F)
       PROVE  left'[Slot(k)] = {u \in Thread : m[u] <= k}
  <2>1. Slot(k) \in Work /\ k \in Nat
    BY <1>1, SlotFacts
  <2>2. left[Slot(k)] = {u \in Thread : n[u] <= k}
    BY DEF FramesInv
  <2>3. CASE k = n[t]
    <3>1. left'[Slot(k)] = left[Slot(k)] \ {t}
      BY <1>3, <1>4, <1>5, <2>3
    <3>2. ASSUME NEW u \in Thread
          PROVE  m[u] <= k <=> n[u] <= k /\ u # t
      <4>1. CASE u = t
        BY <1>6, <1>8, <2>1, <2>3, <4>1
      <4>2. CASE u # t
        BY <1>8, <4>2
      <4> QED BY <4>1, <4>2
    <3> QED BY <2>2, <3>1, <3>2
  <2>4. CASE k # n[t]
    <3>1. left'[Slot(k)] = left[Slot(k)]
      BY <1>3, <1>4, <1>5, <2>1, <2>4
    <3>2. ASSUME NEW u \in Thread
          PROVE  m[u] <= k <=> n[u] <= k
      <4>1. CASE u = t
        BY <1>6, <1>8, <2>1, <2>4, <4>1
      <4>2. CASE u # t
        BY <1>8, <4>2
      <4> QED BY <4>1, <4>2
    <3> QED BY <2>2, <3>1, <3>2
  <2> QED BY <2>3, <2>4
<1> HIDE DEF m
<1>11. FramesInv(F, m)'
  BY <1>1, <1>8, <1>9, <1>10 DEF FramesInv
<1> QED BY <1>11 DEF m

(* Setting a work up takes the work of the oldest frame, which every       *)
(* thread has left.                                                        *)
LEMMA FramesBegun ==
  ASSUME Types, NEW F, NEW n, FramesInv(F, n),
         NEW t \in Thread, NEW s \in Screen, Init_work(t, s)
  PROVE  /\ FramesInv(F + 1, n)'
         /\ wi[t] = Slot(F) /\ n[t] = F
         /\ \A u \in Thread : F < n[u] + WORK_COUNT
         /\ \A k \in Frames(F + 1) :
              k = F \/ (k \in Frames(F) /\ k < F /\ Slot(k) # wi[t])
         /\ Slot(F) \in Work
<1>1. F \in Nat /\ F >= WORK_COUNT /\ n \in [Thread -> Nat]
  BY DEF FramesInv
<1>2. PICK w \in Nat \ {0} : w = WORK_COUNT
  BY DeltaQAssumption
<1>3. /\ left[wi[t]] = {}
      /\ left' = [left EXCEPT ![wi[t]] = Thread]
      /\ UNCHANGED <<pc, wi>>
  BY DEF Init_work
<1>4. left \in [Work -> SUBSET Thread] /\ wi \in [Thread -> Work]
  BY DEF Types, TypeOK
<1>5. n[t] = F
  <2>1. SUFFICES ASSUME n[t] # F PROVE FALSE
    OBVIOUS
  <2>2. n[t] < F
    BY <1>1, <2>1 DEF FramesInv
  <2>3. t \in left[wi[t]]
    BY <2>2, InFrame
  <2> QED BY <1>3, <2>3
<1>6. wi[t] = Slot(F)
  BY <1>5 DEF FramesInv
<1>7. PICK k0 \in Nat : F = k0 + w
  BY <1>1, <1>2
<1>8. k0 \in Frames(F) /\ Slot(F) = Slot(k0)
  <2>1. k0 \in Frames(F)
    BY <1>2, <1>7 DEF Frames
  <2>2. (k0 + w) % w = k0 % w
    BY ModWrap
  <2> QED BY <1>2, <1>7, <2>1, <2>2 DEF Slot
<1>9. ASSUME NEW u \in Thread
      PROVE  F < n[u] + WORK_COUNT
  <2>1. left[Slot(k0)] = {v \in Thread : n[v] <= k0}
    BY <1>8 DEF FramesInv
  <2>2. n[u] > k0
    BY <1>1, <1>3, <1>6, <1>8, <2>1
  <2> QED BY <1>1, <1>2, <1>7, <2>2
<1>10. ASSUME NEW k \in Frames(F + 1)
       PROVE  k = F \/ (k \in Frames(F) /\ k < F /\ Slot(k) # wi[t])
  <2>1. SUFFICES ASSUME k # F PROVE k \in Frames(F) /\ k < F /\ Slot(k) # wi[t]
    OBVIOUS
  <2>2. k \in Nat /\ k < F /\ F + 1 <= k + w
    BY <1>1, <1>2, <2>1 DEF Frames
  <2>3. k \in Frames(F) /\ k # k0
    BY <1>1, <1>2, <1>7, <2>2 DEF Frames
  <2> QED BY <1>1, <1>6, <1>8, <2>2, <2>3, SlotFacts
<1>11. ASSUME NEW k \in Frames(F + 1)
       PROVE  left'[Slot(k)] = {u \in Thread : n[u] <= k}
  <2>1. CASE k = F
    BY <1>1, <1>3, <1>4, <1>6, <2>1 DEF FramesInv
  <2>2. CASE k # F
    <3>1. k \in Frames(F) /\ Slot(k) # wi[t]
      BY <1>10, <2>2
    <3>2. left'[Slot(k)] = left[Slot(k)]
      BY <1>3, <1>4, <3>1
    <3> QED BY <3>1, <3>2 DEF FramesInv
  <2> QED BY <2>1, <2>2
<1>12. ASSUME NEW u \in Thread
       PROVE  /\ wi'[u] = Slot(n[u])
              /\ n[u] <= F + 1 /\ F + 1 <= n[u] + WORK_COUNT
              /\ pc'[u] # "idle" => n[u] < F + 1
  <2>1. wi[u] = Slot(n[u]) /\ n[u] <= F /\ n[u] \in Nat
    BY <1>1 DEF FramesInv
  <2>2. F < n[u] + w
    BY <1>2, <1>9
  <2> QED BY <1>1, <1>2, <1>3, <2>1, <2>2
<1>13. FramesInv(F + 1, n)'
  BY <1>1, <1>2, <1>11, <1>12 DEF FramesInv
<1>14. Slot(F) \in Work
  BY <1>4, <1>6
<1> QED BY <1>5, <1>6, <1>9, <1>10, <1>13, <1>14

(* Progress through the share of a work.                                   *)
RowInv ==
  \A t \in Thread :
    /\ row[t] # 0 => pc[t] \in {"rows", "hand", "clear", "give", "finish"}
    /\ pc[t] # "idle" => row[t] <= I_count(wi[t], t)
    /\ pc[t] \in {"hand", "clear", "give", "finish"} =>
         row[t] = I_count(wi[t], t)

LEMMA CountNat ==
  ASSUME SplitTypes, NEW w \in Work, NEW t \in Thread
  PROVE  I_count(w, t) \in Nat
BY InfoFacts DEF I_count

LEMMA SplitStep ==
  ASSUME Types, SplitInv, NEW t \in Thread, Step(t)
  PROVE  SplitInv'
<1>1. CASE pc[t] # "finish"
  BY <1>1, StepLocal DEF SplitInv, Splits, split
<1>2. CASE pc[t] = "finish"
  <2>1. Finish(t)
    BY <1>2, StepEdge, TypesParts DEF Step
  <2>2. info' = info /\ left' = [left EXCEPT ![wi[t]] = @ \ {t}]
    BY <2>1 DEF Finish
  <2>3. left \in [Work -> SUBSET Thread]
    BY DEF Types, TypeOK
  <2>4. \A w \in Work : left'[w] # {} => left[w] # {}
    BY <2>2, <2>3
  <2> QED BY <2>2, <2>4 DEF SplitInv, Splits
<1> QED BY <1>1, <1>2

LEMMA SplitBegun ==
  ASSUME Types, SplitInv, NEW t \in Thread, NEW s \in Screen, Init_work(t, s)
  PROVE  SplitInv'
<1>1. SplitTypes /\ ThreadTypes
  BY TypesParts
<1>2. PICK w \in Work : w = wi[t]
  BY <1>1 DEF ThreadTypes
<1>3. PICK next \in 0 .. RANGE : next = Next_last_n(w)
  BY <1>1, NextLastN
<1>4. PICK i : i = [s |-> s, e |-> even_odd[s],
                    rows |-> Rows(Mcu_rows(s), next),
                    last |-> Rows_last(Mcu_rows(s), next)]
  OBVIOUS
<1>5. Splits(i)
  BY <1>4, SplitsRows DEF Splits
<1>6. /\ info' = [info EXCEPT ![w] = i]
      /\ left' = [left EXCEPT ![w] = Thread]
  BY <1>2, <1>3, <1>4, Zenon DEF Init_work
<1>7. info \in [Work -> Info] /\ left \in [Work -> SUBSET Thread]
  BY <1>1 DEF SplitTypes
<1>8. ASSUME NEW v \in Work, left'[v] # {}
      PROVE  Splits(info'[v])
  <2>1. CASE v = w
    BY <1>5, <1>6, <1>7, <2>1
  <2>2. CASE v # w
    <3>1. info'[v] = info[v] /\ left'[v] = left[v]
      BY <1>6, <1>7, <2>2
    <3> QED BY <1>8, <3>1 DEF SplitInv
  <2> QED BY <2>1, <2>2
<1> QED BY <1>8 DEF SplitInv, Splits

LEMMA RowStep ==
  ASSUME Types, RowInv, NEW t \in Thread, Step(t)
  PROVE  RowInv'
<1>1. SplitTypes /\ ThreadTypes
  BY TypesParts
<1>2. PICK c \in Nat : c = I_count(wi[t], t)
  BY <1>1, CountNat DEF ThreadTypes
<1>3. PICK r \in Nat : r = row[t]
  BY <1>1 DEF ThreadTypes
<1>4. /\ r # 0 => pc[t] \in {"rows", "hand", "clear", "give", "finish"}
      /\ pc[t] # "idle" => r <= c
      /\ pc[t] \in {"hand", "clear", "give", "finish"} => r = c
  BY <1>2, <1>3 DEF RowInv
<1>5. pc \in [Thread -> Control] /\ row \in [Thread -> Nat]
      /\ wi \in [Thread -> Work]
  BY <1>1 DEF ThreadTypes
<1> USE DEF Goto
<1>6. CASE Encode(t) \/ Claim(t) \/ Need_sync(t) \/ Screen_sem_acquire(t)
           \/ Screen_owned(t) \/ Sample_row(t)
           \/ (\E q \in Level : Compute_dq(t, q))
           \/ Release_work_sem(t) \/ Work_sem_acquire(t) \/ Work_sem_count(t)
           \/ Hand_on(t) \/ Clear_screen_bool(t) \/ Release_screen_sem(t)
  <2>2. row' = row /\ info' = info /\ wi' = wi
    BY <1>6 DEF Encode, Claim, Need_sync, Screen_sem_acquire,
       Screen_owned, Sample_row, Compute_dq, Release_work_sem,
       Work_sem_acquire, Work_sem_count, Hand_on,
       Clear_screen_bool, Release_screen_sem, split
  <2>3. \A u \in Thread : u # t => pc'[u] = pc[u]
    BY <1>5, <1>6 DEF Encode, Claim, Need_sync, Screen_sem_acquire,
       Screen_owned, Sample_row, Compute_dq, Release_work_sem,
       Work_sem_acquire, Work_sem_count, Hand_on,
       Clear_screen_bool, Release_screen_sem
  <2>4. /\ r # 0 => pc'[t] \in {"rows", "hand", "clear", "give", "finish"}
        /\ pc'[t] # "idle" => r <= c
        /\ pc'[t] \in {"hand", "clear", "give", "finish"} => r = c
    <3>1. Work_sem_count(t) => r = c
      BY <1>2, <1>3 DEF Work_sem_count
    <3> QED BY <1>1, <1>2, <1>3, <1>4, <1>6, <3>1, StepEdge
  <2>5. ASSUME NEW u \in Thread
        PROVE  /\ row'[u] # 0 =>
                    pc'[u] \in {"rows", "hand", "clear", "give", "finish"}
               /\ pc'[u] # "idle" => row'[u] <= I_count(wi[u], u)
               /\ pc'[u] \in {"hand", "clear", "give", "finish"} =>
                    row'[u] = I_count(wi[u], u)
    <3>1. CASE u = t
      BY <1>2, <1>3, <2>2, <2>4, <3>1
    <3>2. CASE u # t
      BY <2>2, <2>3, <3>2 DEF RowInv
    <3> QED BY <3>1, <3>2
  <2> QED BY <2>2, <2>5 DEF RowInv, I_count
<1>7. CASE Compress(t)
  <2>1. /\ pc[t] = "rows" /\ r < c
        /\ row' = [row EXCEPT ![t] = r + 1]
        /\ info' = info /\ wi' = wi /\ pc' = pc
    BY <1>2, <1>3, <1>7 DEF Compress, split
  <2>2. row'[t] = r + 1 /\ \A u \in Thread : u # t => row'[u] = row[u]
    BY <1>5, <2>1
  <2>3. ASSUME NEW u \in Thread
        PROVE  /\ row'[u] # 0 =>
                    pc'[u] \in {"rows", "hand", "clear", "give", "finish"}
               /\ pc'[u] # "idle" => row'[u] <= I_count(wi[u], u)
               /\ pc'[u] \in {"hand", "clear", "give", "finish"} =>
                    row'[u] = I_count(wi[u], u)
    <3>1. CASE u = t
      BY <1>2, <2>1, <2>2, <3>1
    <3>2. CASE u # t
      BY <2>1, <2>2, <3>2 DEF RowInv
    <3> QED BY <3>1, <3>2
  <2> QED BY <2>1, <2>3 DEF RowInv, I_count
<1>8. CASE Finish(t)
  <2>1. /\ row' = [row EXCEPT ![t] = 0]
        /\ pc' = [pc EXCEPT ![t] = "idle"]
        /\ info' = info
        /\ \A u \in Thread : u # t => wi'[u] = wi[u]
    BY <1>5, <1>8 DEF Finish
  <2>2. row'[t] = 0 /\ pc'[t] = "idle"
        /\ \A u \in Thread : u # t => row'[u] = row[u] /\ pc'[u] = pc[u]
    BY <1>5, <2>1
  <2> QED BY <2>1, <2>2 DEF RowInv, I_count
<1> QED BY <1>6, <1>7, <1>8 DEF Step

LEMMA RowBegun ==
  ASSUME Types, NEW F, NEW n, FramesInv(F, n), RowInv,
         NEW t \in Thread, NEW s \in Screen, Init_work(t, s)
  PROVE  RowInv'
<1>1. /\ left[wi[t]] = {}
      /\ UNCHANGED <<pc, wi, row>>
      /\ \A v \in Work : v # wi[t] => info'[v] = info[v]
  BY DEF Init_work, Types, TypeOK
<1>2. ASSUME NEW u \in Thread, pc[u] # "idle"
      PROVE  info'[wi[u]] = info[wi[u]]
  <2>1. u \in left[wi[u]] /\ wi[u] \in Work
    BY <1>2, InFrame DEF FramesInv
  <2> QED BY <1>1, <2>1
<1> QED BY <1>1, <1>2 DEF RowInv, I_count

-----------------------------------------------------------------------------
(***************************************************************************)
(* One frame: its chooser, the permits of work_sem, the count of those who *)
(* still have rows, and the thread that hands the screen on.               *)
(***************************************************************************)
Before   == {"idle", "empty", "claim", "work_sem"}
Asking   == {"sync", "screen_sem", "own"}
Choosing == Asking \cup {"read", "compute", "wake"}
Handing  == {"clear", "give"}

(* The threads at a control point in P in frame k; those that have not     *)
(* entered frame k; those that have not counted themselves out of it.      *)
At(n, k, P) == {t \in Thread : n[t] = k /\ pc[t] \in P}
Out(n, k)   == {t \in Thread : n[t] < k \/ (n[t] = k /\ pc[t] \in Before)}
Todo(n, k)  ==
  {t \in Thread : \/ n[t] < k
                  \/ n[t] = k /\ pc[t] \in Before \cup Choosing \cup {"rows"}}

WorkState(ini, cnt, sem, O, D, Ch, Hd, Cg) ==
  /\ \A t \in Ch : ini /\ cnt = CORE_COUNT /\ sem = 0 /\ O = Thread \ {t}
  /\ ~ini => /\ cnt = CORE_COUNT /\ sem = 0
             /\ O = Thread \/ D = {}
  /\ ini /\ Ch = {} => sem = Cardinality(O) /\ cnt = Cardinality(D)
  /\ ini => O # Thread
  /\ ini /\ D = {} => Hd # {}
  /\ \A t \in Hd : ini /\ D = {}
  /\ \A t \in Cg : ~ini /\ D = {}
  /\ \A t, u \in Hd \cup Cg : t = u

WorkAt(n, k) ==
  WorkState(inited[Slot(k)], sem_count[Slot(k)], work_sem[Slot(k)],
            Out(n, k), Todo(n, k), At(n, k, Choosing), At(n, k, {"hand"}),
            At(n, k, Handing))

WorksInv(F, n) == \A k \in Frames(F) : WorkAt(n, k)

LEMMA ThreadFinite ==
  /\ IsFiniteSet(Thread) /\ Cardinality(Thread) = CORE_COUNT
  /\ CORE_COUNT \in Nat \ {0}
<1>1. PICK c \in Nat \ {0} : c = CORE_COUNT
  BY DeltaQAssumption
<1>2. 0 \in Int /\ c - 1 \in Int
  OBVIOUS
<1>3. IsFiniteSet(0 .. c - 1) /\ Cardinality(0 .. c - 1) = IF 0 > c - 1 THEN 0 ELSE (c - 1) - 0 + 1
  BY <1>2, FS_Interval
<1> QED BY <1>1, <1>3 DEF Thread

LEMMA ThreadSets ==
  ASSUME NEW S, S \subseteq Thread
  PROVE  /\ IsFiniteSet(S) /\ Cardinality(S) \in Nat
         /\ Cardinality(S) = 0 <=> S = {}
         /\ \A t \in S : /\ IsFiniteSet(S \ {t})
                         /\ Cardinality(S \ {t}) = Cardinality(S) - 1
<1>1. IsFiniteSet(S)
  BY ThreadFinite, FS_Subset
<1>2. Cardinality(S) \in Nat
  BY <1>1, FS_CardinalityType
<1>3. Cardinality(S) = 0 <=> S = {}
  BY <1>1, FS_EmptySet
<1>4. ASSUME NEW t \in S
      PROVE  IsFiniteSet(S \ {t}) /\ Cardinality(S \ {t}) = Cardinality(S) - 1
  BY <1>1, <1>4, FS_RemoveElement
<1> QED BY <1>1, <1>2, <1>3, <1>4

(* The sets of the other frames do not change with a step of thread t.     *)
LEMMA OtherFrame ==
  ASSUME NEW n \in [Thread -> Nat], NEW t \in Thread, NEW k \in Nat, k # n[t],
         \A u \in Thread : u # t => pc'[u] = pc[u]
  PROVE  /\ Out(n, k)' = Out(n, k) /\ Todo(n, k)' = Todo(n, k)
         /\ \A P : At(n, k, P)' = At(n, k, P)
BY DEF Out, Todo, At

(* What each step in a frame does to its sets.                             *)
LEMMA OwnFrame ==
  ASSUME NEW n \in [Thread -> Nat], NEW t \in Thread, NEW k, k = n[t],
         \A u \in Thread : u # t => pc'[u] = pc[u]
  PROVE  /\ \A P : At(n, k, P)' = IF pc'[t] \in P THEN At(n, k, P) \cup {t}
                                  ELSE At(n, k, P) \ {t}
         /\ Out(n, k)' = IF pc'[t] \in Before THEN Out(n, k) \cup {t}
                         ELSE Out(n, k) \ {t}
         /\ Todo(n, k)' = IF pc'[t] \in Before \cup Choosing \cup {"rows"}
                          THEN Todo(n, k) \cup {t} ELSE Todo(n, k) \ {t}
         /\ t \in Out(n, k) <=> pc[t] \in Before
         /\ t \in Todo(n, k) <=> pc[t] \in Before \cup Choosing \cup {"rows"}
         /\ \A P : t \in At(n, k, P) <=> pc[t] \in P
BY DEF Out, Todo, At

LEMMA SetFacts ==
  ASSUME NEW n \in [Thread -> Nat], NEW k \in Nat
  PROVE  /\ Out(n, k) \subseteq Todo(n, k) /\ Todo(n, k) \subseteq Thread
         /\ Out(n, k) \subseteq Thread
         /\ At(n, k, Choosing) \subseteq Todo(n, k)
         /\ \A P : At(n, k, P) \subseteq Thread
         /\ At(n, k, Choosing) \cap Out(n, k) = {}
         /\ At(n, k, {"hand"}) \cap Todo(n, k) = {}
         /\ At(n, k, Handing) \cap Todo(n, k) = {}
BY DEF Out, Todo, At, Choosing, Asking, Before, Handing

(* A step of thread t in its frame keeps the state of that frame's work.   *)
LEMMA WorkStep ==
  ASSUME Types, NEW F, NEW n, FramesInv(F, n),
         NEW t \in Thread, Step(t), pc[t] # "finish", WorkAt(n, n[t])
  PROVE  /\ WorkAt(n, n[t])'
         /\ pc[t] = "rows" => sem_count[wi[t]] >= 1
<1>1. /\ UNCHANGED <<left, wi>>
      /\ \A u \in Thread : u # t => pc'[u] = pc[u]
  BY StepLocal DEF split
<1>2. PICK k \in Nat : k = n[t] /\ n \in [Thread -> Nat]
  BY DEF FramesInv
<1>3. n[t] < F
  BY FramesStep
<1>4. PICK w \in Work : w = wi[t] /\ w = Slot(k)
  BY <1>2, <1>3, InFrame
<1>5. SynTypes /\ ThreadTypes
  BY TypesParts
<1> DEFINE ini == inited[w]
           cnt == sem_count[w]
           sem == work_sem[w]
           O   == Out(n, k)
           D   == Todo(n, k)
           Ch  == At(n, k, Choosing)
           Hd  == At(n, k, {"hand"})
           Cg  == At(n, k, Handing)
           O1  == Out(n, k)'
           D1  == Todo(n, k)'
           Ch1 == At(n, k, Choosing)'
           Hd1 == At(n, k, {"hand"})'
           Cg1 == At(n, k, Handing)'
<1>6. WorkState(ini, cnt, sem, O, D, Ch, Hd, Cg)
  BY <1>2, <1>4 DEF WorkAt
<1>7. ASSUME NEW i, inited'[w] = i, NEW c, sem_count'[w] = c,
             NEW m, work_sem'[w] = m,
             WorkState(i, c, m, O1, D1, Ch1, Hd1, Cg1)
      PROVE  WorkAt(n, n[t])'
  <2>1. WorkState(inited'[w], sem_count'[w], work_sem'[w],
                  O1, D1, Ch1, Hd1, Cg1)
    BY <1>7, Zenon
  <2> QED BY <1>2, <1>4, <2>1, Zenon DEF WorkAt, WorkState
<1>8. /\ O \subseteq D /\ D \subseteq Thread /\ Ch \subseteq D
      /\ Hd \subseteq Thread /\ Cg \subseteq Thread
      /\ Ch \cap O = {} /\ Hd \cap D = {} /\ Cg \cap D = {}
  BY <1>2, SetFacts
<1>9. /\ O1  = IF pc'[t] \in Before THEN O \cup {t} ELSE O \ {t}
      /\ D1  = IF pc'[t] \in Before \cup Choosing \cup {"rows"}
               THEN D \cup {t} ELSE D \ {t}
      /\ Ch1 = IF pc'[t] \in Choosing THEN Ch \cup {t} ELSE Ch \ {t}
      /\ Hd1 = IF pc'[t] \in {"hand"} THEN Hd \cup {t} ELSE Hd \ {t}
      /\ Cg1 = IF pc'[t] \in Handing THEN Cg \cup {t} ELSE Cg \ {t}
      /\ t \in O <=> pc[t] \in Before
      /\ t \in D <=> pc[t] \in Before \cup Choosing \cup {"rows"}
      /\ t \in Ch <=> pc[t] \in Choosing
      /\ t \in Hd <=> pc[t] \in {"hand"}
      /\ t \in Cg <=> pc[t] \in Handing
  <2>1. /\ O1  = IF pc'[t] \in Before THEN O \cup {t} ELSE O \ {t}
        /\ D1  = IF pc'[t] \in Before \cup Choosing \cup {"rows"}
                 THEN D \cup {t} ELSE D \ {t}
        /\ t \in O <=> pc[t] \in Before
        /\ t \in D <=> pc[t] \in Before \cup Choosing \cup {"rows"}
    BY <1>1, <1>2, OwnFrame, Zenon
  <2>2. ASSUME NEW P
        PROVE  /\ At(n, k, P)' = IF pc'[t] \in P THEN At(n, k, P) \cup {t}
                                  ELSE At(n, k, P) \ {t}
               /\ t \in At(n, k, P) <=> pc[t] \in P
    BY <1>1, <1>2 DEF At
  <2> QED BY <2>1, <2>2, Zenon
<1>10. /\ ini \in BOOLEAN /\ cnt \in Nat /\ sem \in Nat
       /\ inited \in [Work -> BOOLEAN]
       /\ sem_count \in [Work -> 0 .. CORE_COUNT]
       /\ work_sem \in [Work -> 0 .. CORE_COUNT - 1]
  BY <1>5, ThreadFinite DEF SynTypes
<1>11. pc[t] = "rows" => ini /\ Ch = {} /\ cnt >= 1 /\ Hd = {} /\ Cg = {}
  <2>1. SUFFICES ASSUME pc[t] = "rows"
                 PROVE  ini /\ Ch = {} /\ cnt >= 1 /\ Hd = {} /\ Cg = {}
    OBVIOUS
  <2>2. t \in D /\ t \notin O /\ t \notin Ch
    BY <1>9, <2>1 DEF Before, Choosing, Asking
  <2>3. ini
    BY <1>6, <2>2 DEF WorkState
  <2>4. Ch = {}
    <3>1. SUFFICES ASSUME NEW c \in Ch PROVE FALSE
      OBVIOUS
    <3>2. O = Thread \ {c}
      BY <1>6 DEF WorkState
    <3> QED BY <2>2, <3>1, <3>2
  <2>5. cnt = Cardinality(D)
    BY <1>6, <2>3, <2>4 DEF WorkState
  <2>6. Cardinality(D) \in Nat /\ Cardinality(D) # 0
    BY <1>8, <2>2, ThreadSets
  <2>7. Hd = {} /\ Cg = {}
    BY <1>6, <2>2, Zenon DEF WorkState
  <2> QED BY <2>3, <2>4, <2>5, <2>6, <2>7
<1> SUFFICES WorkAt(n, n[t])'
  BY <1>4, <1>11
<1> HIDE DEF ini, cnt, sem, O, D, Ch, Hd, Cg, O1, D1, Ch1, Hd1, Cg1
<1>12. ASSUME inited'[w] = ini, sem_count'[w] = cnt, work_sem'[w] = sem,
              O1 = O, D1 = D, Ch1 = Ch, Hd1 = Hd, Cg1 = Cg
       PROVE  WorkAt(n, n[t])'
  BY <1>6, <1>7, <1>12
<1> USE DEF Before, Choosing, Asking, Handing
<1>13. CASE Encode(t) \/ Need_sync(t) \/ Screen_sem_acquire(t)
            \/ Screen_owned(t) \/ Sample_row(t)
            \/ (\E q \in Level : Compute_dq(t, q)) \/ Compress(t)
  <2>1. UNCHANGED <<inited, sem_count, work_sem>>
    BY <1>13 DEF Encode, Need_sync, Screen_sem_acquire, Screen_owned,
       Sample_row, Compute_dq, Compress, syn
  <2>2. \/ pc[t] = "idle" /\ pc'[t] \in {"empty", "claim"}
        \/ /\ pc[t] \in Choosing
           /\ pc'[t] \in Choosing
        \/ pc[t] = "rows" /\ pc'[t] = "rows"
    BY <1>5, <1>13, StepEdge
  <2>3. O1 = O /\ D1 = D /\ Ch1 = Ch /\ Hd1 = Hd /\ Cg1 = Cg
    BY <1>9, <2>2
  <2>4. inited'[w] = ini /\ sem_count'[w] = cnt /\ work_sem'[w] = sem
    BY <2>1 DEF ini, cnt, sem
  <2> QED BY <1>12, <2>3, <2>4, Zenon
<1>14. CASE Claim(t)
  <2>1. /\ inited' = [inited EXCEPT ![w] = TRUE]
        /\ UNCHANGED <<sem_count, work_sem>>
    BY <1>4, <1>14 DEF Claim
  <2>2. pc[t] = "claim"
    BY <1>14 DEF Claim
  <2>3. inited'[w] = TRUE
    BY <1>10, <2>1
  <2>4. CASE ini
    <3>1. pc'[t] = "work_sem"
      BY <1>4, <1>5, <1>14, <2>4, StepEdge DEF ini
    <3>2. O1 = O /\ D1 = D /\ Ch1 = Ch /\ Hd1 = Hd /\ Cg1 = Cg
      BY <1>9, <2>2, <3>1
    <3>3. inited'[w] = ini
      BY <1>10, <2>3, <2>4
    <3>4. sem_count'[w] = cnt /\ work_sem'[w] = sem
      BY <2>1 DEF cnt, sem
    <3> QED BY <1>12, <3>2, <3>3, <3>4, Zenon
  <2>5. CASE ~ini
    <3>1. pc'[t] \in {"read", "sync"}
      BY <1>4, <1>5, <1>14, <2>5, StepEdge DEF ini
    <3>2. cnt = CORE_COUNT /\ sem = 0 /\ O = Thread
      <4>1. t \in D
        BY <1>9, <2>2
      <4> QED BY <1>6, <2>5, <4>1 DEF WorkState
    <3>3. D = Thread /\ Ch = {} /\ Hd = {} /\ Cg = {}
      BY <1>8, <3>2
    <3>4. O1 = Thread \ {t} /\ D1 = Thread /\ Ch1 = {t} /\ Hd1 = {} /\ Cg1 = {}
      BY <1>9, <2>2, <3>1, <3>2, <3>3
    <3>5. D1 # {}
      BY <3>4
    <3>6. WorkState(TRUE, cnt, sem, O1, D1, Ch1, Hd1, Cg1)
      BY <3>2, <3>4, <3>5 DEF WorkState
    <3>7. sem_count'[w] = cnt /\ work_sem'[w] = sem
      BY <2>1 DEF cnt, sem
    <3> QED BY <1>7, <2>3, <3>6, <3>7, Zenon
  <2> QED BY <2>4, <2>5
<1>15. CASE Release_work_sem(t)
  <2>1. /\ work_sem' = [work_sem EXCEPT ![w] =
                          Released(@, CORE_COUNT - 1, CORE_COUNT - 1)]
        /\ UNCHANGED <<inited, sem_count>>
    BY <1>4, <1>15 DEF Release_work_sem
  <2>2. pc[t] = "wake" /\ pc'[t] = "rows"
    BY <1>5, <1>15, StepEdge
  <2>3. t \in Ch
    BY <1>9, <2>2
  <2>4. ini /\ cnt = CORE_COUNT /\ sem = 0 /\ O = Thread \ {t}
    BY <1>6, <2>3 DEF WorkState
  <2>5. D = Thread /\ Ch = {t} /\ Hd = {} /\ Cg = {}
    BY <1>8, <2>3, <2>4
  <2>6. O1 = O /\ D1 = Thread /\ Ch1 = {} /\ Hd1 = {} /\ Cg1 = {}
    BY <1>9, <2>2, <2>4, <2>5
  <2>7. /\ Cardinality(Thread) = CORE_COUNT
        /\ Cardinality(Thread \ {t}) = CORE_COUNT - 1
    BY ThreadFinite, ThreadSets
  <2>8. work_sem'[w] = CORE_COUNT - 1
    <3>1. work_sem'[w] = Released(sem, CORE_COUNT - 1, CORE_COUNT - 1)
      BY <1>10, <2>1 DEF sem
    <3> QED BY <2>4, <3>1, ThreadFinite DEF Released
  <2>9. WorkState(ini, cnt, work_sem'[w], O1, D1, Ch1, Hd1, Cg1)
    BY <2>4, <2>6, <2>7, <2>8 DEF WorkState
  <2>10. inited'[w] = ini /\ sem_count'[w] = cnt
    BY <2>1 DEF ini, cnt
  <2> QED BY <1>7, <2>9, <2>10, Zenon
<1>16. CASE Work_sem_acquire(t)
  <2>1. /\ sem > 0
        /\ work_sem' = [work_sem EXCEPT ![w] = IF @ > 0 THEN @ - 1 ELSE @]
        /\ UNCHANGED <<inited, sem_count>>
    BY <1>4, <1>16 DEF Work_sem_acquire, May_enter, sem
  <2>2. pc[t] \in {"work_sem", "empty"} /\ pc'[t] = "rows"
    BY <1>5, <1>16, StepEdge
  <2>3. ini /\ Ch = {}
    <3>1. sem # 0
      BY <1>10, <2>1
    <3>2. ini
      BY <1>6, <3>1 DEF WorkState
    <3>3. \A c \in Ch : sem = 0
      BY <1>6 DEF WorkState
    <3> QED BY <3>1, <3>2, <3>3
  <2>4. work_sem'[w] = sem - 1
    BY <1>10, <2>1 DEF sem
  <2>5. t \in O /\ sem = Cardinality(O) /\ cnt = Cardinality(D)
    BY <1>6, <1>9, <2>2, <2>3 DEF WorkState
  <2>6. Cardinality(O \ {t}) = sem - 1
    BY <1>8, <2>5, ThreadSets
  <2>7. Hd = {} /\ Cg = {}
    BY <1>6, <1>8, <2>5, Zenon DEF WorkState
  <2>8. O1 = O \ {t} /\ D1 = D /\ Ch1 = {} /\ Hd1 = {} /\ Cg1 = {}
    BY <1>9, <2>2, <2>3, <2>7
  <2>9. t \in D /\ t \notin O1
    BY <1>8, <2>5, <2>8
  <2>10. WorkState(ini, cnt, work_sem'[w], O1, D1, Ch1, Hd1, Cg1)
    BY <2>3, <2>4, <2>5, <2>6, <2>8, <2>9 DEF WorkState
  <2>11. inited'[w] = ini /\ sem_count'[w] = cnt
    BY <2>1 DEF ini, cnt
  <2> QED BY <1>7, <2>10, <2>11, Zenon
<1>17. CASE Work_sem_count(t)
  <2>1. /\ sem_count' = [sem_count EXCEPT ![w] = @ - 1]
        /\ UNCHANGED <<inited, work_sem>>
    BY <1>4, <1>17 DEF Work_sem_count
  <2>2. pc[t] = "rows" /\ pc'[t] = IF cnt = 1 THEN "hand" ELSE "finish"
    BY <1>4, <1>5, <1>17, StepEdge DEF cnt
  <2>3. ini /\ Ch = {} /\ cnt >= 1 /\ Hd = {} /\ Cg = {}
    BY <1>11, <2>2
  <2>4. sem_count'[w] = cnt - 1
    BY <1>10, <2>1 DEF cnt
  <2>5. t \in D /\ t \notin O /\ sem = Cardinality(O) /\ cnt = Cardinality(D)
    BY <1>6, <1>9, <2>2, <2>3 DEF WorkState
  <2>6. Cardinality(D \ {t}) = cnt - 1 /\ (cnt - 1 = 0 <=> D \ {t} = {})
    <3>1. D \ {t} \subseteq Thread
      BY <1>8
    <3> QED BY <1>8, <2>5, <3>1, ThreadSets
  <2>7. O1 = O /\ D1 = D \ {t} /\ Ch1 = {} /\ Cg1 = {}
        /\ Hd1 = IF cnt = 1 THEN {t} ELSE {}
    BY <1>9, <2>2, <2>3, <2>5
  <2>8. cnt = 1 <=> D1 = {}
    BY <1>10, <2>6, <2>7
  <2>9. WorkState(ini, sem_count'[w], sem, O1, D1, Ch1, Hd1, Cg1)
    <3>1. CASE cnt = 1
      BY <2>3, <2>4, <2>5, <2>6, <2>7, <2>8, <3>1 DEF WorkState
    <3>2. CASE cnt # 1
      BY <2>3, <2>4, <2>5, <2>6, <2>7, <2>8, <3>2 DEF WorkState
    <3> QED BY <3>1, <3>2
  <2>10. inited'[w] = ini /\ work_sem'[w] = sem
    BY <2>1 DEF ini, sem
  <2> QED BY <1>7, <2>9, <2>10, Zenon
<1>18. CASE Hand_on(t)
  <2>1. /\ sem_count' = [sem_count EXCEPT ![w] = CORE_COUNT]
        /\ inited' = [inited EXCEPT ![w] = FALSE]
        /\ UNCHANGED work_sem
    BY <1>4, <1>18 DEF Hand_on
  <2>2. pc[t] = "hand" /\ pc'[t] \in {"clear", "give", "finish"}
    BY <1>5, <1>18, StepEdge
  <2>3. t \in Hd
    BY <1>9, <2>2
  <2>4. ini /\ D = {} /\ O = {} /\ Ch = {}
    BY <1>6, <1>8, <2>3 DEF WorkState
  <2>5. Hd = {t} /\ Cg = {}
    <3>1. \A u \in Hd : u = t
      BY <1>6, <2>3 DEF WorkState
    <3>2. \A u \in Cg : ~ini
      BY <1>6 DEF WorkState
    <3> QED BY <2>3, <2>4, <3>1, <3>2
  <2>6. sem = 0
    <3>1. sem = Cardinality({})
      BY <1>6, <2>4 DEF WorkState
    <3> QED BY <3>1, FS_EmptySet
  <2>7. sem_count'[w] = CORE_COUNT /\ inited'[w] = FALSE
    BY <1>10, <2>1
  <2>8. O1 = {} /\ D1 = {} /\ Ch1 = {} /\ Hd1 = {} /\ Cg1 \subseteq {t}
    BY <1>9, <2>2, <2>4, <2>5
  <2>9. WorkState(FALSE, CORE_COUNT, sem, O1, D1, Ch1, Hd1, Cg1)
    BY <2>6, <2>8 DEF WorkState
  <2>10. work_sem'[w] = sem
    BY <2>1 DEF sem
  <2> QED BY <1>7, <2>7, <2>9, <2>10, Zenon
<1>19. CASE Clear_screen_bool(t) \/ Release_screen_sem(t)
  <2>1. UNCHANGED <<inited, sem_count, work_sem>>
    BY <1>19 DEF Clear_screen_bool, Release_screen_sem
  <2>2. pc[t] \in Handing /\ pc'[t] = "finish"
    BY <1>5, <1>19, StepEdge
  <2>3. O1 = O /\ D1 = D /\ Ch1 = Ch /\ Hd1 = Hd /\ Cg1 = Cg \ {t}
    BY <1>9, <2>2
  <2>4. WorkState(ini, cnt, sem, O1, D1, Ch1, Hd1, Cg1)
    BY <1>6, <2>3 DEF WorkState
  <2>5. inited'[w] = ini /\ sem_count'[w] = cnt /\ work_sem'[w] = sem
    BY <2>1 DEF ini, cnt, sem
  <2> QED BY <1>7, <2>4, <2>5, Zenon
<1>20. ~Finish(t)
  BY DEF Finish
<1> QED BY <1>13, <1>14, <1>15, <1>16, <1>17, <1>18, <1>19, <1>20 DEF Step

LEMMA WorksStep ==
  ASSUME Types, NEW F, NEW n, FramesInv(F, n), WorksInv(F, n),
         NEW t \in Thread, Step(t), pc[t] # "finish"
  PROVE  WorksInv(F, n)'
<1>1. n[t] \in Frames(F) /\ F \in Nat /\ n \in [Thread -> Nat]
      /\ \A k \in Frames(F) : k # n[t] => Slot(k) # wi[t]
  BY FramesStep, InFrame DEF FramesInv
<1>2. SUFFICES ASSUME NEW k \in Frames(F)
               PROVE  WorkAt(n, k)'
  BY DEF WorksInv
<1>3. CASE k = n[t]
  <2>1. WorkAt(n, n[t])
    BY <1>1 DEF WorksInv
  <2> QED BY <1>3, <2>1, WorkStep
<1>4. CASE k # n[t]
  <2>1. k \in Nat /\ Slot(k) \in Work /\ Slot(k) # wi[t]
    BY <1>1, <1>4, SlotFacts
  <2>2. /\ inited'[Slot(k)] = inited[Slot(k)]
        /\ sem_count'[Slot(k)] = sem_count[Slot(k)]
        /\ work_sem'[Slot(k)] = work_sem[Slot(k)]
    BY <2>1, StepLocal
  <2>3. /\ Out(n, k)' = Out(n, k) /\ Todo(n, k)' = Todo(n, k)
        /\ \A P : At(n, k, P)' = At(n, k, P)
    <3>1. \A u \in Thread : u # t => pc'[u] = pc[u]
      BY StepLocal
    <3> QED BY <1>1, <1>4, <2>1, <3>1 DEF Out, Todo, At
  <2>4. WorkAt(n, k)
    BY DEF WorksInv
  <2>5. /\ At(n, k, Choosing)' = At(n, k, Choosing)
        /\ At(n, k, {"hand"})' = At(n, k, {"hand"})
        /\ At(n, k, Handing)' = At(n, k, Handing)
    BY <2>3
  <2> QED BY <2>2, <2>3, <2>4, <2>5 DEF WorkAt
<1> QED BY <1>3, <1>4

(* A thread that leaves its frame is outside the next one.                 *)
LEMMA FinishSets ==
  ASSUME Types, NEW F, NEW n, FramesInv(F, n),
         NEW t \in Thread, Finish(t), NEW k \in Nat
  PROVE  LET m == [n EXCEPT ![t] = n[t] + 1] IN
         /\ Out(m, k)' = Out(n, k) /\ Todo(m, k)' = Todo(n, k)
         /\ \A P : "idle" \notin P /\ "finish" \notin P =>
              At(m, k, P)' = At(n, k, P)
<1> DEFINE m == [n EXCEPT ![t] = n[t] + 1]
<1>1. n \in [Thread -> Nat] /\ pc \in [Thread -> Control]
  BY DEF FramesInv, Types, TypeOK
<1>2. pc[t] = "finish" /\ pc' = [pc EXCEPT ![t] = "idle"]
  BY DEF Finish, Goto
<1>3. /\ pc'[t] = "idle" /\ m[t] = n[t] + 1
      /\ \A u \in Thread : u # t => pc'[u] = pc[u] /\ m[u] = n[u]
  BY <1>1, <1>2
<1> HIDE DEF m
<1>4. Out(m, k)' = Out(n, k)
  <2>1. ASSUME NEW u \in Thread
        PROVE  u \in Out(m, k)' <=> u \in Out(n, k)
    <3>1. CASE u = t
      BY <1>1, <1>2, <1>3, <3>1 DEF Out, Before
    <3>2. CASE u # t
      BY <1>3, <3>2 DEF Out
    <3> QED BY <3>1, <3>2
  <2> QED BY <2>1 DEF Out
<1>5. Todo(m, k)' = Todo(n, k)
  <2>1. ASSUME NEW u \in Thread
        PROVE  u \in Todo(m, k)' <=> u \in Todo(n, k)
    <3>1. CASE u = t
      BY <1>1, <1>2, <1>3, <3>1 DEF Todo, Before, Choosing, Asking
    <3>2. CASE u # t
      BY <1>3, <3>2 DEF Todo
    <3> QED BY <3>1, <3>2
  <2> QED BY <2>1 DEF Todo
<1>6. ASSUME NEW P, "idle" \notin P, "finish" \notin P
      PROVE  At(m, k, P)' = At(n, k, P)
  <2>1. ASSUME NEW u \in Thread
        PROVE  u \in At(m, k, P)' <=> u \in At(n, k, P)
    <3>1. CASE u = t
      BY <1>2, <1>3, <1>6, <3>1 DEF At
    <3>2. CASE u # t
      BY <1>3, <3>2 DEF At
    <3> QED BY <3>1, <3>2
  <2> QED BY <2>1 DEF At
<1> QED BY <1>4, <1>5, <1>6 DEF m

LEMMA WorksFinished ==
  ASSUME Types, NEW F, NEW n, FramesInv(F, n), WorksInv(F, n),
         NEW t \in Thread, Finish(t)
  PROVE  WorksInv(F, [n EXCEPT ![t] = n[t] + 1])'
<1> DEFINE m == [n EXCEPT ![t] = n[t] + 1]
<1>1. SUFFICES ASSUME NEW k \in Frames(F)
               PROVE  WorkAt(m, k)'
  BY DEF WorksInv
<1>2. k \in Nat
  BY DEF Frames, FramesInv
<1>3. UNCHANGED <<inited, sem_count, work_sem>>
  BY DEF Finish, syn
<1>4. WorkAt(n, k)
  BY DEF WorksInv
<1>5. /\ Out(m, k)' = Out(n, k) /\ Todo(m, k)' = Todo(n, k)
      /\ \A P : "idle" \notin P /\ "finish" \notin P =>
           At(m, k, P)' = At(n, k, P)
  BY <1>2, FinishSets
<1>6. \A P \in {Choosing, {"hand"}, Handing} : "idle" \notin P /\ "finish" \notin P
  BY DEF Choosing, Asking, Handing
<1>7. \A P \in {Choosing, {"hand"}, Handing} : At(m, k, P)' = At(n, k, P)
  BY <1>5, <1>6
<1> HIDE DEF m
<1> QED BY <1>3, <1>4, <1>5, <1>7 DEF WorkAt

(* A work that everybody has left is as it was at the start.               *)
LEMMA LeftWork ==
  ASSUME NEW F, NEW n, FramesInv(F, n), WorksInv(F, n),
         NEW k \in Frames(F), \A u \in Thread : k < n[u]
  PROVE  /\ ~inited[Slot(k)]
         /\ sem_count[Slot(k)] = CORE_COUNT /\ work_sem[Slot(k)] = 0
<1>1. WorkState(inited[Slot(k)], sem_count[Slot(k)], work_sem[Slot(k)],
            Out(n, k), Todo(n, k), At(n, k, Choosing), At(n, k, {"hand"}),
            At(n, k, Handing))
  BY DEF WorksInv, WorkAt
<1>2. n \in [Thread -> Nat] /\ k \in Nat
  BY DEF FramesInv, Frames
<1>3. Todo(n, k) = {} /\ At(n, k, {"hand"}) = {}
  BY <1>2 DEF Todo, At
<1> QED BY <1>1, <1>3 DEF WorkState

LEMMA WorksBegun ==
  ASSUME Types, NEW F, NEW n, FramesInv(F, n), WorksInv(F, n),
         NEW t \in Thread, NEW s \in Screen, Init_work(t, s)
  PROVE  WorksInv(F + 1, n)' /\ ~inited[Slot(F)]
<1>1. /\ \A u \in Thread : F < n[u] + WORK_COUNT
      /\ \A k \in Frames(F + 1) : k = F \/ k \in Frames(F)
  BY FramesBegun
<1>2. F \in Nat /\ F >= WORK_COUNT /\ n \in [Thread -> Nat]
  BY DEF FramesInv
<1>3. UNCHANGED <<inited, sem_count, work_sem, pc>>
  BY DEF Init_work, syn
<1>4. PICK w \in Nat \ {0} : w = WORK_COUNT
  BY DeltaQAssumption
<1>5. PICK k0 \in Nat : F = k0 + w
  BY <1>2, <1>4
<1>6. k0 \in Frames(F)
  BY <1>4, <1>5 DEF Frames
<1>7. Slot(F) = Slot(k0)
  <2>1. (k0 + w) % w = k0 % w
    BY ModWrap
  <2> QED BY <1>4, <1>5, <2>1 DEF Slot
<1>8. \A u \in Thread : k0 < n[u]
  BY <1>1, <1>2, <1>4, <1>5
<1>9. /\ ~inited[Slot(F)]
      /\ sem_count[Slot(F)] = CORE_COUNT /\ work_sem[Slot(F)] = 0
  BY <1>6, <1>7, <1>8, LeftWork
<1>10. /\ Out(n, F) = Thread /\ At(n, F, Choosing) = {}
       /\ At(n, F, {"hand"}) = {} /\ At(n, F, Handing) = {}
  <2>1. \A u \in Thread : n[u] < F \/ (n[u] = F /\ pc[u] = "idle")
    BY <1>2 DEF FramesInv
  <2> QED BY <1>2, <2>1 DEF Out, At, Before, Choosing, Asking, Handing
<1>11. WorkAt(n, F)
  BY <1>9, <1>10 DEF WorkAt, WorkState
<1>12. ASSUME NEW k \in Frames(F + 1)
       PROVE  WorkAt(n, k)'
  <2>1. WorkAt(n, k)
    BY <1>1, <1>11 DEF WorksInv
  <2> QED BY <1>3, <2>1 DEF WorkAt, Out, Todo, At
<1> QED BY <1>9, <1>12 DEF WorksInv

(* The thread that chooses a frame's level is the only one that chooses,   *)
(* and its frame the newest in progress.                                   *)
LEMMA OneChooser ==
  ASSUME NEW F, NEW n, FramesInv(F, n), WorksInv(F, n),
         NEW k \in Frames(F), NEW t \in At(n, k, Choosing)
  PROVE  /\ inited[Slot(k)]
         /\ \A u \in Thread : u # t => u \in Out(n, k)
         /\ \A u \in Thread : pc[u] \in Choosing => u = t
         /\ \A j \in Frames(F) : inited[Slot(j)] => j <= k
<1>1. inited[Slot(k)] /\ Out(n, k) = Thread \ {t}
  BY DEF WorksInv, WorkAt, WorkState
<1>2. n \in [Thread -> Nat] /\ k \in Nat /\ t \in Thread /\ n[t] = k
      /\ pc[t] \in Choosing /\ F \in Nat
  BY DEF FramesInv, Frames, At
<1>3. ASSUME NEW u \in Thread, u # t
      PROVE  u \in Out(n, k) /\ n[u] <= k
  BY <1>1, <1>2, <1>3 DEF Out
<1>4. ASSUME NEW u \in Thread, pc[u] \in Choosing, u # t
      PROVE  FALSE
  <2>1. n[u] < k
    BY <1>2, <1>3, <1>4 DEF Out, Before, Choosing, Asking
  <2>2. n[u] < F
    BY <1>4 DEF FramesInv, Choosing, Asking
  <2>3. n[u] \in Frames(F) /\ u \in At(n, n[u], Choosing)
    BY <1>4, <2>2, InFrame DEF At
  <2>4. Out(n, n[u]) = Thread \ {u}
    BY <2>3 DEF WorksInv, WorkAt, WorkState
  <2>5. t \in Out(n, n[u])
    BY <1>2, <1>4, <2>4
  <2> QED BY <1>2, <2>1, <2>5 DEF Out
<1>5. ASSUME NEW j \in Frames(F), inited[Slot(j)]
      PROVE  j <= k
  <2>1. SUFFICES ASSUME ~(j <= k) PROVE FALSE
    OBVIOUS
  <2>2. j \in Nat /\ j > k
    BY <1>2, <2>1 DEF Frames
  <2>3. Out(n, j) # Thread
    BY <1>5 DEF WorksInv, WorkAt, WorkState
  <2>4. \A u \in Thread : n[u] < j
    BY <1>2, <1>3, <2>2
  <2> QED BY <2>3, <2>4 DEF Out
<1> QED BY <1>1, <1>3, <1>4, <1>5

(* A thread with rows before it has entered a frame whose level is chosen. *)
LEMMA RowsStarted ==
  ASSUME NEW F, NEW n, FramesInv(F, n), WorksInv(F, n),
         NEW k \in Frames(F), NEW t \in Thread, n[t] = k, pc[t] = "rows"
  PROVE  inited[Slot(k)] /\ At(n, k, Choosing) = {}
<1>1. n \in [Thread -> Nat] /\ k \in Nat
  BY DEF FramesInv, Frames
<1>2. t \in Todo(n, k) /\ t \notin Out(n, k) /\ t \notin At(n, k, Choosing)
  BY <1>1 DEF Todo, Out, At, Before, Choosing, Asking
<1>3. WorkState(inited[Slot(k)], sem_count[Slot(k)], work_sem[Slot(k)],
            Out(n, k), Todo(n, k), At(n, k, Choosing), At(n, k, {"hand"}),
            At(n, k, Handing))
  BY DEF WorksInv, WorkAt
<1>4. inited[Slot(k)]
  BY <1>2, <1>3 DEF WorkState
<1>5. ASSUME NEW c \in At(n, k, Choosing) PROVE FALSE
  <2>1. Out(n, k) = Thread \ {c}
    BY <1>3 DEF WorkState
  <2> QED BY <1>2, <1>5, <2>1
<1> QED BY <1>4, <1>5

(* A frame that is handed on is the oldest in progress.                    *)
LEMMA HandOldest ==
  ASSUME NEW F, NEW n, FramesInv(F, n), WorksInv(F, n),
         NEW k \in Frames(F), Todo(n, k) = {},
         NEW j \in Frames(F), inited[Slot(j)]
  PROVE  k <= j
<1>1. n \in [Thread -> Nat] /\ k \in Nat /\ j \in Nat
  BY DEF FramesInv, Frames
<1>2. SUFFICES ASSUME j < k PROVE FALSE
  BY <1>1
<1>3. \A u \in Thread : n[u] >= k
  BY <1>1 DEF Todo
<1>4. \A u \in Thread : j < n[u]
  BY <1>1, <1>2, <1>3
<1> QED BY <1>4, LeftWork

-----------------------------------------------------------------------------
(***************************************************************************)
(* One screen: the frames that have it, at most two, and how screen_sem    *)
(* and screen_bool pass it on.  With one thread there is nothing to share. *)
(***************************************************************************)
Started(F, n, s) ==
  {k \in Frames(F) : /\ inited[Slot(k)]
                     /\ info[Slot(k)].s = s
                     /\ At(n, k, Asking) = {}}

AtScreen(s, P) == {t \in Thread : pc[t] \in P /\ info[wi[t]].s = s}

ScreenState(sem, bool, li, St, Own, Clear, Give, n) ==
  /\ St # {} => sem = 0 /\ Own = {} /\ Give = {}
  /\ \A k \in St : info[Slot(k)].rows = li
  /\ sem # 0 => Own = {} /\ Clear = {} /\ Give = {}
  /\ Own # {} => Clear = {} /\ Give = {}
  /\ Give # {} => St = {} /\ bool /\ Clear = {}
  /\ \A t, u \in Give : t = u
  /\ \A t, u \in Clear : t = u
  /\ Clear # {} => bool /\ St # {}
  /\ \A t \in Clear, k \in St : k > n[t]
  /\ \A j, k \in St : j # k => bool /\ Clear = {}
  /\ \A i, j, k \in St : i = j \/ i = k \/ j = k
  /\ St = {} /\ Give = {} => bool \/ li = 0
  /\ \A k \in St : St = {k} /\ Clear = {} => ~bool

ScreenAt(F, n, s) ==
  ScreenState(screen_sem[s], screen_bool[s], last_interval[s],
              Started(F, n, s), AtScreen(s, {"own"}), AtScreen(s, {"clear"}),
              AtScreen(s, {"give"}), n)

ScreensInv(F, n) == CORE_COUNT > 1 => \A s \in Screen : ScreenAt(F, n, s)

(* The frames that have a screen, across a step of thread t.               *)
LEMMA StartedStep ==
  ASSUME Types, NEW F, NEW n, FramesInv(F, n),
         NEW t \in Thread, Step(t), pc[t] # "finish", NEW s \in Screen
  PROVE  LET k == n[t]
             St == Started(F, n, s)
             St1 == Started(F, n, s)' IN
         /\ \A j : j # k => (j \in St1 <=> j \in St)
         /\ k \in St <=> inited[wi[t]] /\ info[wi[t]].s = s
                           /\ At(n, k, Asking) = {}
         /\ k \in St1 <=> inited'[wi[t]] /\ info[wi[t]].s = s
                            /\ At(n, k, Asking)' = {}
         /\ pc[t] \notin Asking /\ pc'[t] \notin Asking =>
              At(n, k, Asking)' = At(n, k, Asking)
<1>1. n[t] \in Frames(F) /\ F \in Nat /\ n \in [Thread -> Nat]
      /\ wi[t] = Slot(n[t])
      /\ \A k \in Frames(F) : k # n[t] => Slot(k) # wi[t]
  BY FramesStep, InFrame DEF FramesInv
<1>2. info' = info /\ \A u \in Thread : u # t => pc'[u] = pc[u]
  BY StepLocal DEF split
<1>3. ASSUME NEW j, j # n[t]
      PROVE  j \in Started(F, n, s)' <=> j \in Started(F, n, s)
  <2>1. ASSUME j \in Frames(F)
        PROVE  inited'[Slot(j)] = inited[Slot(j)]
               /\ At(n, j, Asking)' = At(n, j, Asking)
    <3>1. Slot(j) \in Work /\ Slot(j) # wi[t]
      BY <1>1, <1>3, <2>1, SlotFacts
    <3>2. inited'[Slot(j)] = inited[Slot(j)]
      BY <3>1, StepLocal
    <3>3. At(n, j, Asking)' = At(n, j, Asking)
      BY <1>2, <1>3 DEF At
    <3> QED BY <3>2, <3>3
  <2> QED BY <1>2, <2>1 DEF Started
<1>4. pc[t] \notin Asking /\ pc'[t] \notin Asking =>
        At(n, n[t], Asking)' = At(n, n[t], Asking)
  BY <1>2 DEF At
<1>5. n[t] \in Started(F, n, s) <=> inited[wi[t]] /\ info[wi[t]].s = s
                                      /\ At(n, n[t], Asking) = {}
  BY <1>1 DEF Started
<1>6. n[t] \in Started(F, n, s)' <=> inited'[wi[t]] /\ info[wi[t]].s = s
                                       /\ At(n, n[t], Asking)' = {}
  BY <1>1, <1>2 DEF Started
<1> QED BY <1>3, <1>4, <1>5, <1>6

(* The threads at a control point in P, across a step of thread t.         *)
LEMMA AtScreenStep ==
  ASSUME Types, NEW t \in Thread, Step(t), pc[t] # "finish",
         NEW s \in Screen, NEW P
  PROVE  /\ AtScreen(s, P)' =
              IF pc'[t] \in P /\ info[wi[t]].s = s
              THEN AtScreen(s, P) \cup {t} ELSE AtScreen(s, P) \ {t}
         /\ t \in AtScreen(s, P) <=> pc[t] \in P /\ info[wi[t]].s = s
<1>1. info' = info /\ wi' = wi /\ \A u \in Thread : u # t => pc'[u] = pc[u]
  BY StepLocal DEF split
<1> QED BY <1>1 DEF AtScreen

(* How the state of a screen changes: taken over by overtaking ...         *)
LEMMA Overtakes ==
  ASSUME NEW sem, NEW li, NEW St, NEW Own, NEW Clear, NEW Give, NEW n, NEW k,
         ScreenState(sem, FALSE, li, St, Own, Clear, Give, n),
         li # 0, info[Slot(k)].rows = li, k \notin St
  PROVE  ScreenState(sem, TRUE, li, St \cup {k}, Own, Clear, Give, n)
<1>1. Give = {} /\ Clear = {}
  BY DEF ScreenState
<1>2. St # {} /\ \A i, j \in St : i = j
  BY <1>1 DEF ScreenState
<1>3. PICK j : St = {j}
  BY <1>2
<1>4. sem = 0 /\ Own = {} /\ info[Slot(j)].rows = li
  BY <1>3 DEF ScreenState
<1>5. St \cup {k} = {j, k} /\ j # k
  BY <1>3
<1> QED BY <1>1, <1>4, <1>5 DEF ScreenState

(* ... acquired, owned ...                                                 *)
LEMMA Acquires ==
  ASSUME NEW bool, NEW li, NEW St, NEW Own, NEW Clear, NEW Give, NEW n, NEW t,
         ScreenState(1, bool, li, St, Own, Clear, Give, n)
  PROVE  ScreenState(0, bool, li, St, Own \cup {t}, Clear, Give, n)
<1>1. St = {} /\ Own = {} /\ Clear = {} /\ Give = {}
  BY DEF ScreenState
<1> QED BY <1>1 DEF ScreenState

LEMMA Owns ==
  ASSUME NEW sem, NEW bool, NEW li, NEW St, NEW Own, NEW Clear, NEW Give,
         NEW n, NEW k, NEW t,
         ScreenState(sem, bool, li, St, Own, Clear, Give, n),
         Own = {t}
  PROVE  ScreenState(sem, FALSE, info[Slot(k)].rows, St \cup {k}, Own \ {t},
                     Clear, Give, n)
<1>1. St = {} /\ Clear = {} /\ Give = {} /\ sem = 0
  BY DEF ScreenState
<1>2. St \cup {k} = {k} /\ Own \ {t} = {}
  BY <1>1
<1> QED BY <1>1, <1>2 DEF ScreenState

(* ... and handed on, to the frame that overtook or to the next.           *)
LEMMA HandsOver ==
  ASSUME NEW sem, NEW li, NEW St, NEW Own, NEW Clear, NEW Give, NEW n, NEW k,
         NEW t, n[t] = k,
         ScreenState(sem, TRUE, li, St, Own, Clear, Give, n),
         k \in St, \A j \in St : j # k => j > k, Clear = {}
  PROVE  ScreenState(sem, TRUE, li, St \ {k}, Own, Clear \cup {t}, Give, n)
<1>1. sem = 0 /\ Own = {} /\ Give = {}
  BY DEF ScreenState
<1>2. St # {k}
  BY DEF ScreenState
<1>3. PICK j \in St : j # k
  BY <1>2
<1>4. \A i \in St : i = j \/ i = k
  BY <1>3 DEF ScreenState
<1>5. St \ {k} = {j} /\ j > k /\ info[Slot(j)].rows = li
  BY <1>3, <1>4 DEF ScreenState
<1>6. Clear \cup {t} = {t}
  OBVIOUS
<1> QED BY <1>1, <1>5, <1>6 DEF ScreenState

LEMMA HandsBack ==
  ASSUME NEW sem, NEW li, NEW St, NEW Own, NEW Clear, NEW Give, NEW n, NEW k,
         NEW t,
         ScreenState(sem, FALSE, li, St, Own, Clear, Give, n), k \in St
  PROVE  ScreenState(sem, TRUE, li, St \ {k}, Own, Clear, Give \cup {t}, n)
<1>1. sem = 0 /\ Own = {} /\ Give = {} /\ Clear = {}
  BY DEF ScreenState
<1>2. \A j \in St : j = k
  BY DEF ScreenState
<1>3. St \ {k} = {} /\ Give \cup {t} = {t}
  BY <1>1, <1>2
<1> QED BY <1>1, <1>3 DEF ScreenState

LEMMA Clears ==
  ASSUME NEW sem, NEW bool, NEW li, NEW St, NEW Own, NEW Clear, NEW Give,
         NEW n, NEW t,
         ScreenState(sem, bool, li, St, Own, Clear, Give, n), t \in Clear
  PROVE  ScreenState(sem, FALSE, li, St, Own, Clear \ {t}, Give, n)
<1>1. Clear = {t} /\ bool /\ St # {} /\ Give = {} /\ Own = {} /\ sem = 0
  BY DEF ScreenState
<1>2. \A i, j \in St : i = j
  BY <1>1 DEF ScreenState
<1>3. PICK j : St = {j}
  BY <1>1, <1>2
<1>4. Clear \ {t} = {} /\ info[Slot(j)].rows = li
  BY <1>1, <1>3 DEF ScreenState
<1> QED BY <1>1, <1>3, <1>4 DEF ScreenState

LEMMA Gives ==
  ASSUME NEW sem, NEW bool \in BOOLEAN, NEW li, NEW St, NEW Own, NEW Clear,
         NEW Give, NEW n, NEW t,
         ScreenState(sem, bool, li, St, Own, Clear, Give, n), t \in Give
  PROVE  sem = 0 /\ ScreenState(1, bool, li, St, Own, Clear, Give \ {t}, n)
<1>1. Give = {t} /\ bool /\ St = {} /\ Clear = {} /\ Own = {} /\ sem = 0
  BY DEF ScreenState
<1>2. Give \ {t} = {}
  BY <1>1
<1> QED BY <1>1, <1>2 DEF ScreenState

LEMMA ScreenStep ==
  ASSUME Types, NEW F, NEW n, FramesInv(F, n), SplitInv, WorksInv(F, n),
         CORE_COUNT > 1,
         NEW t \in Thread, Step(t), pc[t] # "finish",
         NEW s \in Screen, ScreenAt(F, n, s)
  PROVE  ScreenAt(F, n, s)'
<1>1. /\ n \in [Thread -> Nat] /\ F \in Nat /\ n[t] < F
      /\ n[t] \in Frames(F) /\ wi[t] = Slot(n[t]) /\ wi[t] \in Work
      /\ t \in left[wi[t]]
  BY FramesStep, InFrame DEF FramesInv
<1>2. PICK k \in Frames(F) : k = n[t] /\ k \in Nat /\ wi[t] = Slot(k)
  BY <1>1
<1>3. info' = info
  BY StepLocal DEF split
<1>4. SynTypes /\ ThreadTypes /\ SplitTypes
  BY TypesParts
<1>5. PICK z \in Screen : z = info[wi[t]].s
  BY <1>1, <1>4, InfoFacts
<1> DEFINE St == Started(F, n, s)
           Ow == AtScreen(s, {"own"})
           Cl == AtScreen(s, {"clear"})
           Gi == AtScreen(s, {"give"})
           St1 == Started(F, n, s)'
           Ow1 == AtScreen(s, {"own"})'
           Cl1 == AtScreen(s, {"clear"})'
           Gi1 == AtScreen(s, {"give"})'
           Ask == At(n, k, Asking)
           Ask1 == At(n, k, Asking)'
<1>6. ScreenState(screen_sem[s], screen_bool[s], last_interval[s],
                  St, Ow, Cl, Gi, n)
  BY DEF ScreenAt
<1>7. ASSUME NEW sem, screen_sem'[s] = sem, NEW bool, screen_bool'[s] = bool,
             NEW li, last_interval'[s] = li,
             ScreenState(sem, bool, li, St1, Ow1, Cl1, Gi1, n)
      PROVE  ScreenAt(F, n, s)'
  <2>1. ScreenState(screen_sem'[s], screen_bool'[s], last_interval'[s],
                    St1, Ow1, Cl1, Gi1, n)
    BY <1>7, Zenon
  <2> QED BY <1>3, <2>1 DEF ScreenAt, ScreenState
<1>8. /\ \A j : j # k => (j \in St1 <=> j \in St)
      /\ k \in St <=> inited[wi[t]] /\ z = s /\ Ask = {}
      /\ k \in St1 <=> inited'[wi[t]] /\ z = s /\ Ask1 = {}
      /\ pc[t] \notin Asking /\ pc'[t] \notin Asking => Ask1 = Ask
  BY <1>2, <1>5, StartedStep
<1>9. /\ Ow1 = IF pc'[t] \in {"own"} /\ z = s THEN Ow \cup {t} ELSE Ow \ {t}
      /\ Cl1 = IF pc'[t] \in {"clear"} /\ z = s THEN Cl \cup {t} ELSE Cl \ {t}
      /\ Gi1 = IF pc'[t] \in {"give"} /\ z = s THEN Gi \cup {t} ELSE Gi \ {t}
      /\ t \in Ow <=> pc[t] \in {"own"} /\ z = s
      /\ t \in Cl <=> pc[t] \in {"clear"} /\ z = s
      /\ t \in Gi <=> pc[t] \in {"give"} /\ z = s
  <2>1. ASSUME NEW P
        PROVE  /\ AtScreen(s, P)' =
                    IF pc'[t] \in P /\ z = s
                    THEN AtScreen(s, P) \cup {t} ELSE AtScreen(s, P) \ {t}
               /\ t \in AtScreen(s, P) <=> pc[t] \in P /\ z = s
    BY <1>5, AtScreenStep
  <2> QED BY <2>1
<1>10. ASSUME pc[t] \in Choosing
       PROVE  /\ inited[wi[t]]
              /\ \A u \in Thread : pc[u] \in Choosing => u = t
              /\ \A j \in Frames(F) : inited[Slot(j)] => j <= k
  <2>1. t \in At(n, k, Choosing)
    BY <1>2, <1>10 DEF At
  <2> QED BY <1>2, <2>1, OneChooser
<1>11. /\ t \in Ask <=> pc[t] \in Asking
       /\ Ask1 = IF pc'[t] \in Asking THEN Ask \cup {t} ELSE Ask \ {t}
  <2>1. \A u \in Thread : u # t => pc'[u] = pc[u]
    BY StepLocal
  <2> QED BY <1>2, <2>1 DEF At
<1>12. /\ screen_sem \in [Screen -> 0 .. 1]
       /\ screen_bool \in [Screen -> BOOLEAN]
       /\ last_interval \in [Screen -> Nat]
       /\ inited \in [Work -> BOOLEAN]
  BY <1>4 DEF SynTypes
<1>13. Ask \subseteq {u \in Thread : pc[u] \in Choosing} /\ Asking \subseteq Choosing
  BY DEF At, Choosing
<1> HIDE DEF St, Ow, Cl, Gi, St1, Ow1, Cl1, Gi1, Ask, Ask1
(* Nothing of this screen changes.                                         *)
<1>14. ASSUME screen_sem'[s] = screen_sem[s], screen_bool'[s] = screen_bool[s],
              last_interval'[s] = last_interval[s],
              k \in St1 <=> k \in St, Ow1 = Ow, Cl1 = Cl, Gi1 = Gi
       PROVE  ScreenAt(F, n, s)'
  <2>1. St1 = St
    BY <1>8, <1>14
  <2> QED BY <1>6, <1>7, <1>14, <2>1, Zenon
<1>15. CASE Encode(t) \/ Sample_row(t)
            \/ (\E q \in Level : Compute_dq(t, q)) \/ Release_work_sem(t)
            \/ Work_sem_acquire(t) \/ Compress(t) \/ Work_sem_count(t)
  <2>1. UNCHANGED <<screen_sem, screen_bool, last_interval, inited>>
    BY <1>15 DEF Encode, Sample_row, Compute_dq, Release_work_sem,
       Work_sem_acquire, Compress, Work_sem_count, syn
  <2>2. /\ pc[t] \notin Asking \cup {"own", "clear", "give"}
        /\ pc'[t] \notin Asking \cup {"own", "clear", "give"}
    BY <1>4, <1>15, StepEdge DEF Asking
  <2>3. Ow1 = Ow /\ Cl1 = Cl /\ Gi1 = Gi
    BY <1>9, <2>2
  <2>4. k \in St1 <=> k \in St
    BY <1>8, <2>1, <2>2
  <2> QED BY <1>14, <2>1, <2>3, <2>4
<1>16. CASE Claim(t)
  <2>1. /\ inited' = [inited EXCEPT ![wi[t]] = TRUE]
        /\ UNCHANGED <<screen_sem, screen_bool, last_interval>>
    BY <1>16 DEF Claim
  <2>2. pc[t] = "claim" /\ pc'[t] = IF inited[wi[t]] THEN "work_sem" ELSE "sync"
    BY <1>4, <1>16, StepEdge
  <2>3. Ow1 = Ow /\ Cl1 = Cl /\ Gi1 = Gi
    BY <1>9, <2>2
  <2>4. inited'[wi[t]] = TRUE
    BY <1>1, <1>12, <2>1
  <2>5. k \in St1 <=> k \in St
    <3>1. CASE inited[wi[t]]
      BY <1>8, <2>2, <2>4, <3>1 DEF Asking
    <3>2. CASE ~inited[wi[t]]
      BY <1>8, <1>11, <2>2, <3>2 DEF Asking
    <3> QED BY <3>1, <3>2
  <2> QED BY <1>14, <2>1, <2>3, <2>5
<1>17. CASE Need_sync(t)
  <2>1. /\ screen_bool' = [screen_bool EXCEPT ![z] =
                             IF Interval_changed(wi[t]) THEN @ ELSE TRUE]
        /\ UNCHANGED <<screen_sem, last_interval, inited>>
    BY <1>5, <1>17 DEF Need_sync
  <2>2. pc[t] = "sync" /\ pc'[t] =
          IF Interval_changed(wi[t]) \/ screen_bool[z]
          THEN "screen_sem" ELSE "read"
    BY <1>4, <1>5, <1>17, StepEdge
  <2>3. Ow1 = Ow /\ Cl1 = Cl /\ Gi1 = Gi
    BY <1>9, <2>2
  <2>4. Ask = {t} /\ inited[wi[t]] /\ k \notin St
    <3>1. t \in Ask
      BY <1>11, <2>2 DEF Asking
    <3>2. Ask = {t} /\ inited[wi[t]]
      BY <1>10, <1>13, <2>2, <3>1 DEF Choosing, Asking
    <3> QED BY <1>8, <3>2
  <2>5. CASE z # s
    <3>1. screen_bool'[s] = screen_bool[s]
      BY <1>12, <2>1, <2>5
    <3> QED BY <1>8, <1>14, <2>1, <2>3, <2>5, <3>1
  <2>6. CASE z = s /\ (Interval_changed(wi[t]) \/ screen_bool[z])
    <3>1. screen_bool'[s] = screen_bool[s]
      BY <1>12, <2>1, <2>6
    <3>2. k \notin St1
      BY <1>8, <1>11, <2>2, <2>4, <2>6 DEF Asking
    <3> QED BY <1>14, <2>1, <2>3, <2>4, <3>1, <3>2
  <2>7. CASE z = s /\ ~Interval_changed(wi[t]) /\ ~screen_bool[z]
    <3>1. screen_bool'[s] = TRUE /\ screen_bool[s] = FALSE
      BY <1>12, <2>1, <2>7
    <3>2. Ask1 = {} /\ k \in St1
      BY <1>8, <1>11, <2>1, <2>2, <2>4, <2>7 DEF Asking
    <3>3. St1 = St \cup {k}
      BY <1>8, <3>2
    <3>4. info[Slot(k)].rows = last_interval[s] /\ last_interval[s] # 0
      <4>1. info[wi[t]].rows = last_interval[s]
        BY <1>5, <2>7 DEF Interval_changed
      <4>2. Splits(info[wi[t]])
        BY <1>1 DEF SplitInv
      <4> QED BY <1>2, <4>1, <4>2 DEF Splits
    <3>5. ScreenState(screen_sem[s], FALSE, last_interval[s], St, Ow, Cl, Gi, n)
      BY <1>6, <3>1, Zenon
    <3>6. ScreenState(screen_sem[s], TRUE, last_interval[s], St \cup {k},
                      Ow, Cl, Gi, n)
      BY <2>4, <3>4, <3>5, Overtakes
    <3>7. screen_sem'[s] = screen_sem[s] /\ last_interval'[s] = last_interval[s]
      BY <2>1
    <3> QED BY <1>7, <2>3, <3>1, <3>3, <3>6, <3>7, Zenon
  <2> QED BY <2>5, <2>6, <2>7
<1>18. CASE Screen_sem_acquire(t)
  <2>1. /\ screen_sem[z] > 0
        /\ screen_sem' = [screen_sem EXCEPT ![z] = @ - 1]
        /\ UNCHANGED <<screen_bool, last_interval, inited>>
    BY <1>5, <1>18 DEF Screen_sem_acquire
  <2>2. pc[t] = "screen_sem" /\ pc'[t] = "own"
    BY <1>4, <1>18, StepEdge
  <2>3. Cl1 = Cl /\ Gi1 = Gi
    BY <1>9, <2>2
  <2>4. k \notin St /\ k \notin St1
    BY <1>8, <1>11, <2>2 DEF Asking
  <2>5. CASE z # s
    <3>1. Ow1 = Ow
      BY <1>9, <2>2, <2>5
    <3>2. screen_sem'[s] = screen_sem[s]
      BY <1>12, <2>1, <2>5
    <3> QED BY <1>14, <2>1, <2>3, <2>4, <3>1, <3>2
  <2>6. CASE z = s
    <3>1. screen_sem[s] = 1 /\ screen_sem'[s] = 0
      BY <1>12, <2>1, <2>6
    <3>2. Ow1 = Ow \cup {t}
      BY <1>9, <2>2, <2>6
    <3>3. St1 = St
      BY <1>8, <2>4
    <3>4. ScreenState(1, screen_bool[s], last_interval[s], St, Ow, Cl, Gi, n)
      BY <1>6, <3>1, Zenon
    <3>5. ScreenState(0, screen_bool[s], last_interval[s], St, Ow \cup {t},
                      Cl, Gi, n)
      BY <3>4, Acquires
    <3>6. screen_bool'[s] = screen_bool[s] /\ last_interval'[s] = last_interval[s]
      BY <2>1
    <3> QED BY <1>7, <2>3, <3>1, <3>2, <3>3, <3>5, <3>6, Zenon
  <2> QED BY <2>5, <2>6
<1>19. CASE Screen_owned(t)
  <2>1. /\ screen_bool' = [screen_bool EXCEPT ![z] = FALSE]
        /\ last_interval' = [last_interval EXCEPT ![z] = info[wi[t]].rows]
        /\ UNCHANGED <<screen_sem, inited>>
    BY <1>5, <1>19 DEF Screen_owned
  <2>2. pc[t] = "own" /\ pc'[t] = "read"
    BY <1>4, <1>19, StepEdge
  <2>3. Cl1 = Cl /\ Gi1 = Gi
    BY <1>9, <2>2
  <2>4. Ask = {t} /\ inited[wi[t]] /\ k \notin St
    <3>1. t \in Ask
      BY <1>11, <2>2 DEF Asking
    <3>2. Ask = {t} /\ inited[wi[t]]
      BY <1>10, <1>13, <2>2, <3>1 DEF Choosing, Asking
    <3> QED BY <1>8, <3>2
  <2>5. CASE z # s
    <3>1. Ow1 = Ow
      BY <1>9, <2>2, <2>5
    <3>2. screen_bool'[s] = screen_bool[s] /\ last_interval'[s] = last_interval[s]
      BY <1>12, <2>1, <2>5
    <3>3. k \notin St1
      BY <1>8, <2>5
    <3> QED BY <1>14, <2>1, <2>3, <2>4, <3>1, <3>2, <3>3
  <2>6. CASE z = s
    <3>1. screen_bool'[s] = FALSE /\ last_interval'[s] = info[Slot(k)].rows
      BY <1>2, <1>12, <2>1, <2>6
    <3>2. Ow1 = Ow \ {t} /\ t \in Ow
      BY <1>9, <2>2, <2>6
    <3>3. Ow = {t}
      <4>1. \A u \in Ow : u \in Thread /\ pc[u] \in Choosing
        BY DEF Ow, AtScreen, Choosing, Asking
      <4> QED BY <1>10, <2>2, <3>2, <4>1 DEF Choosing, Asking
    <3>4. Ask1 = {} /\ k \in St1
      BY <1>8, <1>11, <2>1, <2>2, <2>4, <2>6 DEF Asking
    <3>5. St1 = St \cup {k}
      BY <1>8, <3>4
    <3>6. ScreenState(screen_sem[s], FALSE, info[Slot(k)].rows, St \cup {k},
                      Ow \ {t}, Cl, Gi, n)
      BY <1>6, <3>3, Owns
    <3>7. screen_sem'[s] = screen_sem[s]
      BY <2>1
    <3> QED BY <1>7, <2>3, <3>1, <3>2, <3>5, <3>6, <3>7, Zenon
  <2> QED BY <2>5, <2>6
<1>20. CASE Hand_on(t)
  <2>1. /\ inited' = [inited EXCEPT ![wi[t]] = FALSE]
        /\ screen_bool' = [screen_bool EXCEPT ![z] = TRUE]
        /\ UNCHANGED <<screen_sem, last_interval>>
    BY <1>5, <1>20 DEF Hand_on
  <2>2. pc[t] = "hand" /\ pc'[t] = IF screen_bool[z] THEN "clear" ELSE "give"
    BY <1>4, <1>5, <1>20, StepEdge DEF Overtaken
  <2>3. Ow1 = Ow
    BY <1>9, <2>2
  <2>4. inited'[wi[t]] = FALSE
    BY <1>1, <1>12, <2>1
  <2>5. k \notin St1
    BY <1>8, <2>4
  <2>6. CASE z # s
    <3>1. screen_bool'[s] = screen_bool[s]
      BY <1>12, <2>1, <2>6
    <3>2. Cl1 = Cl /\ Gi1 = Gi /\ k \notin St
      BY <1>8, <1>9, <2>2, <2>6
    <3> QED BY <1>14, <2>1, <2>3, <2>5, <3>1, <3>2
  <2>7. CASE z = s
    <3>1. inited[wi[t]] /\ Todo(n, k) = {}
      <4>1. t \in At(n, k, {"hand"})
        BY <1>2, <2>2 DEF At
      <4> QED BY <1>2, <4>1 DEF WorksInv, WorkAt, WorkState
    <3>2. Ask = {}
      <4>1. At(n, k, Choosing) = {}
        BY <1>1, <1>2, <3>1, SetFacts
      <4> QED BY <4>1 DEF Ask, At, Choosing
    <3>3. k \in St /\ St1 = St \ {k}
      BY <1>8, <2>5, <2>7, <3>1, <3>2
    <3>4. screen_bool'[s] = TRUE /\ screen_sem'[s] = screen_sem[s]
          /\ last_interval'[s] = last_interval[s]
      BY <1>12, <2>1, <2>7
    <3>5. \A j \in St : j # k => j > k
      <4>1. \A j \in St : j \in Frames(F) /\ inited[Slot(j)] /\ j \in Nat
        BY DEF St, Started, Frames
      <4>2. \A j \in St : k <= j
        BY <3>1, <4>1, HandOldest
      <4> QED BY <1>2, <4>1, <4>2
    <3>6. CASE screen_bool[s]
      <4>1. screen_bool[s] = TRUE
        BY <1>12, <3>6
      <4>2. ScreenState(screen_sem[s], TRUE, last_interval[s],
                        St, Ow, Cl, Gi, n)
        BY <1>6, <4>1, Zenon
      <4>3. Cl = {}
        <5>1. SUFFICES ASSUME NEW c \in Cl PROVE FALSE
          OBVIOUS
        <5>2. k > n[c]
          BY <1>6, <3>3 DEF ScreenState
        <5>3. c \in Thread
          BY DEF Cl, AtScreen
        <5> QED BY <1>1, <1>2, <3>1, <5>2, <5>3 DEF Todo
      <4>4. ScreenState(screen_sem[s], TRUE, last_interval[s],
                        St \ {k}, Ow, Cl \cup {t}, Gi, n)
        BY <1>2, <3>3, <3>5, <4>2, <4>3, HandsOver
      <4>5. Cl1 = Cl \cup {t} /\ Gi1 = Gi
        BY <1>9, <2>2, <2>7, <3>6
      <4> QED BY <1>7, <2>3, <3>3, <3>4, <4>4, <4>5, Zenon
    <3>7. CASE ~screen_bool[s]
      <4>1. screen_bool[s] = FALSE
        BY <1>12, <3>7
      <4>2. ScreenState(screen_sem[s], FALSE, last_interval[s],
                        St, Ow, Cl, Gi, n)
        BY <1>6, <4>1, Zenon
      <4>3. ScreenState(screen_sem[s], TRUE, last_interval[s],
                        St \ {k}, Ow, Cl, Gi \cup {t}, n)
        BY <3>3, <4>2, HandsBack
      <4>4. Cl1 = Cl /\ Gi1 = Gi \cup {t}
        BY <1>9, <2>2, <2>7, <3>7
      <4> QED BY <1>7, <2>3, <3>3, <3>4, <4>3, <4>4, Zenon
    <3> QED BY <3>6, <3>7
  <2> QED BY <2>6, <2>7
<1>21. CASE Clear_screen_bool(t)
  <2>1. /\ screen_bool' = [screen_bool EXCEPT ![z] = FALSE]
        /\ UNCHANGED <<screen_sem, last_interval, inited>>
    BY <1>5, <1>21 DEF Clear_screen_bool
  <2>2. pc[t] = "clear" /\ pc'[t] = "finish"
    BY <1>4, <1>21, StepEdge
  <2>3. Ow1 = Ow /\ Gi1 = Gi /\ Cl1 = Cl \ {t}
    BY <1>9, <2>2
  <2>4. k \in St1 <=> k \in St
    BY <1>8, <2>1, <2>2 DEF Asking
  <2>5. CASE z # s
    <3>1. screen_bool'[s] = screen_bool[s] /\ Cl1 = Cl
      BY <1>9, <1>12, <2>1, <2>2, <2>5
    <3> QED BY <1>14, <2>1, <2>3, <2>4, <3>1
  <2>6. CASE z = s
    <3>1. screen_bool'[s] = FALSE /\ screen_sem'[s] = screen_sem[s]
          /\ last_interval'[s] = last_interval[s] /\ t \in Cl /\ St1 = St
      BY <1>8, <1>9, <1>12, <2>1, <2>2, <2>4, <2>6
    <3>2. ScreenState(screen_sem[s], FALSE, last_interval[s],
                      St, Ow, Cl \ {t}, Gi, n)
      BY <1>6, <3>1, Clears
    <3> QED BY <1>7, <2>3, <3>1, <3>2, Zenon
  <2> QED BY <2>5, <2>6
<1>22. CASE Release_screen_sem(t)
  <2>1. /\ screen_sem' = [screen_sem EXCEPT ![z] = Released(@, 1, 1)]
        /\ UNCHANGED <<screen_bool, last_interval, inited>>
    BY <1>5, <1>22 DEF Release_screen_sem
  <2>2. pc[t] = "give" /\ pc'[t] = "finish"
    BY <1>4, <1>22, StepEdge
  <2>3. Ow1 = Ow /\ Cl1 = Cl /\ Gi1 = Gi \ {t}
    BY <1>9, <2>2
  <2>4. k \in St1 <=> k \in St
    BY <1>8, <2>1, <2>2 DEF Asking
  <2>5. CASE z # s
    <3>1. screen_sem'[s] = screen_sem[s] /\ Gi1 = Gi
      BY <1>9, <1>12, <2>1, <2>2, <2>5
    <3> QED BY <1>14, <2>1, <2>3, <2>4, <3>1
  <2>6. CASE z = s
    <3>1. t \in Gi /\ St1 = St
      BY <1>8, <1>9, <2>2, <2>4, <2>6
    <3>2. screen_bool[s] \in BOOLEAN
      BY <1>12
    <3>3. /\ screen_sem[s] = 0
          /\ ScreenState(1, screen_bool[s], last_interval[s],
                         St, Ow, Cl, Gi \ {t}, n)
      BY <1>6, <3>1, <3>2, Gives
    <3>4. screen_sem'[s] = 1
      BY <1>12, <2>1, <2>6, <3>3 DEF Released
    <3>5. screen_bool'[s] = screen_bool[s] /\ last_interval'[s] = last_interval[s]
      BY <2>1
    <3> QED BY <1>7, <2>3, <3>1, <3>3, <3>4, <3>5, Zenon
  <2> QED BY <2>5, <2>6
<1>23. ~Finish(t)
  BY DEF Finish
<1> QED BY <1>15, <1>16, <1>17, <1>18, <1>19, <1>20, <1>21, <1>22, <1>23
        DEF Step

LEMMA StartedFinished ==
  ASSUME Types, NEW F, NEW n, FramesInv(F, n),
         NEW t \in Thread, Finish(t), NEW s \in Screen
  PROVE  Started(F, [n EXCEPT ![t] = n[t] + 1], s)' = Started(F, n, s)
<1> DEFINE m == [n EXCEPT ![t] = n[t] + 1]
<1>1. inited' = inited /\ info' = info
  BY DEF Finish, syn
<1>2. ASSUME NEW k \in Frames(F)
      PROVE  At(m, k, Asking)' = At(n, k, Asking)
  <2>1. k \in Nat
    BY DEF Frames, FramesInv
  <2>2. "idle" \notin Asking /\ "finish" \notin Asking
    BY DEF Asking
  <2> QED BY <2>1, <2>2, FinishSets
<1> HIDE DEF m
<1>3. Started(F, m, s)' = Started(F, n, s)
  BY <1>1, <1>2 DEF Started
<1> QED BY <1>3 DEF m

LEMMA ScreensFinished ==
  ASSUME Types, NEW F, NEW n, FramesInv(F, n), ScreensInv(F, n),
         NEW t \in Thread, Finish(t)
  PROVE  ScreensInv(F, [n EXCEPT ![t] = n[t] + 1])'
<1> DEFINE m == [n EXCEPT ![t] = n[t] + 1]
<1>1. SUFFICES ASSUME CORE_COUNT > 1, NEW s \in Screen
               PROVE  ScreenAt(F, m, s)'
  BY DEF ScreensInv
<1>2. /\ UNCHANGED <<screen_sem, screen_bool, last_interval, info>>
      /\ pc[t] = "finish" /\ pc' = [pc EXCEPT ![t] = "idle"]
      /\ \A u \in Thread : u # t => wi'[u] = wi[u]
  BY DEF Finish, syn, Goto, Types, TypeOK
<1>3. pc \in [Thread -> Control] /\ n \in [Thread -> Nat]
  BY DEF Types, TypeOK, FramesInv
<1>4. /\ AtScreen(s, {"own"})' = AtScreen(s, {"own"})
      /\ AtScreen(s, {"clear"})' = AtScreen(s, {"clear"})
      /\ AtScreen(s, {"give"})' = AtScreen(s, {"give"})
      /\ t \notin AtScreen(s, {"clear"})
  <2>1. pc'[t] = "idle" /\ \A u \in Thread : u # t => pc'[u] = pc[u]
    BY <1>2, <1>3
  <2> QED BY <1>2, <2>1 DEF AtScreen
<1>5. Started(F, m, s)' = Started(F, n, s)
  BY StartedFinished
<1>6. \A u \in AtScreen(s, {"clear"}) : m[u] = n[u]
  BY <1>3, <1>4 DEF AtScreen
<1>7. ScreenAt(F, n, s)
  BY <1>1 DEF ScreensInv
<1> HIDE DEF m
<1> QED BY <1>2, <1>4, <1>5, <1>6, <1>7 DEF ScreenAt, ScreenState

(* A work that is set up again has no screen.                              *)
LEMMA StartedBegun ==
  ASSUME Types, NEW F, NEW n, FramesInv(F, n), WorksInv(F, n),
         NEW t \in Thread, NEW s \in Screen, Init_work(t, s),
         NEW z \in Screen
  PROVE  /\ Started(F + 1, n, z)' = Started(F, n, z)
         /\ \A k \in Started(F, n, z) : Slot(k) # wi[t] /\ Slot(k) \in Work
<1>1. F \in Nat /\ ~inited[Slot(F)] /\ wi[t] = Slot(F)
  BY FramesBegun, WorksBegun DEF FramesInv
<1>2. \A k \in Frames(F + 1) : k = F \/ (k \in Frames(F) /\ Slot(k) # wi[t])
  BY FramesBegun
<1>3. UNCHANGED <<inited, pc>> /\ \A v \in Work : v # wi[t] => info'[v] = info[v]
  BY DEF Init_work, syn, Types, TypeOK
<1>4. ASSUME NEW k \in Frames(F)
      PROVE  k \in Nat /\ k < F /\ F <= k + WORK_COUNT /\ Slot(k) \in Work
  BY <1>1, SlotFacts
<1>5. ASSUME NEW k \in Started(F, n, z)
      PROVE  k \in Frames(F + 1) /\ Slot(k) # wi[t] /\ Slot(k) \in Work
  <2>1. k \in Frames(F) /\ inited[Slot(k)]
    BY DEF Started
  <2>2. Slot(k) # wi[t]
    BY <1>1, <2>1
  <2>3. k # F - WORK_COUNT
    <3>1. PICK w \in Nat \ {0} : w = WORK_COUNT
      BY DeltaQAssumption
    <3>2. PICK k0 \in Nat : F = k0 + w
      BY <1>1, <3>1 DEF FramesInv
    <3>3. (k0 + w) % w = k0 % w
      BY ModWrap
    <3>4. Slot(F) = Slot(k0)
      BY <3>1, <3>2, <3>3 DEF Slot
    <3>5. k # k0
      BY <1>1, <2>2, <3>4
    <3> QED BY <3>1, <3>2, <3>5
  <2>4. WORK_COUNT \in Nat
    BY DeltaQAssumption
  <2> QED BY <1>1, <1>4, <2>1, <2>2, <2>3, <2>4 DEF Frames
<1>6. ASSUME NEW k \in Frames(F), Slot(k) # wi[t]
      PROVE  info'[Slot(k)] = info[Slot(k)]
  BY <1>3, <1>4, <1>6
<1>7. \A k : At(n, k, Asking)' = At(n, k, Asking)
  BY <1>3 DEF At
<1>8. Started(F + 1, n, z)' \subseteq Started(F, n, z)
  BY <1>1, <1>2, <1>3, <1>6, <1>7 DEF Started
<1>9. Started(F, n, z) \subseteq Started(F + 1, n, z)'
  BY <1>3, <1>5, <1>6, <1>7 DEF Started
<1> QED BY <1>5, <1>8, <1>9

LEMMA ScreensBegun ==
  ASSUME Types, NEW F, NEW n, FramesInv(F, n), WorksInv(F, n),
         ScreensInv(F, n),
         NEW t \in Thread, NEW s \in Screen, Init_work(t, s)
  PROVE  ScreensInv(F + 1, n)'
<1>1. SUFFICES ASSUME CORE_COUNT > 1, NEW z \in Screen
               PROVE  ScreenAt(F + 1, n, z)'
  BY DEF ScreensInv
<1>2. /\ UNCHANGED <<screen_sem, screen_bool, last_interval, pc, wi>>
      /\ left[wi[t]] = {}
      /\ \A v \in Work : v # wi[t] => info'[v] = info[v]
  BY DEF Init_work, syn, Types, TypeOK
<1>3. ASSUME NEW P, "idle" \notin P
      PROVE  AtScreen(z, P)' = AtScreen(z, P)
  <2>1. ASSUME NEW u \in Thread, pc[u] \in P
        PROVE  info'[wi[u]] = info[wi[u]]
    <3>1. u \in left[wi[u]] /\ wi[u] \in Work
      BY <1>3, <2>1, InFrame DEF FramesInv
    <3> QED BY <1>2, <3>1
  <2> QED BY <1>2, <2>1 DEF AtScreen
<1>4. /\ AtScreen(z, {"own"})' = AtScreen(z, {"own"})
      /\ AtScreen(z, {"clear"})' = AtScreen(z, {"clear"})
      /\ AtScreen(z, {"give"})' = AtScreen(z, {"give"})
  BY <1>3
<1>5. /\ Started(F + 1, n, z)' = Started(F, n, z)
      /\ \A k \in Started(F, n, z) : Slot(k) # wi[t] /\ Slot(k) \in Work
  BY StartedBegun
<1>6. \A k \in Started(F, n, z) : info'[Slot(k)] = info[Slot(k)]
  BY <1>2, <1>5
<1>7. ScreenAt(F, n, z)
  BY <1>1 DEF ScreensInv
<1> QED BY <1>2, <1>4, <1>5, <1>6, <1>7 DEF ScreenAt, ScreenState

(* Two frames that have a screen share its rows out in the same way.       *)
LEMMA SameShares ==
  ASSUME Types, NEW F, NEW n, FramesInv(F, n), SplitInv, WorksInv(F, n),
         ScreensInv(F, n), NEW s \in Screen,
         NEW j \in Started(F, n, s), NEW k \in Started(F, n, s),
         NEW t \in Thread
  PROVE  /\ Splits(info[Slot(j)]) /\ info[Slot(j)].s = s
         /\ I_start(Slot(j), t) = I_start(Slot(k), t)
         /\ I_count(Slot(j), t) = I_count(Slot(k), t)
         /\ Share(Slot(j), t) = Share(Slot(k), t)
<1>1. ASSUME NEW i \in Started(F, n, s)
      PROVE  Splits(info[Slot(i)]) /\ info[Slot(i)].s = s
             /\ i \in Frames(F) /\ inited[Slot(i)] /\ Slot(i) \in Work
  <2>1. i \in Frames(F) /\ inited[Slot(i)] /\ info[Slot(i)].s = s
    BY DEF Started
  <2>2. left[Slot(i)] # {}
    <3>1. SUFFICES ASSUME left[Slot(i)] = {} PROVE FALSE
      OBVIOUS
    <3>2. \A u \in Thread : i < n[u]
      BY <2>1, <3>1 DEF FramesInv, Frames
    <3> QED BY <2>1, <3>2, LeftWork
  <2>3. Slot(i) \in Work
    BY <2>1, SlotFacts DEF FramesInv
  <2> QED BY <2>1, <2>2, <2>3 DEF SplitInv
<1>2. CASE CORE_COUNT > 1
  <2>1. info[Slot(j)].rows = info[Slot(k)].rows
    BY <1>2 DEF ScreensInv, ScreenAt, ScreenState
  <2>2. PICK r \in Nat : r = info[Slot(j)].rows
    BY <1>1 DEF Splits
  <2>3. PICK p : p = r * (CORE_COUNT - 1) /\ p \in Int
    BY <2>2, ThreadFinite
  <2>4. p + info[Slot(j)].last = Mcu_rows(s) /\ p + info[Slot(k)].last = Mcu_rows(s)
        /\ info[Slot(j)].last \in Nat /\ info[Slot(k)].last \in Nat
    BY <1>1, <2>1, <2>2, <2>3 DEF Splits
  <2>5. info[Slot(j)].last = info[Slot(k)].last
    BY <2>3, <2>4
  <2> QED BY <1>1, <2>1, <2>5 DEF I_start, I_count, Share
<1>3. CASE CORE_COUNT = 1
  <2>1. t = 0 /\ t = CORE_COUNT - 1
    BY <1>3 DEF Thread
  <2>2. ASSUME NEW i \in Started(F, n, s)
        PROVE  info[Slot(i)].last = Mcu_rows(s) /\ info[Slot(i)].rows \in Nat
    BY <1>1, <1>3 DEF Splits
  <2>3. I_start(Slot(j), t) = 0 /\ I_start(Slot(k), t) = 0
    BY <2>1, <2>2 DEF I_start
  <2>4. I_count(Slot(j), t) = I_count(Slot(k), t)
    BY <2>1, <2>2 DEF I_count
  <2> QED BY <1>1, <2>3, <2>4 DEF Share
<1> QED BY <1>2, <1>3, ThreadFinite

(* A thread that has rows before it is in a frame that has its screen.     *)
LEMMA TouchingStarted ==
  ASSUME Types, NEW F, NEW n, FramesInv(F, n), WorksInv(F, n),
         NEW t \in Thread, pc[t] \in Touching
  PROVE  /\ n[t] \in Started(F, n, info[wi[t]].s)
         /\ wi[t] = Slot(n[t]) /\ n[t] < F
         /\ info[wi[t]].s \in Screen
         /\ t \in Todo(n, n[t])
         /\ pc[t] # "read" => At(n, n[t], {"read"}) = {}
<1>1. n[t] < F
  BY DEF FramesInv, Touching
<1>2. PICK k \in Frames(F) : k = n[t] /\ wi[t] = Slot(k) /\ wi[t] \in Work
  BY <1>1, InFrame
<1>3. info[wi[t]].s \in Screen
  BY <1>2, InfoFacts, TypesParts
<1>4. inited[Slot(k)] /\ At(n, k, Asking) = {}
      /\ (pc[t] # "read" => At(n, k, {"read"}) = {})
  <2>1. CASE pc[t] = "rows"
    <3>1. inited[Slot(k)] /\ At(n, k, Choosing) = {}
      BY <1>2, <2>1, RowsStarted
    <3> QED BY <3>1 DEF At, Choosing
  <2>2. CASE pc[t] \in {"read", "compute", "wake"}
    <3>1. t \in At(n, k, Choosing)
      BY <1>2, <2>2 DEF At, Choosing
    <3>2. inited[Slot(k)] /\ \A u \in Thread : pc[u] \in Choosing => u = t
      BY <3>1, OneChooser
    <3> QED BY <2>2, <3>2 DEF At, Choosing, Asking
  <2> QED BY <2>1, <2>2 DEF Touching
<1>5. t \in Todo(n, n[t])
  BY DEF Todo, Touching, Choosing
<1> QED BY <1>1, <1>2, <1>3, <1>4, <1>5 DEF Started

LEMMA RowsOwnedInv ==
  ASSUME Types, NEW F, NEW n, FramesInv(F, n), SplitInv, WorksInv(F, n),
         ScreensInv(F, n)
  PROVE  RowsOwned
<1>1. SUFFICES ASSUME NEW t \in Thread, NEW u \in Thread, t # u,
                      NEW x \in Rest(t), x \in Rest(u)
               PROVE  FALSE
  BY DEF RowsOwned
<1>2. pc[t] \in Touching /\ pc[u] \in Touching
  BY <1>1 DEF Rest
<1>3. PICK a \in Share(wi[t], t) : x = <<info[wi[t]].s, info[wi[t]].e, a>>
  BY <1>2 DEF Rest
<1>4. PICK b \in Share(wi[u], u) : x = <<info[wi[u]].s, info[wi[u]].e, b>>
  BY <1>1, <1>2 DEF Rest
<1>5. info[wi[t]].s = info[wi[u]].s /\ a = b
  BY <1>3, <1>4
<1>6. PICK s \in Screen : s = info[wi[t]].s
  BY <1>2, TouchingStarted
<1>7. /\ n[t] \in Started(F, n, s) /\ n[u] \in Started(F, n, s)
      /\ wi[t] = Slot(n[t]) /\ wi[u] = Slot(n[u])
  BY <1>2, <1>5, <1>6, TouchingStarted
<1>8. Splits(info[wi[t]]) /\ Share(wi[u], u) = Share(wi[t], u)
  BY <1>7, SameShares
<1>9. Share(wi[t], t) \cap Share(wi[t], u) = {}
  BY <1>1, <1>8, SharesDisjoint
<1> QED BY <1>3, <1>4, <1>5, <1>8, <1>9

-----------------------------------------------------------------------------
(***************************************************************************)
(* The levels of one half image of one screen: every row is at the level   *)
(* the next frame that will compress it starts from.                       *)
(***************************************************************************)
Running(F, n, s, e) == {k \in Started(F, n, s) : info[Slot(k)].e = e}

(* The level frame k starts from, settled when its chooser reads it; the   *)
(* rows it has yet to compress.                                            *)
From(n, k) ==
  IF At(n, k, {"read"}) # {} THEN delta_q[info[Slot(k)].s][info[Slot(k)].e]
  ELSE work_from[Slot(k)]

Pending(n, k) ==
  {r \in Row(info[Slot(k)].s) : \E t \in Todo(n, k) :
     /\ r \in Share(Slot(k), t)
     /\ n[t] = k => r >= I_start(Slot(k), t) + row[t]}

Pendings(F, n) == [k \in Frames(F) |-> Pending(n, k)]
Froms(F, n)    == [k \in Frames(F) |-> From(n, k)]
Tos(F)         == [k \in Frames(F) |-> work_delta_q[Slot(k)]]
Deciding(F, n) == {k \in Frames(F) : At(n, k, {"read", "compute"}) # {}}

(* R are the rows, St the frames in progress, P their pending rows, A and  *)
(* B the levels they go from and to, if not in N where B is not known yet, *)
(* q the level kept and p those of the rows.                               *)
LevelState(R, St, P, A, B, N, q, p) ==
  /\ \A k \in St : \A r \in P[k] :
       (\A j \in St : j < k => r \notin P[j]) => p[r] = A[k]
  /\ \A r \in R : (\A k \in St : r \notin P[k]) => p[r] = q
  /\ \A k \in St :
       (\A j \in St : j <= k) => q = IF k \in N THEN A[k] ELSE B[k]
  /\ \A j, k \in St :
       j < k /\ (\A i \in St : ~(j < i /\ i < k)) => A[k] = B[j]

LevelAt(F, n, s, e) ==
  LevelState(Row(s), Running(F, n, s, e), Pendings(F, n), Froms(F, n), Tos(F),
             Deciding(F, n), delta_q[s][e], prev[s][e])

LevelsInv(F, n) == \A s \in Screen, e \in {0, 1} : LevelAt(F, n, s, e)

(* A frame begins: every row is at the level kept, or will be.             *)
LEMMA LevelBegins ==
  ASSUME NEW R, NEW St, NEW P, NEW A, NEW B, NEW N, NEW q, NEW p, NEW k,
         LevelState(R, St, P, A, B, N, q, p),
         St \subseteq Nat, k \in Nat, \A j \in St : j < k /\ j \notin N,
         P[k] = R,
         NEW A1, \A j \in St : A1[j] = A[j], A1[k] = q,
         NEW N1, k \in N1, \A j \in St : j \notin N1
  PROVE  LevelState(R, St \cup {k}, P, A1, B, N1, q, p)
<1>1. k \notin St
  OBVIOUS
<1> DEFINE T == St \cup {k}
<1>2. ASSUME NEW m \in T, NEW r \in P[m],
             \A j \in T : j < m => r \notin P[j]
      PROVE  p[r] = A1[m]
  <2>1. CASE m = k
    <3>1. \A j \in St : r \notin P[j]
      BY <1>2, <2>1
    <3> QED BY <1>2, <2>1, <3>1 DEF LevelState
  <2>2. CASE m \in St
    BY <1>2, <2>2 DEF LevelState
  <2> QED BY <2>1, <2>2
<1>3. ASSUME NEW r \in R, \A m \in T : r \notin P[m]
      PROVE  p[r] = q
  BY <1>3
<1>4. ASSUME NEW m \in T, \A j \in T : j <= m
      PROVE  q = IF m \in N1 THEN A1[m] ELSE B[m]
  <2>1. m = k
    BY <1>4
  <2> QED BY <2>1
<1>5. ASSUME NEW j \in T, NEW m \in T, j < m, \A i \in T : ~(j < i /\ i < m)
      PROVE  A1[m] = B[j]
  <2>1. j \in St
    BY <1>5
  <2>2. CASE m = k
    <3>1. \A i \in St : i <= j
      BY <1>5, <2>1, <2>2
    <3>2. q = B[j]
      BY <2>1, <3>1 DEF LevelState
    <3> QED BY <2>2, <3>2
  <2>3. CASE m \in St
    <3>1. A[m] = B[j]
      BY <1>5, <2>1, <2>3 DEF LevelState
    <3> QED BY <2>3, <3>1
  <2> QED BY <2>2, <2>3
<1> HIDE DEF T
<1>6. LevelState(R, T, P, A1, B, N1, q, p)
  BY <1>2, <1>3, <1>4, <1>5 DEF LevelState
<1> QED BY <1>6 DEF T

(* The newest frame, which has all its rows before it, gets its level.     *)
Chooses(R, St, P, B, k, B1, N1) ==
  /\ St \subseteq Nat /\ k \in St /\ \A j \in St : j <= k
  /\ P[k] = R
  /\ \A j \in St : j # k => B1[j] = B[j]
  /\ k \notin N1

LEMMA LevelChosen ==
  ASSUME NEW R, NEW St, NEW P, NEW A, NEW B, NEW N, NEW q, NEW p, NEW k,
         NEW B1, NEW N1,
         LevelState(R, St, P, A, B, N, q, p), Chooses(R, St, P, B, k, B1, N1)
  PROVE  LevelState(R, St, P, A, B1, N1, B1[k], p)
<1>0. /\ St \subseteq Nat /\ k \in St /\ \A j \in St : j <= k
      /\ P[k] = R
      /\ \A j \in St : j # k => B1[j] = B[j]
      /\ k \notin N1
  BY DEF Chooses
<1>1. ASSUME NEW m \in St, \A j \in St : j <= m
      PROVE  m = k
  <2>1. m \in Nat /\ k \in Nat /\ m <= k /\ k <= m
    BY <1>0, <1>1
  <2> QED BY <2>1
<1>2. \A j, m \in St : j < m => j # k
  BY <1>0
<1>3. \A r \in R : \E m \in St : r \in P[m]
  BY <1>0
<1>4. ASSUME NEW j \in St, NEW m \in St, j < m,
             \A i \in St : ~(j < i /\ i < m)
      PROVE  A[m] = B1[j]
  <2>1. A[m] = B[j]
    BY <1>4 DEF LevelState
  <2> QED BY <1>0, <1>2, <1>4, <2>1
<1>5. ASSUME NEW m \in St, \A j \in St : j <= m
      PROVE  B1[k] = IF m \in N1 THEN A[m] ELSE B1[m]
  BY <1>0, <1>1, <1>5
<1>6. \A m \in St : \A r \in P[m] :
        (\A j \in St : j < m => r \notin P[j]) => p[r] = A[m]
  BY DEF LevelState
<1> QED BY <1>3, <1>4, <1>5, <1>6 DEF LevelState

(* A row is compressed: it is where the next frame expects it.             *)
Compresses(R, St, P, B, N, p, k, r, P1, p1) ==
  /\ St \subseteq Nat /\ k \in St /\ k \notin N
  /\ \A j \in St : j < k => r \notin P[j]
  /\ \A j \in St : k < j => r \in P[j]
  /\ P1[k] = P[k] \ {r} /\ \A j \in St : j # k => P1[j] = P[j]
  /\ p1[r] = B[k]
  /\ \A x : (x \in R \/ \E j \in St : x \in P[j]) /\ x # r => p1[x] = p[x]

LEMMA LevelRow ==
  ASSUME NEW R, NEW St, NEW P, NEW A, NEW B, NEW N, NEW q, NEW p, NEW k,
         NEW r, NEW P1, NEW p1,
         LevelState(R, St, P, A, B, N, q, p),
         Compresses(R, St, P, B, N, p, k, r, P1, p1)
  PROVE  LevelState(R, St, P1, A, B, N, q, p1)
<1> USE DEF Compresses
<1>1. ASSUME NEW m \in St, NEW x \in P1[m],
             \A j \in St : j < m => x \notin P1[j]
      PROVE  p1[x] = A[m]
  <2>1. CASE x = r
    <3>1. m # k /\ ~(m < k)
      BY <1>1, <2>1
    <3>2. k < m
      BY <3>1
    <3>3. \A i \in St : ~(k < i /\ i < m)
      BY <1>1, <2>1
    <3>4. A[m] = B[k]
      BY <3>2, <3>3 DEF LevelState
    <3> QED BY <2>1, <3>4
  <2>2. CASE x # r
    <3>1. x \in P[m]
      BY <1>1
    <3>2. \A j \in St : j < m => x \notin P[j]
      BY <1>1, <2>2
    <3>3. p[x] = A[m]
      BY <3>1, <3>2 DEF LevelState
    <3> QED BY <2>2, <3>1, <3>3
  <2> QED BY <2>1, <2>2
<1>2. ASSUME NEW x \in R, \A m \in St : x \notin P1[m]
      PROVE  p1[x] = q
  <2>1. CASE x = r
    <3>1. \A j \in St : j <= k
      BY <1>2, <2>1
    <3>2. q = B[k]
      BY <3>1 DEF LevelState
    <3> QED BY <2>1, <3>2
  <2>2. CASE x # r
    <3>1. \A m \in St : x \notin P[m]
      BY <1>2, <2>2
    <3>2. p[x] = q
      BY <3>1 DEF LevelState
    <3> QED BY <2>2, <3>2
  <2> QED BY <2>1, <2>2
<1>3. /\ \A m \in St :
           (\A j \in St : j <= m) => q = IF m \in N THEN A[m] ELSE B[m]
      /\ \A j, m \in St :
           j < m /\ (\A i \in St : ~(j < i /\ i < m)) => A[m] = B[j]
  BY DEF LevelState
<1> QED BY <1>1, <1>2, <1>3 DEF LevelState

(* The oldest frame, which has no rows before it, ends.                    *)
LEMMA LevelEnds ==
  ASSUME NEW R, NEW St, NEW P, NEW A, NEW B, NEW N, NEW q, NEW p, NEW k,
         LevelState(R, St, P, A, B, N, q, p),
         St \subseteq Nat, k \in St, P[k] = {}, \A j \in St : k <= j
  PROVE  LevelState(R, St \ {k}, P, A, B, N, q, p)
<1> DEFINE T == St \ {k}
<1>1. ASSUME NEW m \in T, NEW r \in P[m], \A j \in T : j < m => r \notin P[j]
      PROVE  p[r] = A[m]
  <2>1. \A j \in St : j < m => r \notin P[j]
    BY <1>1
  <2> QED BY <2>1 DEF LevelState
<1>2. ASSUME NEW r \in R, \A m \in T : r \notin P[m]
      PROVE  p[r] = q
  <2>1. \A m \in St : r \notin P[m]
    BY <1>2
  <2> QED BY <2>1 DEF LevelState
<1>3. ASSUME NEW m \in T, \A j \in T : j <= m
      PROVE  q = IF m \in N THEN A[m] ELSE B[m]
  <2>1. \A j \in St : j <= m
    BY <1>3
  <2> QED BY <2>1 DEF LevelState
<1>4. ASSUME NEW j \in T, NEW m \in T, j < m, \A i \in T : ~(j < i /\ i < m)
      PROVE  A[m] = B[j]
  <2>1. \A i \in St : ~(j < i /\ i < m)
    BY <1>4
  <2> QED BY <1>4, <2>1 DEF LevelState
<1> HIDE DEF T
<1>5. LevelState(R, T, P, A, B, N, q, p)
  BY <1>1, <1>2, <1>3, <1>4 DEF LevelState
<1> QED BY <1>5 DEF T

(* Only what concerns the frames in progress matters.                      *)
LEMMA LevelSame ==
  ASSUME NEW R, NEW St, NEW P, NEW A, NEW B, NEW N, NEW q, NEW p,
         LevelState(R, St, P, A, B, N, q, p),
         NEW P1, NEW A1, NEW B1, NEW N1,
         \A j \in St : /\ P1[j] = P[j] /\ A1[j] = A[j] /\ B1[j] = B[j]
                       /\ j \in N1 <=> j \in N
  PROVE  LevelState(R, St, P1, A1, B1, N1, q, p)
BY DEF LevelState

LEMMA StartNat ==
  ASSUME SplitTypes, NEW w \in Work, NEW t \in Thread
  PROVE  I_start(w, t) \in Nat /\ I_count(w, t) \in Nat
         /\ Share(w, t) = I_start(w, t) .. I_start(w, t) + I_count(w, t) - 1
<1>1. PICK r \in Nat : r = info[w].rows
  BY InfoFacts
<1>2. t \in Nat
  BY ThreadFinite DEF Thread
<1>3. I_start(w, t) \in Nat
  BY <1>1, <1>2 DEF I_start
<1> QED BY <1>3, CountNat DEF Share

(* A step of thread t leaves the other frames' rows and levels alone, and  *)
(* its own frame's rows unless it compresses one.                          *)
LEMMA PendingStep ==
  ASSUME Types, NEW F, NEW n, FramesInv(F, n), WorksInv(F, n), RowInv,
         NEW t \in Thread, Step(t), pc[t] # "finish"
  PROVE  /\ \A j \in Frames(F) : j # n[t] =>
              /\ Pending(n, j)' = Pending(n, j)
              /\ From(n, j)' = From(n, j)
              /\ work_delta_q'[Slot(j)] = work_delta_q[Slot(j)]
              /\ At(n, j, {"read", "compute"})' = At(n, j, {"read", "compute"})
         /\ Compress(t) \/ Pending(n, n[t])' = Pending(n, n[t])
<1>1. /\ n \in [Thread -> Nat] /\ F \in Nat /\ n[t] < F
      /\ n[t] \in Frames(F) /\ wi[t] = Slot(n[t]) /\ wi[t] \in Work
      /\ \A j \in Frames(F) : j # n[t] => Slot(j) # wi[t]
  BY FramesStep, InFrame DEF FramesInv
<1>2. /\ info' = info
      /\ \A u \in Thread : u # t => pc'[u] = pc[u] /\ row'[u] = row[u]
  BY StepLocal DEF split
<1>3. SplitTypes /\ ThreadTypes
  BY TypesParts
<1>4. ASSUME NEW j \in Frames(F), j # n[t]
      PROVE  /\ Pending(n, j)' = Pending(n, j)
             /\ From(n, j)' = From(n, j)
             /\ work_delta_q'[Slot(j)] = work_delta_q[Slot(j)]
             /\ At(n, j, {"read", "compute"})' = At(n, j, {"read", "compute"})
  <2>1. Slot(j) \in Work /\ Slot(j) # wi[t] /\ j \in Nat
    BY <1>1, <1>4, SlotFacts
  <2>2. /\ work_delta_q'[Slot(j)] = work_delta_q[Slot(j)]
        /\ work_from'[Slot(j)] = work_from[Slot(j)]
    BY <2>1, StepLocal
  <2>3. /\ At(n, j, {"read", "compute"})' = At(n, j, {"read", "compute"})
        /\ At(n, j, {"read"})' = At(n, j, {"read"})
    BY <1>2, <1>4 DEF At
  <2>4. Todo(n, j)' = Todo(n, j)
    BY <1>1, <1>2, <1>4, <2>1 DEF Todo
  <2>5. Pending(n, j)' = Pending(n, j)
    <3>1. \A u \in Todo(n, j) : n[u] = j => row'[u] = row[u]
      BY <1>2, <1>4 DEF Todo
    <3> QED BY <1>2, <2>4, <3>1 DEF Pending, Share, I_start, I_count
  <2>6. From(n, j)' = From(n, j)
    <3>1. CASE At(n, j, {"read"}) = {}
      BY <2>2, <2>3, <3>1 DEF From
    <3>2. CASE At(n, j, {"read"}) # {}
      <4>1. PICK u \in At(n, j, {"read"}) : TRUE
        BY <3>2
      <4>2. u \in At(n, j, Choosing) /\ u # t
        BY <1>4, <4>1 DEF At, Choosing
      <4>3. pc[t] \notin Choosing
        BY <4>2, OneChooser
      <4>4. UNCHANGED delta_q
        BY <4>3 DEF Choosing, Step, Encode, Claim, Need_sync,
           Screen_sem_acquire, Screen_owned, Sample_row, Compute_dq,
           Release_work_sem, Work_sem_acquire, Compress, Work_sem_count,
           Hand_on, Clear_screen_bool, Release_screen_sem, Finish, level
      <4> QED BY <1>2, <2>3, <3>2, <4>4 DEF From
    <3> QED BY <3>1, <3>2
  <2> QED BY <2>2, <2>3, <2>5, <2>6
<1>5. ASSUME ~Compress(t)
      PROVE  Pending(n, n[t])' = Pending(n, n[t])
  <2>1. row' = row
    BY <1>5, StepLocal
  <2>2. PICK k \in Nat : k = n[t]
    BY <1>1
  <2>3. CASE ~Work_sem_count(t)
    <3>1. pc'[t] \in Before \cup Choosing \cup {"rows"} <=>
            pc[t] \in Before \cup Choosing \cup {"rows"}
      BY <1>3, <2>3, StepEdge DEF Step, Before, Choosing, Asking
    <3>2. Todo(n, k)' = Todo(n, k)
      BY <1>1, <1>2, <2>2, <3>1 DEF Todo
    <3> QED BY <1>2, <2>1, <2>2, <3>2 DEF Pending, Share, I_start, I_count
  <2>4. CASE Work_sem_count(t)
    <3>1. row[t] = I_count(wi[t], t)
      BY <2>4 DEF Work_sem_count
    <3>2. \A r \in Share(wi[t], t) : ~(r >= I_start(wi[t], t) + row[t])
      BY <1>1, <1>3, <3>1, StartNat
    <3>3. Todo(n, k)' \cup {t} = Todo(n, k)
      <4>1. pc[t] = "rows" /\ pc'[t] \in {"hand", "finish"}
        BY <1>3, <2>4, StepEdge
      <4> QED BY <1>1, <1>2, <2>2, <4>1 DEF Todo, Before, Choosing, Asking
    <3>4. \A u \in Todo(n, k) : u # t => u \in Todo(n, k)'
      BY <3>3
    <3>5. ASSUME NEW r, NEW u \in Todo(n, k), r \in Share(Slot(k), u),
                 n[u] = k => r >= I_start(Slot(k), u) + row[u]
          PROVE  u \in Todo(n, k)'
      BY <1>1, <2>2, <3>2, <3>4, <3>5
    <3> QED BY <1>2, <2>1, <2>2, <3>3, <3>5 DEF Pending, Share, I_start, I_count
  <2> QED BY <2>3, <2>4
<1> QED BY <1>4, <1>5

(* Before anybody has entered it, a frame has the whole screen before it.  *)
LEMMA AllPending ==
  ASSUME Types, NEW n, NEW k, Slot(k) \in Work, Splits(info[Slot(k)]),
         Todo(n, k) = Thread, \A u \in Thread : n[u] = k => row[u] = 0
  PROVE  Pending(n, k) = Row(info[Slot(k)].s)
<1>1. SplitTypes
  BY TypesParts
<1>2. info[Slot(k)].s \in Screen
  BY <1>1, InfoFacts
<1>3. SUFFICES ASSUME NEW r \in Row(info[Slot(k)].s)
               PROVE  r \in Pending(n, k)
  BY DEF Pending
<1>4. PICK u \in Thread : r \in Share(Slot(k), u)
  BY <1>2, SharesCover
<1>5. I_start(Slot(k), u) \in Nat /\ r >= I_start(Slot(k), u)
  BY <1>1, <1>4, StartNat
<1>6. n[u] = k => r >= I_start(Slot(k), u) + row[u]
  BY <1>5
<1> QED BY <1>4, <1>6 DEF Pending

(* While a thread chooses nobody has entered its frame.                    *)
LEMMA ChooserPending ==
  ASSUME Types, NEW F, NEW n, FramesInv(F, n), SplitInv, WorksInv(F, n),
         RowInv, NEW t \in Thread, pc[t] \in Choosing
  PROVE  Pending(n, n[t]) = Row(info[wi[t]].s)
<1>1. n[t] < F
  BY DEF FramesInv, Choosing, Asking
<1>2. n[t] \in Frames(F) /\ wi[t] = Slot(n[t]) /\ wi[t] \in Work
      /\ t \in left[wi[t]]
  BY <1>1, InFrame
<1>3. t \in At(n, n[t], Choosing)
  BY DEF At
<1>4. \A u \in Thread : u # t => u \in Out(n, n[t])
  BY <1>2, <1>3, OneChooser
<1>5. Todo(n, n[t]) = Thread
  BY <1>4 DEF Out, Todo
<1>6. \A u \in Thread : n[u] = n[t] => row[u] = 0
  <2>1. n \in [Thread -> Nat]
    BY DEF FramesInv
  <2>2. \A u \in Thread : n[u] = n[t] => pc[u] \in Before \cup Choosing
    BY <1>4, <2>1 DEF Out
  <2> QED BY <2>2 DEF RowInv, Before, Choosing, Asking
<1>7. Splits(info[Slot(n[t])])
  BY <1>2 DEF SplitInv
<1> QED BY <1>2, <1>5, <1>6, <1>7, AllPending

LEMMA LevelStep ==
  ASSUME Types, NEW F, NEW n, FramesInv(F, n), SplitInv, RowInv,
         WorksInv(F, n), ScreensInv(F, n),
         NEW t \in Thread, Step(t), pc[t] # "finish",
         NEW s \in Screen, NEW e \in {0, 1}, LevelAt(F, n, s, e)
  PROVE  LevelAt(F, n, s, e)'
<1>1. /\ n \in [Thread -> Nat] /\ F \in Nat /\ n[t] < F
      /\ n[t] \in Frames(F) /\ wi[t] = Slot(n[t]) /\ wi[t] \in Work
      /\ t \in left[wi[t]]
  BY FramesStep, InFrame DEF FramesInv
<1>2. PICK k \in Frames(F) : k = n[t] /\ k \in Nat /\ wi[t] = Slot(k)
  BY <1>1
<1>3. info' = info /\ \A u \in Thread : u # t => pc'[u] = pc[u]
  BY StepLocal DEF split
<1>4. SynTypes /\ ThreadTypes /\ SplitTypes /\ LevelTypes
  BY TypesParts
<1>5. PICK z \in Screen, y \in {0, 1} :
        z = info[wi[t]].s /\ y = info[wi[t]].e
  BY <1>1, <1>4, InfoFacts
<1> DEFINE St  == Running(F, n, s, e)
           St1 == Running(F, n, s, e)'
           P   == Pendings(F, n)
           P1  == Pendings(F, n)'
           A   == Froms(F, n)
           A1  == Froms(F, n)'
           B   == Tos(F)
           B1  == Tos(F)'
           N   == Deciding(F, n)
           N1  == Deciding(F, n)'
           Ask  == At(n, k, Asking)
           Ask1 == At(n, k, Asking)'
<1>6. LevelState(Row(s), St, P, A, B, N, delta_q[s][e], prev[s][e])
  BY DEF LevelAt
<1>7. ASSUME NEW q, delta_q'[s][e] = q, NEW p, prev'[s][e] = p,
             LevelState(Row(s), St1, P1, A1, B1, N1, q, p)
      PROVE  LevelAt(F, n, s, e)'
  <2>1. LevelState(Row(s), St1, P1, A1, B1, N1, delta_q'[s][e], prev'[s][e])
    BY <1>7, Zenon
  <2> QED BY <2>1 DEF LevelAt, LevelState, Row, Mcu_rows
<1>8. /\ \A j : j # k => (j \in St1 <=> j \in St)
      /\ k \in St <=> inited[wi[t]] /\ z = s /\ y = e /\ Ask = {}
      /\ k \in St1 <=> inited'[wi[t]] /\ z = s /\ y = e /\ Ask1 = {}
  <2>1. /\ \A j : j # k => (j \in Started(F, n, s)' <=> j \in Started(F, n, s))
        /\ k \in Started(F, n, s) <=> inited[wi[t]] /\ z = s /\ Ask = {}
        /\ k \in Started(F, n, s)' <=> inited'[wi[t]] /\ z = s /\ Ask1 = {}
    BY <1>2, <1>5, StartedStep
  <2> QED BY <1>2, <1>3, <1>5, <2>1 DEF Running
<1>9. St \subseteq Frames(F) /\ St \subseteq Nat
      /\ \A j \in St : inited[Slot(j)] /\ j \in Started(F, n, s)
  BY DEF Running, Started, Frames
<1>10. \A j \in Frames(F) : j # k =>
         P1[j] = P[j] /\ A1[j] = A[j] /\ B1[j] = B[j] /\ (j \in N1 <=> j \in N)
  <2>1. \A j \in Frames(F) : j # k =>
          /\ Pending(n, j)' = Pending(n, j)
          /\ From(n, j)' = From(n, j)
          /\ work_delta_q'[Slot(j)] = work_delta_q[Slot(j)]
          /\ At(n, j, {"read", "compute"})' = At(n, j, {"read", "compute"})
    BY <1>2, PendingStep
  <2> QED BY <2>1 DEF Pendings, Froms, Tos, Deciding
<1>11. /\ P[k] = Pending(n, k) /\ P1[k] = Pending(n, k)'
       /\ A[k] = From(n, k) /\ A1[k] = From(n, k)'
       /\ B[k] = work_delta_q[wi[t]] /\ B1[k] = work_delta_q'[wi[t]]
       /\ k \in N <=> At(n, k, {"read", "compute"}) # {}
       /\ k \in N1 <=> At(n, k, {"read", "compute"})' # {}
  BY <1>2 DEF Pendings, Froms, Tos, Deciding
<1>12. Compress(t) \/ P1[k] = P[k]
  BY <1>2, <1>11, PendingStep
<1>13. ASSUME NEW X
       PROVE  /\ t \in At(n, k, X) <=> pc[t] \in X
              /\ At(n, k, X)' = IF pc'[t] \in X THEN At(n, k, X) \cup {t}
                                ELSE At(n, k, X) \ {t}
  BY <1>2, <1>3 DEF At
<1>14. ASSUME pc[t] \in Choosing
       PROVE  /\ inited[wi[t]]
              /\ \A u \in Thread : pc[u] \in Choosing => u = t
              /\ \A j \in Frames(F) : inited[Slot(j)] => j <= k
              /\ \A X : X \subseteq Choosing => At(n, k, X) \subseteq {t}
              /\ \A j \in St : j # k => j \notin N
              /\ P[k] = Row(z)
  <2>1. t \in At(n, k, Choosing)
    BY <1>2, <1>14 DEF At
  <2>2. /\ inited[wi[t]]
        /\ \A u \in Thread : pc[u] \in Choosing => u = t
        /\ \A j \in Frames(F) : inited[Slot(j)] => j <= k
    BY <1>2, <2>1, OneChooser
  <2>3. \A X : X \subseteq Choosing => At(n, k, X) \subseteq {t}
    BY <2>2 DEF At
  <2>4. \A j \in St : j # k => j \notin N
    BY <1>2, <2>2 DEF Deciding, At, Choosing
  <2>5. P[k] = Row(z)
    BY <1>2, <1>5, <1>11, <1>14, ChooserPending
  <2> QED BY <2>2, <2>3, <2>4, <2>5
<1>15. work_from \in [Work -> Level] /\ work_delta_q \in [Work -> Level]
       /\ inited \in [Work -> BOOLEAN]
  BY <1>4 DEF LevelTypes, SynTypes
<1>16. info[Slot(k)].s = z /\ info[Slot(k)].e = y
  BY <1>2, <1>5
<1> HIDE DEF St, St1, P, P1, A, A1, B, B1, N, N1, Ask, Ask1
(* Nothing of this half image changes.                                     *)
<1>17. ASSUME k \in St1 <=> k \in St,
              delta_q'[s][e] = delta_q[s][e], prev'[s][e] = prev[s][e],
              k \in St => P1[k] = P[k] /\ A1[k] = A[k] /\ B1[k] = B[k]
                            /\ (k \in N1 <=> k \in N)
       PROVE  LevelAt(F, n, s, e)'
  <2>1. St1 = St
    BY <1>8, <1>17
  <2>2. \A j \in St : /\ P1[j] = P[j] /\ A1[j] = A[j] /\ B1[j] = B[j]
                      /\ j \in N1 <=> j \in N
    BY <1>9, <1>10, <1>17
  <2>3. LevelState(Row(s), St, P1, A1, B1, N1, delta_q[s][e], prev[s][e])
    BY <1>6, <2>2, LevelSame
  <2> QED BY <1>7, <1>17, <2>1, <2>3, Zenon
(* A frame of this half image begins.                                      *)
<1>18. ASSUME z = s, y = e, k \notin St, inited'[wi[t]], Ask1 = {},
              pc'[t] = "read", UNCHANGED <<delta_q, work_delta_q, prev>>,
              \A j \in St : j < k /\ j \notin N, P[k] = Row(s), ~Compress(t)
       PROVE  LevelAt(F, n, s, e)'
  <2>1. St1 = St \cup {k}
    BY <1>8, <1>18
  <2>2. /\ t \in At(n, k, {"read"})'
        /\ t \in At(n, k, {"read", "compute"})'
    BY <1>2, <1>18 DEF At
  <2>3. A1[k] = delta_q[s][e]
    BY <1>3, <1>11, <1>16, <1>18, <2>2 DEF From
  <2>4. k \in N1
    BY <1>11, <2>2
  <2>5. \A j \in St : A1[j] = A[j] /\ j \notin N1 /\ P1[j] = P[j] /\ B1[j] = B[j]
    BY <1>9, <1>10, <1>18
  <2>6. LevelState(Row(s), St \cup {k}, P, A1, B, N1, delta_q[s][e], prev[s][e])
    <3>1. \A j \in St : A1[j] = A[j]
      BY <2>5
    <3>2. \A j \in St : j \notin N1
      BY <2>5
    <3>3. \A j \in St : j < k /\ j \notin N
      BY <1>18
    <3>4. P[k] = Row(s) /\ St \subseteq Nat /\ k \in Nat
      BY <1>2, <1>9, <1>18
    <3> QED BY <1>6, <2>3, <2>4, <3>1, <3>2, <3>3, <3>4, LevelBegins, Zenon
  <2>7. P1[k] = P[k] /\ B1[k] = B[k]
    BY <1>11, <1>12, <1>18
  <2>8. LevelState(Row(s), St \cup {k}, P1, A1, B1, N1, delta_q[s][e],
                   prev[s][e])
    <3>1. \A j \in St \cup {k} :
            /\ P1[j] = P[j] /\ A1[j] = A1[j] /\ B1[j] = B[j]
            /\ j \in N1 <=> j \in N1
      BY <2>5, <2>7
    <3> QED BY <2>6, <3>1, LevelSame
  <2>9. delta_q'[s][e] = delta_q[s][e] /\ prev'[s][e] = prev[s][e]
    BY <1>18
  <2> QED BY <1>7, <2>1, <2>8, <2>9, Zenon
(* Another half image than the thread's.                                   *)
<1>19. CASE ~(z = s /\ y = e)
  <2>1. k \notin St /\ k \notin St1
    BY <1>8, <1>19
  <2>2. delta_q'[s][e] = delta_q[s][e]
    <3>1. \/ delta_q' = delta_q
          \/ \E q \in Level : delta_q' = [delta_q EXCEPT ![z][y] = q]
      BY <1>5 DEF Step, Encode, Claim, Need_sync,
           Screen_sem_acquire, Screen_owned, Sample_row, Compute_dq,
           Release_work_sem, Work_sem_acquire, Compress, Work_sem_count,
           Hand_on, Clear_screen_bool, Release_screen_sem, Finish, level
    <3>2. delta_q \in [Screen -> [{0, 1} -> Level]]
      BY <1>4 DEF LevelTypes
    <3> QED BY <1>19, <3>1, <3>2
  <2>3. prev'[s][e] = prev[s][e]
    <3>1. \/ prev' = prev
          \/ \E q, r : prev' = [prev EXCEPT ![z][y][r] = q]
      <4>1. CASE Compress(t)
        BY <1>5, <4>1 DEF Compress
      <4>2. CASE ~Compress(t)
        BY <4>2, StepLocal
      <4> QED BY <4>1, <4>2
    <3>2. prev = [x \in Screen |-> prev[x]]
          /\ \A x \in Screen : prev[x] \in [{0, 1} -> [Row(x) -> Level]]
      BY <1>4 DEF LevelTypes
    <3>3. CASE \E q, r : prev' = [prev EXCEPT ![z][y][r] = q]
      <4>1. PICK q, r : prev' = [prev EXCEPT ![z][y][r] = q]
        BY <3>3
      <4>2. PICK p : p = prev /\ p = [x \in Screen |-> p[x]]
        BY <3>2
      <4>3. PICK f : f = p[z] /\ f \in [{0, 1} -> [Row(z) -> Level]]
        BY <3>2, <4>2
      <4>4. prev' = [p EXCEPT ![z] = [f EXCEPT ![y][r] = q]]
        BY <4>1, <4>2, <4>3
      <4>5. prev'[s] = IF s = z THEN [f EXCEPT ![y][r] = q] ELSE p[s]
        BY <4>2, <4>4
      <4>6. CASE s # z
        BY <4>2, <4>5, <4>6
      <4>7. CASE s = z
        <5>1. prev'[s][e] = f[e]
          BY <1>19, <4>3, <4>5, <4>7
        <5> QED BY <4>2, <4>3, <4>7, <5>1
      <4> QED BY <4>6, <4>7
    <3> QED BY <3>1, <3>3
  <2> QED BY <1>17, <2>1, <2>2, <2>3
<1>20. SUFFICES ASSUME z = s /\ y = e PROVE LevelAt(F, n, s, e)'
  BY <1>19
<1>21. Asking \subseteq Choosing
  BY DEF Choosing
<1>22. ASSUME pc[t] \notin Asking, pc'[t] \notin Asking,
              inited'[wi[t]] = inited[wi[t]]
       PROVE  k \in St1 <=> k \in St
  <2>1. Ask1 = Ask
    BY <1>13, <1>22 DEF Ask, Ask1
  <2> QED BY <1>8, <1>22, <2>1
<1>23. CASE Encode(t) \/ Release_work_sem(t) \/ Work_sem_acquire(t)
            \/ Work_sem_count(t) \/ Clear_screen_bool(t)
            \/ Release_screen_sem(t) \/ (Claim(t) /\ inited[wi[t]])
  <2>1. /\ UNCHANGED <<delta_q, work_delta_q, work_from, prev>>
        /\ inited'[wi[t]] = inited[wi[t]]
    <3>1. CASE Claim(t) /\ inited[wi[t]]
      BY <1>1, <1>15, <3>1 DEF Claim, level
    <3>2. CASE ~(Claim(t) /\ inited[wi[t]])
      <4>1. UNCHANGED <<delta_q, work_delta_q, work_from, prev, inited>>
        BY <1>23, <3>2 DEF Encode, Release_work_sem, Work_sem_acquire,
         Work_sem_count, Clear_screen_bool, Release_screen_sem, syn, level
      <4> QED BY <4>1
    <3> QED BY <3>1, <3>2
  <2>2. /\ pc[t] \notin Asking \cup {"read", "compute"}
        /\ pc'[t] \notin Asking \cup {"read", "compute"}
        /\ ~Compress(t) \/ Work_sem_count(t)
    BY <1>4, <1>23, StepEdge DEF Asking
  <2>3. k \in St1 <=> k \in St
    BY <1>22, <2>1, <2>2
  <2>4. /\ At(n, k, {"read"})' = At(n, k, {"read"})
        /\ At(n, k, {"read", "compute"})' = At(n, k, {"read", "compute"})
    BY <1>13, <2>2
  <2>5. A1[k] = A[k] /\ B1[k] = B[k] /\ (k \in N1 <=> k \in N)
    BY <1>3, <1>11, <2>1, <2>4 DEF From
  <2>6. ~Compress(t)
    <3>1. Work_sem_count(t) => row[t] = I_count(wi[t], t)
      BY DEF Work_sem_count
    <3>2. Compress(t) => row[t] < I_count(wi[t], t)
      BY DEF Compress
    <3>3. I_count(wi[t], t) \in Nat
      BY <1>1, <1>4, CountNat
    <3> QED BY <2>2, <3>1, <3>2, <3>3
  <2>7. P1[k] = P[k]
    BY <1>12, <2>6
  <2> QED BY <1>17, <2>1, <2>3, <2>5, <2>7
<1>24. CASE Claim(t) /\ ~inited[wi[t]]
  <2>1. /\ UNCHANGED <<delta_q, work_delta_q, work_from, prev>>
        /\ inited'[wi[t]] = TRUE
    BY <1>1, <1>15, <1>24 DEF Claim, level
  <2>2. pc[t] = "claim" /\ pc'[t] = IF CORE_COUNT = 1 THEN "read" ELSE "sync"
    BY <1>4, <1>24, StepEdge
  <2>3. k \notin St
    BY <1>8, <1>24
  <2>4. CASE CORE_COUNT # 1
    <3>1. t \in Ask1
      BY <1>13, <2>2, <2>4 DEF Ask1, Asking
    <3>2. k \notin St1
      BY <1>8, <3>1
    <3> QED BY <1>17, <2>1, <2>3, <3>2
  <2>5. CASE CORE_COUNT = 1
    <3>1. Thread = {t}
      BY <2>5 DEF Thread
    <3>2. pc'[t] = "read" /\ ~Compress(t)
      BY <2>2, <2>5 DEF Compress
    <3>3. Ask1 = {}
      <4>1. Ask1 \subseteq Thread /\ t \notin Ask1
        BY <1>13, <3>2 DEF Ask1, At, Asking
      <4> QED BY <3>1, <4>1
    <3>4. \A j \in St : j < k /\ j \notin N
      <4>1. SUFFICES ASSUME NEW j \in St PROVE j < k /\ j \notin N
        OBVIOUS
      <4>2. j \in Frames(F) /\ inited[Slot(j)] /\ j # k /\ j \in Nat
        BY <1>9, <2>3
      <4>3. Out(n, j) # Thread
        BY <4>2 DEF WorksInv, WorkAt, WorkState
      <4>4. t \notin Out(n, j)
        BY <3>1, <4>3 DEF Out
      <4>5. j < k
        BY <1>1, <1>2, <4>2, <4>4 DEF Out
      <4>6. At(n, j, {"read", "compute"}) = {}
        BY <2>2, <3>1 DEF At
      <4> QED BY <4>5, <4>6 DEF N, Deciding
    <3>5. P[k] = Row(s)
      <4>1. Todo(n, k) = Thread
        BY <1>2, <2>2, <3>1 DEF Todo, Before
      <4>2. \A u \in Thread : n[u] = k => row[u] = 0
        BY <2>2, <3>1 DEF RowInv
      <4>3. Splits(info[Slot(k)])
        BY <1>1, <1>2 DEF SplitInv
      <4>4. Slot(k) \in Work
        BY <1>1, <1>2
      <4> QED BY <1>11, <1>16, <1>20, <4>1, <4>2, <4>3, <4>4, AllPending
    <3> QED BY <1>18, <1>20, <2>1, <2>3, <3>2, <3>3, <3>4, <3>5
  <2> QED BY <2>4, <2>5
<1>25. CASE Need_sync(t) \/ Screen_sem_acquire(t) \/ Screen_owned(t)
  <2>1. UNCHANGED <<delta_q, work_delta_q, work_from, prev, inited>>
    BY <1>25 DEF Need_sync, Screen_sem_acquire, Screen_owned, level
  <2>2. pc[t] \in Asking /\ pc[t] \in Choosing
        /\ pc'[t] \in {"screen_sem", "own", "read"} /\ ~Compress(t)
    BY <1>4, <1>25, StepEdge DEF Asking, Choosing, Compress
  <2>3. inited[wi[t]] /\ Ask = {t} /\ k \notin St
    <3>1. t \in Ask
      BY <1>13, <2>2 DEF Ask
    <3>2. inited[wi[t]] /\ Ask \subseteq {t}
      BY <1>14, <1>21, <2>2 DEF Ask
    <3> QED BY <1>8, <3>1, <3>2
  <2>4. CASE pc'[t] # "read"
    <3>1. t \in Ask1
      BY <1>13, <2>2, <2>4 DEF Ask1, Asking
    <3>2. k \notin St1
      BY <1>8, <3>1
    <3> QED BY <1>17, <2>1, <2>3, <3>2
  <2>5. CASE pc'[t] = "read"
    <3>1. Ask1 = {}
      <4>1. Ask1 = Ask \ {t}
        BY <1>13, <2>5 DEF Ask, Ask1, Asking
      <4> QED BY <2>3, <4>1
    <3>2. \A j \in St : j < k /\ j \notin N
      <4>1. \A j \in St : j <= k /\ j # k /\ j \in Nat /\ j \notin N
        BY <1>9, <1>14, <2>2, <2>3
      <4> QED BY <1>2, <4>1
    <3>3. P[k] = Row(s)
      BY <1>14, <1>20, <2>2
    <3>4. inited'[wi[t]]
      BY <2>1, <2>3
    <3> QED BY <1>18, <1>20, <2>1, <2>2, <2>3, <2>5, <3>1, <3>2, <3>3, <3>4
  <2> QED BY <2>4, <2>5
<1>26. CASE Sample_row(t)
  <2>1. /\ UNCHANGED <<delta_q, work_delta_q, prev, inited>>
        /\ work_from' = [work_from EXCEPT ![wi[t]] = delta_q[z][y]]
    BY <1>5, <1>26 DEF Sample_row, syn
  <2>2. pc[t] = "read" /\ pc'[t] = "compute" /\ ~Compress(t)
        /\ pc[t] \in Choosing
    BY <1>4, <1>26, StepEdge DEF Compress, Choosing
  <2>3. k \in St1 <=> k \in St
    BY <1>22, <2>1, <2>2 DEF Asking
  <2>4. At(n, k, {"read"}) # {} /\ At(n, k, {"read"})' = {}
    <3>1. t \in At(n, k, {"read"})
      BY <1>13, <2>2
    <3>2. At(n, k, {"read"}) \subseteq {t}
      BY <1>14, <2>2 DEF Choosing
    <3>3. At(n, k, {"read"})' = At(n, k, {"read"}) \ {t}
      BY <1>13, <2>2
    <3> QED BY <3>1, <3>2, <3>3
  <2>5. k \in N1 /\ k \in N
    <3>1. t \in At(n, k, {"read", "compute"}) /\ t \in At(n, k, {"read", "compute"})'
      BY <1>13, <2>2
    <3> QED BY <1>11, <3>1
  <2>6. A[k] = delta_q[z][y]
    BY <1>11, <1>16, <2>4 DEF From
  <2>7. A1[k] = delta_q[z][y]
    <3>1. work_from'[Slot(k)] = delta_q[z][y]
      BY <1>1, <1>2, <1>15, <2>1
    <3> QED BY <1>11, <2>4, <3>1 DEF From
  <2>8. B1[k] = B[k] /\ P1[k] = P[k]
    BY <1>11, <1>12, <2>1, <2>2
  <2> QED BY <1>17, <2>1, <2>3, <2>5, <2>6, <2>7, <2>8
<1>27. CASE \E q \in Level : Compute_dq(t, q)
  <2>1. PICK q \in Level : Compute_dq(t, q)
    BY <1>27
  <2>2. /\ delta_q' = [delta_q EXCEPT ![s][e] = q]
        /\ work_delta_q' = [work_delta_q EXCEPT ![wi[t]] = q]
        /\ UNCHANGED <<work_from, prev, inited>>
    BY <1>5, <1>20, <2>1 DEF Compute_dq, syn
  <2>3. pc[t] = "compute" /\ pc'[t] = "wake" /\ ~Compress(t)
        /\ pc[t] \in Choosing /\ pc[t] \notin Asking /\ pc'[t] \notin Asking
    BY <1>4, <2>1, StepEdge DEF Compress, Choosing, Asking
  <2>4. Ask = {}
    <3>1. Ask \subseteq {t} /\ t \notin Ask
      BY <1>13, <1>14, <1>21, <2>3 DEF Ask
    <3> QED BY <3>1
  <2>5. k \in St /\ k \in St1
    <3>1. k \in St
      BY <1>8, <1>14, <1>20, <2>3, <2>4
    <3> QED BY <1>22, <2>2, <2>3, <3>1
  <2>6. St1 = St
    BY <1>8, <2>5
  <2>7. k \notin N1
    <3>1. At(n, k, {"read", "compute"}) \subseteq {t}
      BY <1>14, <2>3 DEF Choosing
    <3>2. At(n, k, {"read", "compute"})' = At(n, k, {"read", "compute"}) \ {t}
      BY <1>13, <2>3
    <3> QED BY <1>11, <3>1, <3>2
  <2>8. At(n, k, {"read"}) = {} /\ At(n, k, {"read"})' = {}
    <3>1. At(n, k, {"read"}) \subseteq {t} /\ t \notin At(n, k, {"read"})
      BY <1>13, <1>14, <2>3 DEF Choosing
    <3>2. At(n, k, {"read"})' = At(n, k, {"read"}) \ {t}
      BY <1>13, <2>3
    <3> QED BY <3>1, <3>2
  <2>9. A1[k] = A[k]
    BY <1>11, <2>2, <2>8 DEF From
  <2>10. B1[k] = q /\ P1[k] = P[k]
    BY <1>1, <1>11, <1>12, <1>15, <2>2, <2>3
  <2>11. delta_q'[s][e] = B1[k] /\ prev'[s][e] = prev[s][e]
    <3>1. delta_q \in [Screen -> [{0, 1} -> Level]]
      BY <1>4 DEF LevelTypes
    <3> QED BY <2>2, <2>10, <3>1
  <2>12. \A j \in St : j <= k
    BY <1>9, <1>14, <2>3
  <2>13. P[k] = Row(s)
    BY <1>14, <1>20, <2>3
  <2>14. \A j \in St : j # k => B1[j] = B[j]
    BY <1>9, <1>10
  <2>15. LevelState(Row(s), St, P, A, B1, N1, B1[k], prev[s][e])
    <3>1. Chooses(Row(s), St, P, B, k, B1, N1)
      BY <1>9, <2>5, <2>7, <2>12, <2>13, <2>14 DEF Chooses
    <3> QED BY <1>6, <3>1, LevelChosen
  <2>16. LevelState(Row(s), St, P1, A1, B1, N1, B1[k], prev[s][e])
    <3>1. \A j \in St : /\ P1[j] = P[j] /\ A1[j] = A[j] /\ B1[j] = B1[j]
                        /\ j \in N1 <=> j \in N1
      BY <1>9, <1>10, <2>9, <2>10
    <3> QED BY <2>15, <3>1, LevelSame
  <2> QED BY <1>7, <2>6, <2>11, <2>16, Zenon
<1>28. CASE Compress(t)
  <2>1. PICK r : r = I_start(wi[t], t) + row[t]
    OBVIOUS
  <2>2. /\ pc[t] = "rows" /\ row[t] < I_count(wi[t], t)
        /\ prev' = [prev EXCEPT ![s][e][r] = work_delta_q[wi[t]]]
        /\ row' = [row EXCEPT ![t] = @ + 1]
        /\ UNCHANGED <<delta_q, work_delta_q, work_from, inited, pc>>
    BY <1>5, <1>20, <1>28, <2>1 DEF Compress, syn
  <2>3. k \in Started(F, n, s) /\ Splits(info[wi[t]])
    <3>1. pc[t] \in Touching
      BY <2>2 DEF Touching
    <3>2. n[t] \in Started(F, n, info[wi[t]].s)
      BY <3>1, TouchingStarted
    <3> QED BY <1>1, <1>2, <1>5, <1>20, <3>2 DEF SplitInv
  <2>4. k \in St
    BY <1>16, <1>20, <2>3 DEF St, Running
  <2>5. St1 = St
    <3>1. k \in St1 <=> k \in St
      BY <1>22, <2>2 DEF Asking
    <3> QED BY <1>8, <3>1
  <2>6. k \notin N /\ (k \in N1 <=> k \in N) /\ A1[k] = A[k] /\ B1[k] = B[k]
    <3>1. At(n, k, Choosing) = {}
      BY <1>2, <2>2, RowsStarted
    <3>2. At(n, k, {"read", "compute"}) = {}
      BY <3>1 DEF At, Choosing
    <3>3. /\ At(n, k, {"read"})' = At(n, k, {"read"})
          /\ At(n, k, {"read", "compute"})' = At(n, k, {"read", "compute"})
      BY <2>2 DEF At
    <3> QED BY <1>3, <1>11, <2>2, <3>2, <3>3 DEF From
  <2>7. /\ I_start(wi[t], t) \in Nat /\ I_count(wi[t], t) \in Nat
        /\ row[t] \in Nat /\ r \in Nat
        /\ r \in Share(wi[t], t)
    <3>1. row[t] \in Nat
      BY <1>4 DEF ThreadTypes
    <3> QED BY <1>1, <1>4, <2>1, <2>2, <3>1, StartNat
  <2>8. r \in Row(s)
    BY <1>5, <1>20, <2>3, <2>7, SharesCover
  <2>9. \A u \in Thread : u # t => r \notin Share(wi[t], u)
    BY <2>3, <2>7, SharesDisjoint
  <2>10. \A j \in St : \A u \in Thread : Share(Slot(j), u) = Share(wi[t], u)
    BY <1>2, <1>9, <2>3, SameShares
  <2>11. \A j \in St : info[Slot(j)].s = s
    BY DEF St, Running, Started
  <2>12. \A j \in St : P[j] = Pending(n, j)
    BY <1>9 DEF P, Pendings
  <2>13. \A j \in St : j < k => r \notin P[j]
    <3>1. SUFFICES ASSUME NEW j \in St, j < k, r \in Pending(n, j) PROVE FALSE
      BY <2>12
    <3>2. PICK u \in Todo(n, j) : r \in Share(Slot(j), u)
      BY <3>1 DEF Pending
    <3>3. u \in Thread /\ u = t
      BY <2>9, <2>10, <3>2 DEF Todo
    <3>4. n[t] <= j
      BY <1>1, <1>9, <3>2, <3>3 DEF Todo
    <3> QED BY <1>2, <1>9, <3>1, <3>4
  <2>14. \A j \in St : k < j => r \in P[j]
    <3>1. SUFFICES ASSUME NEW j \in St, k < j PROVE r \in Pending(n, j)
      BY <2>12
    <3>2. t \in Todo(n, j) /\ n[t] # j
      BY <1>2, <1>9, <3>1 DEF Todo
    <3>3. r \in Share(Slot(j), t) /\ r \in Row(info[Slot(j)].s)
      BY <2>7, <2>8, <2>10, <2>11
    <3> QED BY <3>2, <3>3 DEF Pending
  <2>15. P1[k] = P[k] \ {r}
    <3>1. t \in Todo(n, k) /\ Todo(n, k)' = Todo(n, k)
      <4>1. Todo(n, k)' = Todo(n, k)
        BY <2>2 DEF Todo
      <4> QED BY <1>2, <2>2, <4>1 DEF Todo
    <3>2. row'[t] = row[t] + 1 /\ \A u \in Thread : u # t => row'[u] = row[u]
      BY <1>4, <2>2 DEF ThreadTypes
    <3>3. ASSUME NEW x, NEW u \in Thread, x \in Share(Slot(k), u)
          PROVE  (n[u] = k => x >= I_start(Slot(k), u) + row'[u])
                   <=> (n[u] = k => x >= I_start(Slot(k), u) + row[u]) /\ x # r
      <4>1. CASE u = t
        <5>1. x \in Int
          BY <1>2, <2>7, <3>3, <4>1 DEF Share
        <5> QED BY <1>2, <2>1, <2>7, <3>2, <4>1, <5>1
      <4>2. CASE u # t
        BY <1>2, <2>9, <3>2, <3>3, <4>2
      <4> QED BY <4>1, <4>2
    <3>4. Todo(n, k) \subseteq Thread
      BY DEF Todo
    <3>5. Pending(n, k)' =
            {x \in Row(info[Slot(k)].s) : \E u \in Todo(n, k) :
               /\ x \in Share(Slot(k), u)
               /\ n[u] = k => x >= I_start(Slot(k), u) + row'[u]}
      BY <1>3, <3>1 DEF Pending, Share, I_start, I_count, Row, Mcu_rows
    <3>6. Pending(n, k)' = Pending(n, k) \ {r}
      BY <3>3, <3>4, <3>5 DEF Pending
    <3> QED BY <1>11, <3>6
  <2>16. \A j \in St : j # k => P1[j] = P[j]
    BY <1>9, <1>10
  <2>17. PICK p1 : p1 = prev'[s][e]
    OBVIOUS
  <2>18. p1[r] = B[k] /\ \A x \in Row(s) : x # r => p1[x] = prev[s][e][x]
    <3>1. prev = [x \in Screen |-> prev[x]]
          /\ \A x \in Screen : prev[x] \in [{0, 1} -> [Row(x) -> Level]]
      BY <1>4 DEF LevelTypes
    <3>2. PICK p : p = prev /\ p = [x \in Screen |-> p[x]]
      BY <3>1
    <3>3. PICK f : f = p[s] /\ f \in [{0, 1} -> [Row(s) -> Level]]
      BY <3>1, <3>2
    <3>4. prev' = [p EXCEPT ![s] = [f EXCEPT ![e][r] = B[k]]]
      BY <1>11, <2>2, <3>2, <3>3
    <3>5. prev'[s] = [f EXCEPT ![e][r] = B[k]]
      BY <3>2, <3>4
    <3>6. f[e] \in [Row(s) -> Level]
      BY <3>3
    <3>7. prev'[s][e] = [f[e] EXCEPT ![r] = B[k]]
      BY <3>3, <3>5
    <3> QED BY <2>8, <2>17, <3>2, <3>3, <3>6, <3>7
  <2>19. \A x : (x \in Row(s) \/ \E j \in St : x \in P[j]) /\ x # r =>
           p1[x] = prev[s][e][x]
    <3>1. \A j \in St : P[j] \subseteq Row(s)
      BY <2>11, <2>12 DEF Pending
    <3> QED BY <2>18, <3>1
  <2>20. LevelState(Row(s), St, P1, A, B, N, delta_q[s][e], p1)
    <3>1. Compresses(Row(s), St, P, B, N, prev[s][e], k, r, P1, p1)
      BY <1>9, <2>4, <2>6, <2>13, <2>14, <2>15, <2>16, <2>18, <2>19
         DEF Compresses
    <3> QED BY <1>6, <3>1, LevelRow
  <2>21. LevelState(Row(s), St, P1, A1, B1, N1, delta_q[s][e], p1)
    <3>1. \A j \in St : /\ P1[j] = P1[j] /\ A1[j] = A[j] /\ B1[j] = B[j]
                        /\ j \in N1 <=> j \in N
      BY <1>9, <1>10, <2>6
    <3> QED BY <2>20, <3>1, LevelSame
  <2>22. delta_q'[s][e] = delta_q[s][e]
    BY <2>2
  <2> QED BY <1>7, <2>5, <2>17, <2>21, <2>22, Zenon
<1>29. CASE Hand_on(t)
  <2>1. /\ UNCHANGED <<delta_q, work_delta_q, work_from, prev>>
        /\ inited'[wi[t]] = FALSE
    BY <1>1, <1>15, <1>29 DEF Hand_on, level
  <2>2. pc[t] = "hand" /\ ~Compress(t)
        /\ pc'[t] \notin {"read", "compute"} /\ pc'[t] \notin Asking
    BY <1>4, <1>29, StepEdge DEF Compress, Asking
  <2>3. inited[wi[t]] /\ Todo(n, k) = {}
    <3>1. t \in At(n, k, {"hand"})
      BY <1>2, <2>2 DEF At
    <3> QED BY <1>2, <3>1 DEF WorksInv, WorkAt, WorkState
  <2>4. Ask = {}
    <3>1. At(n, k, Choosing) = {}
      BY <1>1, <1>2, <2>3, SetFacts
    <3> QED BY <3>1 DEF Ask, At, Choosing
  <2>5. k \in St /\ St1 = St \ {k}
    BY <1>8, <1>20, <2>1, <2>3, <2>4
  <2>6. P[k] = {}
    BY <1>11, <2>3 DEF Pending
  <2>7. \A j \in St : k <= j
    BY <1>9, <2>3, HandOldest
  <2>8. LevelState(Row(s), St \ {k}, P, A, B, N, delta_q[s][e], prev[s][e])
    BY <1>6, <1>9, <2>5, <2>6, <2>7, LevelEnds
  <2>9. LevelState(Row(s), St \ {k}, P1, A1, B1, N1, delta_q[s][e], prev[s][e])
    <3>1. \A j \in St \ {k} : /\ P1[j] = P[j] /\ A1[j] = A[j] /\ B1[j] = B[j]
                              /\ j \in N1 <=> j \in N
      BY <1>9, <1>10
    <3> QED BY <2>8, <3>1, LevelSame
  <2>10. delta_q'[s][e] = delta_q[s][e] /\ prev'[s][e] = prev[s][e]
    BY <2>1
  <2> QED BY <1>7, <2>5, <2>9, <2>10, Zenon
<1>30. ~Finish(t)
  BY DEF Finish
<1> QED BY <1>23, <1>24, <1>25, <1>26, <1>27, <1>28, <1>29, <1>30 DEF Step

(* A thread that leaves its frame has no rows of it before it, and all its *)
(* share of the next.                                                      *)
LEMMA PendingFinished ==
  ASSUME Types, NEW F, NEW n, FramesInv(F, n),
         NEW t \in Thread, Finish(t), NEW k \in Frames(F)
  PROVE  LET m == [n EXCEPT ![t] = n[t] + 1] IN
         /\ Pending(m, k)' = Pending(n, k)
         /\ From(m, k)' = From(n, k)
         /\ At(m, k, {"read", "compute"})' = At(n, k, {"read", "compute"})
<1> DEFINE m == [n EXCEPT ![t] = n[t] + 1]
<1>1. /\ pc[t] = "finish"
      /\ UNCHANGED <<info, delta_q, work_from>>
      /\ row' = [row EXCEPT ![t] = 0]
  BY DEF Finish, level
<1>2. /\ n \in [Thread -> Nat] /\ row \in [Thread -> Nat] /\ F \in Nat
      /\ k \in Nat /\ Slot(k) \in Work
  BY SlotFacts DEF FramesInv, Types, TypeOK
<1>3. /\ m[t] = n[t] + 1 /\ row'[t] = 0
      /\ \A u \in Thread : u # t => m[u] = n[u] /\ row'[u] = row[u]
  BY <1>1, <1>2
<1>4. Todo(m, k)' = Todo(n, k)
  BY <1>2, FinishSets
<1>5. /\ At(m, k, {"read"})' = At(n, k, {"read"})
      /\ At(m, k, {"read", "compute"})' = At(n, k, {"read", "compute"})
  BY <1>2, FinishSets
<1> HIDE DEF m
<1>6. ASSUME NEW r, NEW u \in Todo(n, k), r \in Share(Slot(k), u)
      PROVE  (m[u] = k => r >= I_start(Slot(k), u) + row'[u])
               <=> (n[u] = k => r >= I_start(Slot(k), u) + row[u])
  <2>1. u \in Thread
    BY DEF Todo
  <2>2. CASE u # t
    BY <1>3, <2>1, <2>2
  <2>3. CASE u = t
    <3>1. n[t] < k
      BY <1>1, <2>3 DEF Todo, Before, Choosing, Asking
    <3>2. n[u] # k
      BY <1>2, <2>1, <2>3, <3>1
    <3>3. I_start(Slot(k), u) \in Nat /\ r >= I_start(Slot(k), u)
      BY <1>2, <1>6, <2>1, StartNat, TypesParts
    <3> QED BY <1>3, <2>3, <3>2, <3>3
  <2> QED BY <2>2, <2>3
<1>7. Pending(m, k)' =
        {r \in Row(info[Slot(k)].s) : \E u \in Todo(n, k) :
           /\ r \in Share(Slot(k), u)
           /\ m[u] = k => r >= I_start(Slot(k), u) + row'[u]}
  BY <1>1, <1>4 DEF Pending, Share, I_start, I_count, Row, Mcu_rows
<1>8. Pending(m, k)' = Pending(n, k)
  BY <1>6, <1>7 DEF Pending
<1>9. From(m, k)' = From(n, k)
  BY <1>1, <1>5 DEF From
<1> QED BY <1>5, <1>8, <1>9 DEF m

LEMMA LevelsFinished ==
  ASSUME Types, NEW F, NEW n, FramesInv(F, n), LevelsInv(F, n),
         NEW t \in Thread, Finish(t)
  PROVE  LevelsInv(F, [n EXCEPT ![t] = n[t] + 1])'
<1> DEFINE m == [n EXCEPT ![t] = n[t] + 1]
<1>1. SUFFICES ASSUME NEW s \in Screen, NEW e \in {0, 1}
               PROVE  LevelAt(F, m, s, e)'
  BY DEF LevelsInv
<1>2. UNCHANGED <<info, delta_q, work_delta_q, prev>>
  BY DEF Finish, level
<1>3. Started(F, m, s)' = Started(F, n, s)
  BY StartedFinished
<1>4. \A k \in Frames(F) :
        /\ Pending(m, k)' = Pending(n, k)
        /\ From(m, k)' = From(n, k)
        /\ At(m, k, {"read", "compute"})' = At(n, k, {"read", "compute"})
  BY PendingFinished
<1> HIDE DEF m
<1>5. Running(F, m, s, e)' = Running(F, n, s, e)
  BY <1>2, <1>3 DEF Running
<1>6. /\ Pendings(F, m)' = Pendings(F, n) /\ Froms(F, m)' = Froms(F, n)
      /\ Tos(F)' = Tos(F) /\ Deciding(F, m)' = Deciding(F, n)
  BY <1>2, <1>4 DEF Pendings, Froms, Tos, Deciding
<1>7. LevelAt(F, n, s, e)
  BY DEF LevelsInv
<1> QED BY <1>2, <1>5, <1>6, <1>7 DEF LevelAt, LevelState, Row, Mcu_rows

(* A work that is set up again is not in progress.                         *)
LEMMA LevelsBegun ==
  ASSUME Types, NEW F, NEW n, FramesInv(F, n), WorksInv(F, n),
         LevelsInv(F, n),
         NEW t \in Thread, NEW s \in Screen, Init_work(t, s)
  PROVE  LevelsInv(F + 1, n)'
<1>1. SUFFICES ASSUME NEW z \in Screen, NEW e \in {0, 1}
               PROVE  LevelAt(F + 1, n, z, e)'
  BY DEF LevelsInv
<1>2. /\ UNCHANGED <<delta_q, work_delta_q, work_from, prev, pc, row>>
      /\ \A v \in Work : v # wi[t] => info'[v] = info[v]
  BY DEF Init_work, level, Types, TypeOK
<1>3. /\ Started(F + 1, n, z)' = Started(F, n, z)
      /\ \A k \in Started(F, n, z) : Slot(k) # wi[t] /\ Slot(k) \in Work
  BY StartedBegun
<1>4. \A k \in Started(F, n, z) : info'[Slot(k)] = info[Slot(k)]
  BY <1>2, <1>3
<1>5. Running(F + 1, n, z, e)' = Running(F, n, z, e)
  BY <1>3, <1>4 DEF Running
<1>6. ASSUME NEW k \in Running(F, n, z, e)
      PROVE  /\ k \in Frames(F) /\ k \in Frames(F + 1)
             /\ Pending(n, k)' = Pending(n, k)
             /\ From(n, k)' = From(n, k)
             /\ work_delta_q'[Slot(k)] = work_delta_q[Slot(k)]
             /\ At(n, k, {"read", "compute"})' = At(n, k, {"read", "compute"})
  <2>1. k \in Started(F, n, z) /\ k \in Started(F + 1, n, z)'
    BY <1>3 DEF Running
  <2>2. k \in Frames(F) /\ k \in Frames(F + 1)
    BY <2>1 DEF Started
  <2>3. info'[Slot(k)] = info[Slot(k)]
    BY <1>4, <2>1
  <2>4. Todo(n, k)' = Todo(n, k) /\ At(n, k, {"read"})' = At(n, k, {"read"})
        /\ At(n, k, {"read", "compute"})' = At(n, k, {"read", "compute"})
    BY <1>2 DEF Todo, At
  <2>5. Pending(n, k)' = Pending(n, k)
    BY <1>2, <2>3, <2>4 DEF Pending, Share, I_start, I_count, Row, Mcu_rows
  <2>6. From(n, k)' = From(n, k)
    BY <1>2, <2>3, <2>4 DEF From
  <2> QED BY <1>2, <2>2, <2>4, <2>5, <2>6
<1> DEFINE St == Running(F, n, z, e)
           P1 == Pendings(F + 1, n)'
           A1 == Froms(F + 1, n)'
           B1 == Tos(F + 1)'
           N1 == Deciding(F + 1, n)'
<1>7. LevelState(Row(z), St, Pendings(F, n), Froms(F, n), Tos(F),
                 Deciding(F, n), delta_q[z][e], prev[z][e])
  BY DEF LevelsInv, LevelAt
<1>8. \A k \in St : /\ P1[k] = Pendings(F, n)[k] /\ A1[k] = Froms(F, n)[k]
                    /\ B1[k] = Tos(F)[k]
                    /\ k \in N1 <=> k \in Deciding(F, n)
  BY <1>6 DEF Pendings, Froms, Tos, Deciding
<1> HIDE DEF St, P1, A1, B1, N1
<1>9. LevelState(Row(z), St, P1, A1, B1, N1, delta_q[z][e], prev[z][e])
  BY <1>7, <1>8, LevelSame
<1>10. PICK S1, Q1, p1 : S1 = Running(F + 1, n, z, e)' /\ Q1 = delta_q'[z][e]
                        /\ p1 = prev'[z][e]
  OBVIOUS
<1>11. S1 = St /\ Q1 = delta_q[z][e] /\ p1 = prev[z][e]
  BY <1>2, <1>5, <1>10 DEF St
<1>12. LevelState(Row(z), S1, P1, A1, B1, N1, Q1, p1)
  BY <1>9, <1>11, Zenon
<1>13. LevelState(Row(z), Running(F + 1, n, z, e)', P1, A1, B1, N1,
                  delta_q'[z][e], prev'[z][e])
  BY <1>10, <1>12, Zenon
<1> QED BY <1>13 DEF LevelAt, LevelState, Row, Mcu_rows, P1, A1, B1, N1

-----------------------------------------------------------------------------
(***************************************************************************)
(* The invariant.                                                          *)
(***************************************************************************)

(* A single thread has nobody to hand the screen to.                       *)
HandingInv == \A t \in Thread : pc[t] \in Handing => CORE_COUNT # 1

FrameInv(F, n) ==
  FramesInv(F, n) /\ WorksInv(F, n) /\ ScreensInv(F, n) /\ LevelsInv(F, n)

Inv == /\ Types /\ SplitInv /\ RowInv /\ HandingInv
       /\ \E F, n : FrameInv(F, n)

LEMMA InitInv ==
  ASSUME Init PROVE Inv
<1>1. Types
  BY TypesInit
<1>2. /\ \A t \in Thread : pc[t] = "idle" /\ row[t] = 0 /\ wi[t] = 0
      /\ \A w \in Work : /\ left[w] = {} /\ ~inited[w]
                         /\ sem_count[w] = CORE_COUNT /\ work_sem[w] = 0
      /\ \A s \in Screen : /\ screen_sem[s] = 1 /\ ~screen_bool[s]
                           /\ last_interval[s] = 0
      /\ \A s \in Screen, e \in {0, 1} :
           /\ delta_q[s][e] = Full
           /\ \A r \in Row(s) : prev[s][e][r] = Full
  BY DEF Init
<1>3. SplitInv /\ RowInv /\ HandingInv
  BY <1>2 DEF SplitInv, RowInv, HandingInv, Handing
<1>4. PICK W \in Nat \ {0} : W = WORK_COUNT
  BY DeltaQAssumption
<1>5. PICK n : n = [t \in Thread |-> W]
  OBVIOUS
<1>6. \A k \in Frames(W) : k \in Nat /\ k < W /\ Slot(k) \in Work
  BY SlotFacts
<1>7. FramesInv(W, n)
  <2>1. W % W = 0
    BY DivMod
  <2>2. \A t \in Thread : wi[t] = Slot(n[t])
    BY <1>2, <1>4, <1>5, <2>1 DEF Slot
  <2>3. \A k \in Frames(W) : left[Slot(k)] = {t \in Thread : n[t] <= k}
    BY <1>2, <1>5, <1>6
  <2> QED BY <1>2, <1>4, <1>5, <2>2, <2>3 DEF FramesInv
<1>8. ASSUME NEW k \in Frames(W)
      PROVE  /\ Out(n, k) = {} /\ Todo(n, k) = {}
             /\ \A P : At(n, k, P) = {}
  BY <1>5, <1>6 DEF Out, Todo, At
<1>9. WorksInv(W, n)
  <2>1. SUFFICES ASSUME NEW k \in Frames(W) PROVE WorkAt(n, k)
    BY DEF WorksInv
  <2>2. /\ ~inited[Slot(k)] /\ sem_count[Slot(k)] = CORE_COUNT
        /\ work_sem[Slot(k)] = 0
    BY <1>2, <1>6
  <2>3. Todo(n, k) = {} /\ At(n, k, Choosing) = {}
        /\ At(n, k, {"hand"}) = {} /\ At(n, k, Handing) = {}
    BY <1>8
  <2> QED BY <2>2, <2>3 DEF WorkAt, WorkState
<1>10. \A s \in Screen : Started(W, n, s) = {}
  BY <1>2, <1>6 DEF Started
<1>11. ScreensInv(W, n)
  <2>1. SUFFICES ASSUME NEW s \in Screen PROVE ScreenAt(W, n, s)
    BY DEF ScreensInv
  <2>2. /\ AtScreen(s, {"own"}) = {} /\ AtScreen(s, {"clear"}) = {}
        /\ AtScreen(s, {"give"}) = {}
    BY <1>2 DEF AtScreen
  <2>3. screen_sem[s] = 1 /\ ~screen_bool[s] /\ last_interval[s] = 0
    BY <1>2
  <2> QED BY <1>10, <2>2, <2>3 DEF ScreenAt, ScreenState
<1>12. LevelsInv(W, n)
  <2>1. SUFFICES ASSUME NEW s \in Screen, NEW e \in {0, 1}
                 PROVE  LevelAt(W, n, s, e)
    BY DEF LevelsInv
  <2>2. Running(W, n, s, e) = {}
    BY <1>10 DEF Running
  <2>3. \A r \in Row(s) : prev[s][e][r] = delta_q[s][e]
    BY <1>2
  <2> QED BY <2>2, <2>3 DEF LevelAt, LevelState
<1>13. FrameInv(W, n)
  BY <1>7, <1>9, <1>11, <1>12 DEF FrameInv
<1> QED BY <1>1, <1>3, <1>13 DEF Inv

LEMMA StepInv ==
  ASSUME Inv, NEW t \in Thread, Step(t) PROVE Inv'
<1>1. Types /\ SplitInv /\ RowInv /\ HandingInv
  BY DEF Inv
<1>2. PICK F, n : /\ FramesInv(F, n) /\ WorksInv(F, n) /\ ScreensInv(F, n)
                  /\ LevelsInv(F, n)
  BY DEF Inv, FrameInv
<1>3. SplitInv' /\ RowInv'
  BY <1>1, SplitStep, RowStep
<1>4. HandingInv'
  <2>1. ThreadTypes
    BY <1>1, TypesParts
  <2>2. pc'[t] \in Handing => CORE_COUNT # 1
    BY <1>1, <2>1, StepEdge DEF Step, HandingInv, Handing
  <2>3. \A u \in Thread : u # t => pc'[u] = pc[u]
    <3>1. CASE pc[t] # "finish"
      BY <1>1, <3>1, StepLocal
    <3>2. CASE pc[t] = "finish"
      <4>1. Finish(t)
        BY <2>1, <3>2, StepEdge DEF Step
      <4> QED BY <2>1, <4>1 DEF Finish, Goto, ThreadTypes
    <3> QED BY <3>1, <3>2
  <2> QED BY <1>1, <2>2, <2>3 DEF HandingInv
<1>5. CASE pc[t] # "finish"
  <2>1. WorkAt(n, n[t])
    <3>1. n[t] \in Frames(F)
      BY <1>1, <1>2, <1>5, FramesStep, InFrame
    <3> QED BY <1>2, <3>1 DEF WorksInv
  <2>2. Types'
    BY <1>1, <1>2, <1>5, <2>1, WorkStep, TypesStep
  <2>3. FramesInv(F, n)' /\ WorksInv(F, n)'
    BY <1>1, <1>2, <1>5, FramesStep, WorksStep
  <2>4. ScreensInv(F, n)'
    BY <1>1, <1>2, <1>5, ScreenStep DEF ScreensInv
  <2>5. LevelsInv(F, n)'
    <3>1. ASSUME NEW s \in Screen, NEW e \in {0, 1}
          PROVE  LevelAt(F, n, s, e)'
      <4>1. LevelAt(F, n, s, e)
        BY <1>2 DEF LevelsInv
      <4> QED BY <1>1, <1>2, <1>5, <4>1, LevelStep
    <3> QED BY <3>1 DEF LevelsInv
  <2>6. FrameInv(F, n)'
    BY <2>3, <2>4, <2>5 DEF FrameInv
  <2> QED BY <1>3, <1>4, <2>2, <2>6 DEF Inv
<1>6. CASE pc[t] = "finish"
  <2>1. Finish(t)
    BY <1>1, <1>6, StepEdge, TypesParts DEF Step
  <2>2. Types'
    BY <1>1, <1>6, TypesStep
  <2>3. PICK m : m = [n EXCEPT ![t] = n[t] + 1]
    OBVIOUS
  <2>4. /\ FramesInv(F, m)' /\ WorksInv(F, m)' /\ ScreensInv(F, m)'
        /\ LevelsInv(F, m)'
    BY <1>1, <1>2, <2>1, <2>3, FramesFinished, WorksFinished,
       ScreensFinished, LevelsFinished
  <2>5. FrameInv(F, m)'
    BY <2>4 DEF FrameInv
  <2> QED BY <1>3, <1>4, <2>2, <2>5 DEF Inv
<1> QED BY <1>5, <1>6

LEMMA BegunInv ==
  ASSUME Inv, NEW t \in Thread, NEW s \in Screen, Init_work(t, s) PROVE Inv'
<1>1. Types /\ SplitInv /\ RowInv /\ HandingInv
  BY DEF Inv
<1>2. PICK F, n : /\ FramesInv(F, n) /\ WorksInv(F, n) /\ ScreensInv(F, n)
                  /\ LevelsInv(F, n)
  BY DEF Inv, FrameInv
<1>3. Types' /\ SplitInv' /\ RowInv'
  BY <1>1, <1>2, TypesInitWork, SplitBegun, RowBegun
<1>4. HandingInv'
  BY <1>1 DEF HandingInv, Init_work
<1>5. PICK G : G = F + 1
  OBVIOUS
<1>6. /\ FramesInv(G, n)' /\ WorksInv(G, n)' /\ ScreensInv(G, n)'
      /\ LevelsInv(G, n)'
  BY <1>1, <1>2, <1>5, FramesBegun, WorksBegun, ScreensBegun, LevelsBegun
<1>7. FrameInv(G, n)'
  BY <1>6 DEF FrameInv
<1> QED BY <1>3, <1>4, <1>7 DEF Inv

LEMMA SameInv ==
  ASSUME Inv, UNCHANGED vars PROVE Inv'
<1>1. /\ UNCHANGED <<split, left, syn, level, pc, wi, row>>
      /\ UNCHANGED <<last_n, last_w, even_odd, info>>
      /\ UNCHANGED <<inited, sem_count, work_sem, screen_bool, screen_sem,
                     last_interval>>
      /\ UNCHANGED <<delta_q, work_delta_q, work_from, prev>>
  BY DEF vars, split, syn, level
<1>2. Types'
  BY <1>1 DEF Inv, Types, TypeOK, Row, Mcu_rows
<1>3. SplitInv' /\ RowInv' /\ HandingInv'
  BY <1>1 DEF Inv, SplitInv, RowInv, HandingInv, Splits, I_count
<1>4. PICK F, n : /\ FramesInv(F, n) /\ WorksInv(F, n) /\ ScreensInv(F, n)
                  /\ LevelsInv(F, n)
  BY DEF Inv, FrameInv
<1>5. FramesInv(F, n)'
  BY <1>1, <1>4 DEF FramesInv
<1>6. /\ \A k : Out(n, k)' = Out(n, k) /\ Todo(n, k)' = Todo(n, k)
      /\ \A k, P : At(n, k, P)' = At(n, k, P)
      /\ \A s, P : AtScreen(s, P)' = AtScreen(s, P)
  BY <1>1 DEF Out, Todo, At, AtScreen
<1>7. WorksInv(F, n)'
  BY <1>1, <1>4, <1>6 DEF WorksInv, WorkAt
<1>8. \A s : Started(F, n, s)' = Started(F, n, s)
  BY <1>1, <1>6 DEF Started
<1>9. ScreensInv(F, n)'
  BY <1>1, <1>4, <1>6, <1>8 DEF ScreensInv, ScreenAt, ScreenState
<1>10. \A k : Pending(n, k)' = Pending(n, k) /\ From(n, k)' = From(n, k)
  BY <1>1, <1>6 DEF Pending, From, Share, I_start, I_count, Row, Mcu_rows
<1>11. /\ Pendings(F, n)' = Pendings(F, n) /\ Froms(F, n)' = Froms(F, n)
       /\ Tos(F)' = Tos(F) /\ Deciding(F, n)' = Deciding(F, n)
       /\ \A s, e : Running(F, n, s, e)' = Running(F, n, s, e)
  BY <1>1, <1>6, <1>8, <1>10 DEF Pendings, Froms, Tos, Deciding, Running
<1>12. LevelsInv(F, n)'
  BY <1>1, <1>4, <1>11 DEF LevelsInv, LevelAt, LevelState, Row, Mcu_rows
<1>13. FrameInv(F, n)'
  BY <1>5, <1>7, <1>9, <1>12 DEF FrameInv
<1> QED BY <1>2, <1>3, <1>13 DEF Inv

(* The invariant holds of the delta-coded stream: frames are begun, handed *)
(* on and left in order, whatever the threads' interleaving.               *)
THEOREM InvAlways == Spec => []Inv
<1>1. Inv /\ [Next]_vars => Inv'
  BY StepInv, BegunInv, SameInv DEF Next
<1> QED BY <1>1, InitInv, PTL DEF Spec

-----------------------------------------------------------------------------
(***************************************************************************)
(* What the invariant says.                                                *)
(***************************************************************************)
LEMMA TileInv ==
  ASSUME Inv PROVE SharesTile
<1>1. SUFFICES ASSUME NEW w \in Work, left[w] # {}
               PROVE  /\ UNION {Share(w, t) : t \in Thread} = Row(info[w].s)
                      /\ \A t, u \in Thread :
                           t # u => Share(w, t) \cap Share(w, u) = {}
  BY DEF SharesTile
<1>2. Splits(info[w]) /\ info[w].s \in Screen
  BY <1>1, InfoFacts, TypesParts DEF Inv, SplitInv
<1>3. /\ \A t \in Thread : Share(w, t) \subseteq Row(info[w].s)
      /\ \A x \in Row(info[w].s) : \E t \in Thread : x \in Share(w, t)
  BY <1>2, SharesCover
<1>4. \A t, u \in Thread : t # u => Share(w, t) \cap Share(w, u) = {}
  BY <1>2, SharesDisjoint
<1> QED BY <1>3, <1>4

LEMMA LeftoverInv ==
  ASSUME Inv PROVE NoLeftover
<1>1. SUFFICES ASSUME NEW t \in Thread
               PROVE  /\ pc[t] = "wake" => work_sem[wi[t]] = 0
                      /\ pc[t] = "give" => screen_sem[info[wi[t]].s] = 0
                      /\ left[wi[t]] = {} => work_sem[wi[t]] = 0
                                             /\ sem_count[wi[t]] = CORE_COUNT
  BY DEF NoLeftover
<1>2. PICK F, n : FramesInv(F, n) /\ WorksInv(F, n) /\ ScreensInv(F, n)
  BY DEF Inv, FrameInv
<1>3. Types /\ HandingInv
  BY DEF Inv
<1>4. n \in [Thread -> Nat] /\ F \in Nat /\ F >= WORK_COUNT /\ n[t] <= F
      /\ wi[t] = Slot(n[t])
  BY <1>2 DEF FramesInv
<1>5. ASSUME pc[t] = "wake" PROVE work_sem[wi[t]] = 0
  <2>1. n[t] \in Frames(F)
    BY <1>2, <1>5, InFrame DEF FramesInv
  <2>2. t \in At(n, n[t], Choosing)
    BY <1>5 DEF At, Choosing
  <2> QED BY <1>2, <1>4, <2>1, <2>2 DEF WorksInv, WorkAt, WorkState
<1>6. ASSUME pc[t] = "give" PROVE screen_sem[info[wi[t]].s] = 0
  <2>1. PICK s \in Screen : s = info[wi[t]].s
    <3>1. wi[t] \in Work
      BY <1>3 DEF Types, TypeOK
    <3> QED BY <1>3, <3>1, InfoFacts, TypesParts
  <2>2. CORE_COUNT > 1
    BY <1>3, <1>6, ThreadFinite DEF HandingInv, Handing
  <2>3. t \in AtScreen(s, {"give"})
    BY <1>6, <2>1 DEF AtScreen
  <2>4. ScreenAt(F, n, s)
    BY <1>2, <2>2 DEF ScreensInv
  <2> QED BY <2>1, <2>3, <2>4 DEF ScreenAt, ScreenState
<1>7. ASSUME left[wi[t]] = {}
      PROVE  work_sem[wi[t]] = 0 /\ sem_count[wi[t]] = CORE_COUNT
  <2>1. ~(n[t] < F)
    BY <1>2, <1>7, InFrame
  <2>2. n[t] = F
    BY <1>4, <2>1
  <2>3. PICK w \in Nat \ {0} : w = WORK_COUNT
    BY DeltaQAssumption
  <2>4. PICK k \in Nat : F = k + w
    BY <1>4, <2>3
  <2>5. k \in Frames(F)
    BY <2>3, <2>4 DEF Frames
  <2>6. (k + w) % w = k % w
    BY ModWrap
  <2>7. wi[t] = Slot(k)
    BY <1>4, <2>2, <2>3, <2>4, <2>6 DEF Slot
  <2>8. left[Slot(k)] = {u \in Thread : n[u] <= k}
    BY <1>2, <2>5 DEF FramesInv
  <2>9. \A u \in Thread : k < n[u]
    BY <1>4, <1>7, <2>7, <2>8
  <2> QED BY <1>2, <2>5, <2>7, <2>9, LeftWork
<1> QED BY <1>5, <1>6, <1>7

LEMMA PrevLevelInv ==
  ASSUME Inv PROVE PrevAtLevel
<1>1. SUFFICES ASSUME NEW t \in Thread, pc[t] \in {"compute", "wake", "rows"},
                      NEW x \in Rest(t)
               PROVE  prev[x[1]][x[2]][x[3]] = work_from[wi[t]]
  BY DEF PrevAtLevel
<1>2. PICK F, n : /\ FramesInv(F, n) /\ WorksInv(F, n) /\ ScreensInv(F, n)
                  /\ LevelsInv(F, n)
  BY DEF Inv, FrameInv
<1>3. Types /\ SplitInv
  BY DEF Inv
<1>4. pc[t] \in Touching /\ pc[t] # "read"
  BY <1>1 DEF Touching
<1>5. PICK s, e, r : /\ s = info[wi[t]].s /\ e = info[wi[t]].e
                     /\ r \in Share(wi[t], t) /\ r >= I_start(wi[t], t) + row[t]
                     /\ x = <<s, e, r>>
  BY <1>1, <1>4 DEF Rest
<1>6. PICK k \in Nat : k = n[t] /\ n \in [Thread -> Nat]
  BY <1>2 DEF FramesInv
<1>7. /\ k \in Started(F, n, s) /\ wi[t] = Slot(k) /\ s \in Screen
      /\ t \in Todo(n, k) /\ At(n, k, {"read"}) = {} /\ k < F
  BY <1>2, <1>3, <1>4, <1>5, <1>6, TouchingStarted
<1>8. k \in Frames(F) /\ wi[t] \in Work /\ e \in {0, 1}
  BY <1>2, <1>3, <1>5, <1>6, <1>7, InFrame, InfoFacts, TypesParts
<1>9. Splits(info[wi[t]])
  BY <1>2, <1>3, <1>7, SameShares
<1>10. r \in Row(s)
  BY <1>5, <1>7, <1>9, SharesCover
<1>11. r \in Pending(n, k)
  BY <1>5, <1>7, <1>10 DEF Pending
<1>12. ASSUME NEW j \in Running(F, n, s, e), j < k PROVE r \notin Pending(n, j)
  <2>1. j \in Started(F, n, s) /\ j \in Nat
    BY DEF Running, Started, Frames
  <2>2. SUFFICES ASSUME r \in Pending(n, j) PROVE FALSE
    OBVIOUS
  <2>3. PICK u \in Todo(n, j) : r \in Share(Slot(j), u)
    BY <2>2 DEF Pending
  <2>4. u \in Thread /\ n[u] <= j
    BY <1>6, <2>1 DEF Todo
  <2>5. u # t
    BY <1>6, <1>12, <2>1, <2>4
  <2>6. Share(Slot(j), u) = Share(wi[t], u)
    BY <1>2, <1>3, <1>7, <2>1, <2>4, SameShares
  <2>7. Share(wi[t], t) \cap Share(wi[t], u) = {}
    BY <1>9, <2>4, <2>5, SharesDisjoint
  <2> QED BY <1>5, <2>3, <2>6, <2>7
<1>13. LevelState(Row(s), Running(F, n, s, e), Pendings(F, n), Froms(F, n),
                  Tos(F), Deciding(F, n), delta_q[s][e], prev[s][e])
  BY <1>2, <1>7, <1>8 DEF LevelsInv, LevelAt
<1>14. k \in Running(F, n, s, e)
  BY <1>5, <1>7 DEF Running
<1>15. Running(F, n, s, e) \subseteq Frames(F)
  BY DEF Running, Started
<1>16. \A j \in Frames(F) : Pendings(F, n)[j] = Pending(n, j)
  BY DEF Pendings
<1>17. prev[s][e][r] = Froms(F, n)[k]
  <2>1. r \in Pendings(F, n)[k]
    BY <1>8, <1>11, <1>16
  <2>2. \A j \in Running(F, n, s, e) : j < k => r \notin Pendings(F, n)[j]
    BY <1>12, <1>15, <1>16
  <2> QED BY <1>13, <1>14, <2>1, <2>2 DEF LevelState
<1>18. Froms(F, n)[k] = work_from[wi[t]]
  BY <1>7, <1>8 DEF Froms, From
<1> QED BY <1>5, <1>17, <1>18

LEMMA KeptInv ==
  ASSUME Inv PROVE LevelKept
<1>1. SUFFICES ASSUME \A w \in Work : left[w] = {},
                      NEW s \in Screen, NEW e \in {0, 1}, NEW r \in Row(s)
               PROVE  prev[s][e][r] = delta_q[s][e]
  BY DEF LevelKept
<1>2. PICK F, n : FramesInv(F, n) /\ WorksInv(F, n) /\ LevelsInv(F, n)
  BY DEF Inv, FrameInv
<1>3. ASSUME NEW k \in Frames(F) PROVE ~inited[Slot(k)]
  <2>1. left[Slot(k)] = {} /\ left[Slot(k)] = {u \in Thread : n[u] <= k}
    BY <1>1, <1>2, SlotFacts DEF FramesInv
  <2>2. k \in Nat /\ n \in [Thread -> Nat]
    BY <1>2, SlotFacts DEF FramesInv
  <2>3. \A u \in Thread : k < n[u]
    BY <2>1, <2>2
  <2> QED BY <1>2, <2>3, LeftWork
<1>4. Running(F, n, s, e) = {}
  BY <1>3 DEF Running, Started
<1>5. LevelAt(F, n, s, e)
  BY <1>2 DEF LevelsInv
<1> QED BY <1>4, <1>5 DEF LevelAt, LevelState

(* The state the delta-coded stream keeps has its type: in particular the  *)
(* counts of work_sem, screen_sem and work_sem_count never leave their     *)
(* range.                                                                  *)
THEOREM DeltaQTypes == Spec => []TypeOK
<1>1. Inv => TypeOK
  BY DEF Inv, Types
<1> QED BY <1>1, InvAlways, PTL

(* init_work: however the boundary of the last share has moved, the shares *)
(* of a work are disjoint and together are its screen.                     *)
THEOREM SharesTileAlways == Spec => []SharesTile
<1>1. Inv => SharesTile
  BY TileInv
<1> QED BY <1>1, InvAlways, PTL

(* screen_work_acquire and screen_work_release: no two threads ever have   *)
(* the same row of the kept coefficients before them, whichever frames     *)
(* they are in.                                                            *)
THEOREM RowsOwnedAlways == Spec => []RowsOwned
<1>1. Inv => RowsOwned
  BY RowsOwnedInv DEF Inv, FrameInv
<1> QED BY <1>1, InvAlways, PTL

(* compute_dq and rescale_prev: every row a thread has yet to rescale is   *)
(* at the level the rescaling of its frame starts from.                    *)
THEOREM PrevAtLevelAlways == Spec => []PrevAtLevel
<1>1. Inv => PrevAtLevel
  BY PrevLevelInv
<1> QED BY <1>1, InvAlways, PTL

(* compute_dq: when no frame is in progress every row is at the level kept *)
(* for its screen and half image.                                          *)
THEOREM LevelKeptAlways == Spec => []LevelKept
<1>1. Inv => LevelKept
  BY KeptInv
<1> QED BY <1>1, InvAlways, PTL

(* release_sem on work_sem and screen_sem: neither ever drops a permit, and*)
(* a work that all have left holds none for its next frame.                *)
THEOREM NoLeftoverAlways == Spec => []NoLeftover
<1>1. Inv => NoLeftover
  BY LeftoverInv
<1> QED BY <1>1, InvAlways, PTL

=============================================================================
