----------------------------- MODULE KcpProofs ------------------------------
(***************************************************************************)
(* The reliable stream, for every window, pool, number of resend lists and *)
(* loss: every buffer and every permit is in exactly one place, whatever   *)
(* acknowledgements come, come late, out of order or more than once.       *)
(*                                                                         *)
(* The accounts are kept per kind of segment: Of counts in a list, Of_all  *)
(* in snd_lst and the resend lists.  A step is shown to move segments from *)
(* one place to another; for ikcp_input that takes that the groups in      *)
(* snd_wak have no segment in common and that each segment answered is     *)
(* sent again from one list or freed.                                      *)
(***************************************************************************)
EXTENDS Kcp, FiniteSetTheorems, FunctionTheorems, SequenceTheorems,
        NumberTheorems, TLAPS

-----------------------------------------------------------------------------
(***************************************************************************)
(* Counting in lists.                                                      *)
(***************************************************************************)

(* Induction, for the members of a set.                                    *)
LEMMA UpTo ==
  ASSUME NEW n \in Nat, NEW G, 0 \in G, \A m \in 1..n : m - 1 \in G => m \in G
  PROVE  \A m \in 0..n : m \in G
<1> DEFINE S == {m \in 0..n : m \notin G}
<1> SUFFICES ASSUME S # {} PROVE FALSE
  OBVIOUS
<1>1. PICK m \in S : \A k \in S : m <= k
  <2>1. S \in SUBSET Nat
    OBVIOUS
  <2> HIDE DEF S
  <2> QED BY <2>1, Smallest
<1>2. m \in 1..n /\ m - 1 \in 0..n /\ ~(m <= m - 1)
  OBVIOUS
<1>3. m - 1 \notin S
  <2> HIDE DEF S
  <2> QED BY <1>1, <1>2, Zenon
<1> QED BY <1>1, <1>2, <1>3

(* A one-to-one image of a finite set has as many elements.                *)
LEMMA AsMany ==
  ASSUME NEW S, NEW T, IsFiniteSet(S), NEW f \in [S -> T],
         \A x, y \in S : f[x] = f[y] => x = y,
         \A y \in T : \E x \in S : f[x] = y
  PROVE  IsFiniteSet(T) /\ Cardinality(T) = Cardinality(S)
<1>1. f \in Bijection(S, T)
  BY Fun_IsBij, Zenon
<1>2. ExistsBijection(S, T)
  BY <1>1, Zenon DEF ExistsBijection
<1> QED BY <1>2, FS_Bijection, Zenon

(* Disjoint parts add up.                                                  *)
LEMMA Parts ==
  ASSUME NEW S, NEW T, IsFiniteSet(S), IsFiniteSet(T), S \cap T = {}
  PROVE  /\ IsFiniteSet(S \cup T)
         /\ Cardinality(S \cup T) = Cardinality(S) + Cardinality(T)
         /\ Cardinality(S) \in Nat /\ Cardinality(T) \in Nat
<1>1. /\ IsFiniteSet(S \cup T)
      /\ Cardinality(S \cup T) = Cardinality(S) + Cardinality(T) - Cardinality(S \cap T)
  BY FS_Union, Zenon
<1>2. Cardinality(S \cap T) = 0
  BY FS_EmptySet, Zenon
<1>3. Cardinality(S) \in Nat /\ Cardinality(T) \in Nat
  BY FS_CardinalityType, Zenon
<1> QED BY <1>1, <1>2, <1>3

(* The positions with segments of some kinds, those of them in a set.      *)
Where(s, kinds) == {i \in DOMAIN s : s[i].kind \in kinds}

(* Positions of a list are a finite set, so what is counted is a number.   *)
LEMMA Within ==
  ASSUME NEW X, NEW s \in Seq(X), NEW kinds, NEW S, S \subseteq DOMAIN s
  PROVE  /\ IsFiniteSet(S) /\ Cardinality(S) \in Nat
         /\ IsFiniteSet(Where(s, kinds)) /\ Of(s, kinds) \in Nat
         /\ Of(s, kinds) = Cardinality(Where(s, kinds))
<1>1. DOMAIN s = 1..Len(s) /\ Len(s) \in Nat
  BY LenProperties
<1>2. IsFiniteSet(1..Len(s))
  BY <1>1, FS_Interval
<1>3. Where(s, kinds) \subseteq 1..Len(s)
  BY <1>1 DEF Where
<1>4. IsFiniteSet(S) /\ IsFiniteSet(Where(s, kinds))
  BY <1>1, <1>2, <1>3, FS_Subset, Zenon
<1>5. Cardinality(S) \in Nat /\ Cardinality(Where(s, kinds)) \in Nat
  BY <1>4, FS_CardinalityType, Zenon
<1> QED BY <1>4, <1>5 DEF Of, Where

(* Nothing is in an empty list.                                            *)
LEMMA OfEmpty ==
  ASSUME NEW kinds
  PROVE  Of(<< >>, kinds) = 0
<1>1. {i \in DOMAIN << >> : << >>[i].kind \in kinds} = {}
  OBVIOUS
<1> QED BY <1>1, FS_EmptySet, Zenon DEF Of

(* A list appended to another adds what is in it.                          *)
LEMMA OfConcat ==
  ASSUME NEW X, NEW s \in Seq(X), NEW t \in Seq(X), NEW kinds
  PROVE  Of(s \o t, kinds) = Of(s, kinds) + Of(t, kinds)
<1> DEFINE n == Len(s)
           A == Where(s, kinds)
           B == Where(t, kinds)
           C == {n + i : i \in B}
           f == [i \in B |-> n + i]
<1>1. n \in Nat /\ Len(t) \in Nat /\ DOMAIN s = 1..n /\ DOMAIN t = 1..Len(t)
      /\ s \o t \in Seq(X) /\ DOMAIN (s \o t) = 1..n + Len(t)
      /\ \A i \in 1..n + Len(t) : (s \o t)[i] = IF i <= n THEN s[i] ELSE t[i - n]
  BY ConcatProperties, LenProperties
<1>2. IsFiniteSet(A) /\ IsFiniteSet(B) /\ IsFiniteSet(Where(s \o t, kinds))
      /\ Of(s, kinds) = Cardinality(A) /\ Of(t, kinds) = Cardinality(B)
      /\ Of(s \o t, kinds) = Cardinality(Where(s \o t, kinds))
  BY <1>1, Within
<1>3. A \subseteq 1..n /\ B \subseteq 1..Len(t)
  BY <1>1 DEF Where
<1>4. IsFiniteSet(C) /\ Cardinality(C) = Cardinality(B)
  <2>1. f \in [B -> C]
    OBVIOUS
  <2>2. \A x, y \in B : f[x] = f[y] => x = y
    BY <1>1, <1>3
  <2>3. \A y \in C : \E x \in B : f[x] = y
    OBVIOUS
  <2> HIDE DEF C, f, B
  <2> QED BY <1>2, <2>1, <2>2, <2>3, AsMany
<1>5. A \cap C = {}
  BY <1>1, <1>3
<1>6. Where(s \o t, kinds) = A \cup C
  <2>1. ASSUME NEW i \in Where(s \o t, kinds) PROVE i \in A \cup C
    <3>1. i \in 1..n + Len(t) /\ (s \o t)[i].kind \in kinds
      BY <1>1 DEF Where
    <3>2. CASE i <= n
      BY <1>1, <3>1, <3>2 DEF Where
    <3>3. CASE i > n
      <4>1. i - n \in 1..Len(t) /\ i = n + (i - n) /\ t[i - n].kind \in kinds
        BY <1>1, <3>1, <3>3
      <4>2. i - n \in B
        BY <1>1, <4>1 DEF Where
      <4> QED BY <4>1, <4>2
    <3> QED BY <1>1, <3>1, <3>2, <3>3
  <2>2. ASSUME NEW i \in A PROVE i \in Where(s \o t, kinds)
    BY <1>1 DEF Where
  <2>3. ASSUME NEW j \in B PROVE n + j \in Where(s \o t, kinds)
    <3>1. j \in 1..Len(t) /\ t[j].kind \in kinds
      BY <1>1 DEF Where
    <3>2. n + j \in 1..n + Len(t) /\ ~(n + j <= n) /\ (n + j) - n = j
      BY <1>1, <3>1
    <3>3. (s \o t)[n + j] = t[j]
      BY <1>1, <3>2
    <3> QED BY <1>1, <3>1, <3>2, <3>3 DEF Where
  <2> QED BY <2>1, <2>2, <2>3
<1> HIDE DEF A, B, C
<1>7. Cardinality(A \cup C) = Cardinality(A) + Cardinality(C)
  BY <1>2, <1>4, <1>5, Parts
<1> QED BY <1>2, <1>4, <1>6, <1>7

One(x, kinds) == IF x.kind \in kinds THEN 1 ELSE 0

(* What a list of one segment counts.                                      *)
LEMMA OfOne ==
  ASSUME NEW X, NEW x \in X, NEW kinds
  PROVE  Of(<<x>>, kinds) = One(x, kinds)
<1>1. DOMAIN <<x>> = {1} /\ <<x>>[1] = x
  OBVIOUS
<1>2. CASE x.kind \in kinds
  <2>1. {i \in DOMAIN <<x>> : <<x>>[i].kind \in kinds} = {1}
    BY <1>1, <1>2
  <2> QED BY <1>2, <2>1, FS_Singleton DEF Of, One
<1>3. CASE x.kind \notin kinds
  <2>1. {i \in DOMAIN <<x>> : <<x>>[i].kind \in kinds} = {}
    BY <1>1, <1>3
  <2> QED BY <1>3, <2>1, FS_EmptySet DEF Of, One
<1> QED BY <1>2, <1>3

(* A segment appended counts once more.                                    *)
LEMMA OfAppend ==
  ASSUME NEW X, NEW s \in Seq(X), NEW x \in X, NEW kinds
  PROVE  Of(Append(s, x), kinds) = Of(s, kinds) + One(x, kinds)
<1>1. Append(s, x) = s \o <<x>> /\ <<x>> \in Seq(X)
  BY AppendIsConcat
<1>2. Of(s \o <<x>>, kinds) = Of(s, kinds) + Of(<<x>>, kinds)
  BY <1>1, OfConcat, Zenon
<1>3. Of(<<x>>, kinds) = One(x, kinds)
  BY OfOne
<1> QED BY <1>1, <1>2, <1>3

(* A list is its first segment and the rest.                               *)
LEMMA OfTail ==
  ASSUME NEW X, NEW s \in Seq(X), s # << >>, NEW kinds
  PROVE  /\ Head(s) \in X /\ Tail(s) \in Seq(X)
         /\ Of(s, kinds) = One(Head(s), kinds) + Of(Tail(s), kinds)
<1>1. Head(s) \in X /\ Tail(s) \in Seq(X)
  BY HeadTailProperties
<1>2. s = <<Head(s)>> \o Tail(s)
  BY <1>1
<1>3. <<Head(s)>> \in Seq(X)
  BY <1>1
<1>4. Of(<<Head(s)>> \o Tail(s), kinds) = Of(<<Head(s)>>, kinds) + Of(Tail(s), kinds)
  BY <1>1, <1>3, OfConcat
<1>5. Of(<<Head(s)>>, kinds) = One(Head(s), kinds)
  BY <1>1, OfOne
<1> QED BY <1>1, <1>2, <1>4, <1>5

(* Turning a list round keeps what is in it.                               *)
LEMMA OfReverse ==
  ASSUME NEW X, NEW s \in Seq(X), NEW kinds
  PROVE  Reverse(s) \in Seq(X) /\ Of(Reverse(s), kinds) = Of(s, kinds)
<1> DEFINE n == Len(s)
           A == Where(s, kinds)
           B == Where(Reverse(s), kinds)
           f == [i \in A |-> n + 1 - i]
<1>1. n \in Nat /\ DOMAIN s = 1..n /\ \A i \in 1..n : s[i] \in X
  BY LenProperties, ElementOfSeq
<1>2. Reverse(s) = [i \in 1..n |-> s[(n - i) + 1]]
  BY DEF Reverse
<1>3. \A i \in 1..n : (n - i) + 1 \in 1..n /\ Reverse(s)[i] = s[(n - i) + 1]
  BY <1>1, <1>2
<1>4. Reverse(s) \in Seq(X)
  BY <1>1, <1>2, <1>3
<1>5. DOMAIN Reverse(s) = 1..n
  BY <1>2
<1>6. IsFiniteSet(A) /\ Of(s, kinds) = Cardinality(A) /\ Of(Reverse(s), kinds) = Cardinality(B)
  BY <1>4, Within
<1>7. ASSUME NEW i \in A PROVE f[i] \in B
  <2>1. i \in 1..n /\ s[i].kind \in kinds
    BY <1>1 DEF Where
  <2>2. n + 1 - i \in 1..n /\ (n - (n + 1 - i)) + 1 = i
    BY <1>1, <2>1
  <2> QED BY <1>3, <1>5, <2>1, <2>2 DEF Where
<1>8. \A x, y \in A : f[x] = f[y] => x = y
  BY <1>1 DEF Where
<1>9. ASSUME NEW j \in B PROVE \E i \in A : f[i] = j
  <2>1. j \in 1..n /\ Reverse(s)[j].kind \in kinds
    BY <1>5 DEF Where
  <2>2. n + 1 - j \in 1..n /\ (n - j) + 1 = n + 1 - j /\ n + 1 - (n + 1 - j) = j
    BY <1>1, <2>1
  <2>3. n + 1 - j \in A
    BY <1>1, <1>3, <2>1, <2>2 DEF Where
  <2> QED BY <2>2, <2>3
<1>10. f \in [A -> B]
  BY <1>7
<1> HIDE DEF A, B, f
<1>11. Cardinality(B) = Cardinality(A)
  BY <1>6, <1>8, <1>9, <1>10, AsMany
<1> QED BY <1>4, <1>6, <1>11

-----------------------------------------------------------------------------
(***************************************************************************)
(* What is kept of a list.                                                 *)
(***************************************************************************)

(* What Kept returns: the recursive function behind it exists.             *)
KeptBy(f, X, s, at) ==
  /\ f \in [0..Len(s) -> Seq(X)]
  /\ f[0] = << >>
  /\ \A n \in 1..Len(s) :
       f[n] = IF n \in at THEN Append(f[n - 1], s[n]) ELSE f[n - 1]
  /\ Kept(s, at) = f[Len(s)]

(* Kept is computed position by position.                                  *)
LEMMA KeptSteps ==
  ASSUME NEW X, NEW s \in Seq(X), NEW at
  PROVE  \E f : KeptBy(f, X, s, at)
<1> DEFINE L == Len(s)
           D(a, n) == IF n = 0 THEN << >>
                      ELSE IF n \in at THEN Append(a[n - 1], s[n]) ELSE a[n - 1]
           k == CHOOSE a : a = [n \in 0..L |-> D(a, n)]
<1>1. Kept(s, at) = k[L]
  BY DEF Kept
<1>2. L \in Nat /\ \A j \in 1..L : s[j] \in X
  BY LenProperties, ElementOfSeq
<1> HIDE DEF L
<1>3. PICK f \in [0..L -> Seq(X)] : f = [n \in 0..L |-> D(f, n)]
  <2> DEFINE step == [m \in 1..L |-> [x \in Seq(X) |->
                        IF m \in at THEN Append(x, s[m]) ELSE x]]
  <2>1. step \in [1..L -> [Seq(X) -> Seq(X)]]
    <3>1. ASSUME NEW m \in 1..L, NEW x \in Seq(X)
          PROVE  (IF m \in at THEN Append(x, s[m]) ELSE x) \in Seq(X)
      BY <1>2, AppendProperties
    <3> QED BY <3>1
  <2>2. << >> \in Seq(X)
    OBVIOUS
  <2>3. PICK f \in [0..L -> Seq(X)] :
          f[0] = << >> /\ \A m \in 1..L : f[m] = step[m][f[m - 1]]
    <3>1. Steps(Seq(X), << >>, L, step)
      BY <1>2, <2>1, <2>2 DEF Steps
    <3> HIDE DEF step
    <3> QED BY <3>1, Recursion DEF Iterates
  <2>4. ASSUME NEW n \in 0..L PROVE f[n] = D(f, n)
    <3>1. CASE n = 0
      BY <2>3, <3>1
    <3>2. CASE n # 0
      <4>1. n \in 1..L /\ n - 1 \in 0..L
        BY <1>2, <3>2
      <4>2. f[n - 1] \in Seq(X)
        BY <4>1
      <4>3. f[n] = step[n][f[n - 1]]
        BY <2>3, <4>1
      <4> QED BY <3>2, <4>1, <4>2, <4>3
    <3> QED BY <3>1, <3>2
  <2>5. f = [n \in 0..L |-> D(f, n)]
    BY <2>4
  <2> QED BY <2>5
<1>4. k = [n \in 0..L |-> D(k, n)]
  <2>1. \E a : a = [n \in 0..L |-> D(a, n)]
    <3> HIDE DEF D
    <3> QED BY <1>3, Zenon
  <2> HIDE DEF D
  <2> QED BY <2>1, Zenon
<1> HIDE DEF k
<1>5. \A n \in 0..L : k[n] = D(k, n)
  BY <1>4
<1> DEFINE S == {n \in 0..L : k[n] \notin Seq(X)}
<1>6. S = {}
  <2> SUFFICES ASSUME S # {} PROVE FALSE
    OBVIOUS
  <2>1. S \in SUBSET Nat
    BY <1>2
  <2>2. PICK n \in S : \A m \in S : n <= m
    BY <2>1, Smallest
  <2>3. n # 0
    <3>1. 0 \in 0..L
      BY <1>2
    <3>2. k[0] = << >>
      BY <1>5, <3>1
    <3>3. k[0] \in Seq(X)
      BY <3>2
    <3> QED BY <2>2, <3>3
  <2>4. n \in 1..L /\ n - 1 \in 0..L /\ n - 1 \notin S
    <3>1. n \in 0..L
      OBVIOUS
    <3>2. n \in 1..L /\ n - 1 \in 0..L /\ ~(n <= n - 1)
      BY <1>2, <2>3, <3>1
    <3> HIDE DEF S
    <3> QED BY <2>2, <3>2, Zenon
  <2>5. k[n - 1] \in Seq(X)
    BY <2>4
  <2>6. k[n] = IF n \in at THEN Append(k[n - 1], s[n]) ELSE k[n - 1]
    BY <1>5, <2>3, <2>4
  <2>7. k[n] \in Seq(X)
    BY <1>2, <2>4, <2>5, <2>6, AppendProperties
  <2> QED BY <2>2, <2>7
<1>7. k \in [0..L -> Seq(X)]
  BY <1>4, <1>6
<1>8. k[0] = << >> /\ \A n \in 1..L :
        k[n] = IF n \in at THEN Append(k[n - 1], s[n]) ELSE k[n - 1]
  BY <1>2, <1>5
<1>9. KeptBy(k, X, s, at)
  BY <1>1, <1>7, <1>8 DEF L, KeptBy
<1> QED BY <1>9

(* It keeps the segments at the positions, of each kind as many as there   *)
(* are.                                                                    *)
LEMMA OfKept ==
  ASSUME NEW X, NEW s \in Seq(X), NEW at, NEW kinds
  PROVE  /\ Kept(s, at) \in Seq({s[i] : i \in at \cap DOMAIN s})
         /\ Of(Kept(s, at), kinds) = Cardinality(Where(s, kinds) \cap at)
<1> DEFINE L == Len(s)
           Y(n) == {s[i] : i \in at \cap 1..n}
           W(n) == Where(s, kinds) \cap at \cap 1..n
<1>1. L \in Nat /\ DOMAIN s = 1..L /\ \A j \in 1..L : s[j] \in X
  BY LenProperties, ElementOfSeq
<1>2a. PICK f : KeptBy(f, X, s, at)
  BY KeptSteps, Zenon
<1>2. /\ f \in [0..L -> Seq(X)]
      /\ f[0] = << >>
      /\ \A n \in 1..L :
           f[n] = IF n \in at THEN Append(f[n - 1], s[n]) ELSE f[n - 1]
      /\ Kept(s, at) = f[L]
  BY <1>2a DEF KeptBy
<1> DEFINE Good(n) == f[n] \in Seq(Y(n)) /\ Of(f[n], kinds) = Cardinality(W(n))
           S == {n \in 0..L : ~ Good(n)}
<1> HIDE DEF L
<1>3. S = {}
  <2> SUFFICES ASSUME S # {} PROVE FALSE
    OBVIOUS
  <2>1. S \in SUBSET Nat
    BY <1>1
  <2>2. PICK n \in S : \A m \in S : n <= m
    BY <2>1, Smallest
  <2>3. n # 0
    <3>1. f[0] = << >> /\ << >> \in Seq(Y(0)) /\ W(0) = {}
      BY <1>2
    <3>2. Of(f[0], kinds) = 0 /\ Cardinality(W(0)) = 0
      <4> HIDE DEF W
      <4> QED BY <3>1, OfEmpty, FS_EmptySet
    <3>3. Good(0)
      BY <3>1, <3>2
    <3> QED BY <2>2, <3>3
  <2>4. n \in 1..L /\ n - 1 \in 0..L /\ n - 1 \notin S
    <3>1. n \in 0..L
      OBVIOUS
    <3>2. n \in 1..L /\ n - 1 \in 0..L /\ ~(n <= n - 1)
      BY <1>1, <2>3, <3>1
    <3> HIDE DEF S
    <3> QED BY <2>2, <3>2, Zenon
  <2>5. Good(n - 1)
    <3> HIDE DEF Good
    <3> QED BY <2>4
  <2>6. f[n] = IF n \in at THEN Append(f[n - 1], s[n]) ELSE f[n - 1]
    BY <1>2, <2>4
  <2>7. Y(n - 1) \subseteq Y(n)
    BY <2>4
  <2>8. f[n - 1] \in Seq(Y(n))
    <3> HIDE DEF Y
    <3> QED BY <2>5, <2>7, SeqMonotonic
  <2>9. 1..n = (1..n - 1) \cup {n} /\ n \notin 1..n - 1
    BY <2>4
  <2>10. IsFiniteSet(W(n - 1)) /\ Cardinality(W(n - 1)) \in Nat
    <3>1. W(n - 1) \subseteq DOMAIN s
      BY DEF Where
    <3> HIDE DEF W
    <3> QED BY <3>1, Within
  <2> SUFFICES Good(n)
    <3> HIDE DEF Good
    <3> QED BY <2>2
  <2> HIDE DEF S
  <2>11. CASE n \in at /\ s[n].kind \in kinds
    <3>1. s[n] \in Y(n)
      BY <2>4, <2>11
    <3>2. W(n) = W(n - 1) \cup {n} /\ n \notin W(n - 1)
      BY <1>1, <2>4, <2>9, <2>11 DEF Where
    <3>3. One(s[n], kinds) = 1
      BY <2>11 DEF One
    <3> HIDE DEF W, Y
    <3>4. Cardinality(W(n)) = Cardinality(W(n - 1)) + 1
      BY <2>10, <3>2, FS_AddElement
    <3>5. Append(f[n - 1], s[n]) \in Seq(Y(n))
      BY <2>8, <3>1, AppendProperties
    <3>6. Of(Append(f[n - 1], s[n]), kinds) = Of(f[n - 1], kinds) + One(s[n], kinds)
      BY <2>8, <3>1, OfAppend, Zenon
    <3> QED BY <2>5, <2>6, <2>11, <3>3, <3>4, <3>5, <3>6
  <2>12. CASE n \in at /\ s[n].kind \notin kinds
    <3>1. s[n] \in Y(n)
      BY <2>4, <2>12
    <3>2. W(n) = W(n - 1)
      BY <1>1, <2>4, <2>9, <2>12 DEF Where
    <3>3. One(s[n], kinds) = 0
      BY <2>12 DEF One
    <3> HIDE DEF W, Y
    <3>5. Append(f[n - 1], s[n]) \in Seq(Y(n))
      BY <2>8, <3>1, AppendProperties
    <3>6. Of(Append(f[n - 1], s[n]), kinds) = Of(f[n - 1], kinds) + One(s[n], kinds)
      BY <2>8, <3>1, OfAppend, Zenon
    <3> QED BY <2>5, <2>6, <2>10, <2>12, <3>2, <3>3, <3>5, <3>6
  <2>13. CASE n \notin at
    <3>2. W(n) = W(n - 1)
      BY <1>1, <2>4, <2>9, <2>13 DEF Where
    <3> HIDE DEF W, Y
    <3> QED BY <2>5, <2>6, <2>8, <2>13, <3>2
  <2> QED BY <2>11, <2>12, <2>13
<1>4. Good(L)
  <2>1. L \in 0..L
    BY <1>1
  <2> HIDE DEF Good
  <2> QED BY <1>3, <2>1
<1>5. W(L) = Where(s, kinds) \cap at /\ Y(L) = {s[i] : i \in at \cap DOMAIN s}
  BY <1>1 DEF Where
<1> QED BY <1>2, <1>4, <1>5

-----------------------------------------------------------------------------
(***************************************************************************)
(* Sums over the lists.                                                    *)
(***************************************************************************)

(* Sums over the lists.                                                    *)
Counted(q, kinds) == \A w \in Levels : Of(q[w], kinds) \in Nat

SumBy(f, q, kinds) ==
  /\ f \in [0..RSND_COUNT -> Nat]
  /\ f[0] = Of(q[0], kinds)
  /\ \A n \in 1..RSND_COUNT : f[n] = Of(q[n], kinds) + f[n - 1]
  /\ Of_all(q, kinds) = f[RSND_COUNT]

(* Of_all is computed list by list.                                        *)
LEMMA OfAllSteps ==
  ASSUME NEW q, NEW kinds, Counted(q, kinds)
  PROVE  \E f : SumBy(f, q, kinds)
<1> DEFINE c == [w \in Levels |-> Of(q[w], kinds)]
           D(a, n) == Of(q[n], kinds) + (IF n = 0 THEN 0 ELSE a[n - 1])
           k == CHOOSE a : a = [n \in Levels |-> D(a, n)]
<1>1. Of_all(q, kinds) = k[RSND_COUNT]
  BY DEF Of_all
<1>2. RSND_COUNT \in Nat \ {0} /\ Levels = 0..RSND_COUNT
  BY KcpAssumption DEF Levels
<1>3. c \in [Levels -> Nat] /\ \A w \in Levels : c[w] = Of(q[w], kinds)
  BY DEF Counted
<1> HIDE DEF c
<1>4. \E a : a = [n \in Levels |-> D(a, n)]
  <2> DEFINE step == [m \in 1..RSND_COUNT |-> [x \in Nat |-> c[m] + x]]
  <2>1. step \in [1..RSND_COUNT -> [Nat -> Nat]]
    BY <1>2, <1>3
  <2>2a. PICK f : Iterates(f, Nat, c[0], RSND_COUNT, step)
    <3>1. 0 \in Levels /\ RSND_COUNT \in Nat
      BY <1>2
    <3>2. c[0] \in Nat
      BY <1>3, <3>1
    <3> HIDE DEF step
    <3>3. Steps(Nat, c[0], RSND_COUNT, step)
      BY <2>1, <3>1, <3>2 DEF Steps
    <3> QED BY <3>3, Recursion
  <2>2. /\ f \in [0..RSND_COUNT -> Nat]
        /\ f[0] = c[0] /\ \A m \in 1..RSND_COUNT : f[m] = step[m][f[m - 1]]
    <3> HIDE DEF step
    <3> QED BY <2>2a DEF Iterates
  <2>3. ASSUME NEW n \in Levels PROVE f[n] = D(f, n)
    <3>1. CASE n = 0
      <4>1. D(f, 0) = c[0] + 0
        BY <1>2, <1>3
      <4> QED BY <1>2, <1>3, <2>2, <3>1, <4>1
    <3>2. CASE n # 0
      <4>1. n \in 1..RSND_COUNT /\ n - 1 \in 0..RSND_COUNT
        BY <1>2, <3>2
      <4>2. f[n - 1] \in Nat
        BY <2>2, <4>1
      <4>3. f[n] = step[n][f[n - 1]]
        BY <2>2, <4>1
      <4> QED BY <1>3, <3>2, <4>1, <4>2, <4>3
    <3> QED BY <3>1, <3>2
  <2>4. f = [n \in Levels |-> D(f, n)]
    BY <1>2, <2>2, <2>3
  <2> QED BY <2>4
<1>5. k = [n \in Levels |-> D(k, n)]
  <2> HIDE DEF D
  <2> QED BY <1>4, Zenon
<1> HIDE DEF k
<1>6. \A n \in Levels : k[n] = D(k, n)
  BY <1>5
<1>7. k[0] = c[0]
  <2>1. 0 \in Levels
    BY <1>2
  <2>2. k[0] = c[0] + 0
    BY <1>3, <1>6, <2>1
  <2> QED BY <1>3, <2>1, <2>2
<1>8. \A n \in 1..RSND_COUNT : k[n] = c[n] + k[n - 1]
  BY <1>2, <1>3, <1>6
<1>9. \A n \in 0..RSND_COUNT : k[n] \in Nat
  <2> DEFINE G == {n \in 0..RSND_COUNT : k[n] \in Nat}
  <2>1. 0 \in G
    BY <1>2, <1>3, <1>7
  <2>2. ASSUME NEW m \in 1..RSND_COUNT, m - 1 \in G PROVE m \in G
    <3>1. m \in Levels /\ m \in 0..RSND_COUNT
      BY <1>2
    <3>2. c[m] \in Nat /\ k[m - 1] \in Nat
      BY <1>3, <2>2, <3>1
    <3>3. k[m] = c[m] + k[m - 1]
      BY <1>8
    <3> QED BY <3>1, <3>2, <3>3
  <2>3. \A n \in 0..RSND_COUNT : n \in G
    <3> HIDE DEF G
    <3> QED BY <1>2, <2>1, <2>2, UpTo
  <2> QED BY <2>3
<1>10. k \in [0..RSND_COUNT -> Nat]
  BY <1>2, <1>5, <1>9
<1>11. SumBy(k, q, kinds)
  BY <1>1, <1>2, <1>3, <1>7, <1>8, <1>10 DEF SumBy
<1> QED BY <1>11

(* What is moved between the lists of four stays in their sum.             *)
Balanced(a, b, c, d, kinds) ==
  /\ Counted(a, kinds) /\ Counted(b, kinds) /\ Counted(c, kinds) /\ Counted(d, kinds)
  /\ \A w \in Levels : Of(a[w], kinds) + Of(b[w], kinds)
                         = Of(c[w], kinds) + Of(d[w], kinds)

(* Four sets of lists that balance list by list balance in sum.            *)
LEMMA OfAllBalance ==
  ASSUME NEW a, NEW b, NEW c, NEW d, NEW kinds,
         Balanced(a, b, c, d, kinds)
  PROVE  /\ Of_all(a, kinds) + Of_all(b, kinds) = Of_all(c, kinds) + Of_all(d, kinds)
         /\ Of_all(a, kinds) \in Nat /\ Of_all(b, kinds) \in Nat
         /\ Of_all(c, kinds) \in Nat /\ Of_all(d, kinds) \in Nat
<1>0. RSND_COUNT \in Nat \ {0} /\ Levels = 0..RSND_COUNT
  BY KcpAssumption DEF Levels
<1>1. PICK e : SumBy(e, a, kinds)
  BY OfAllSteps, Zenon DEF Balanced
<1>2. PICK f : SumBy(f, b, kinds)
  BY OfAllSteps, Zenon DEF Balanced
<1>3. PICK g : SumBy(g, c, kinds)
  BY OfAllSteps, Zenon DEF Balanced
<1>4. PICK h : SumBy(h, d, kinds)
  BY OfAllSteps, Zenon DEF Balanced
<1>5. /\ e \in [Levels -> Nat] /\ f \in [Levels -> Nat]
      /\ g \in [Levels -> Nat] /\ h \in [Levels -> Nat]
  BY <1>0, <1>1, <1>2, <1>3, <1>4 DEF SumBy
<1> DEFINE G == {n \in Levels : e[n] + f[n] = g[n] + h[n]}
<1>6. 0 \in G
  BY <1>0, <1>1, <1>2, <1>3, <1>4 DEF SumBy, Balanced
<1>7. ASSUME NEW m \in 1..RSND_COUNT, m - 1 \in G PROVE m \in G
  <2>1. m \in Levels /\ m - 1 \in Levels
    BY <1>0
  <2>2. e[m - 1] + f[m - 1] = g[m - 1] + h[m - 1]
    BY <1>7
  <2>3. /\ e[m] = Of(a[m], kinds) + e[m - 1] /\ f[m] = Of(b[m], kinds) + f[m - 1]
        /\ g[m] = Of(c[m], kinds) + g[m - 1] /\ h[m] = Of(d[m], kinds) + h[m - 1]
    BY <1>1, <1>2, <1>3, <1>4 DEF SumBy
  <2>4. /\ Of(a[m], kinds) + Of(b[m], kinds) = Of(c[m], kinds) + Of(d[m], kinds)
        /\ Of(a[m], kinds) \in Nat /\ Of(b[m], kinds) \in Nat
        /\ Of(c[m], kinds) \in Nat /\ Of(d[m], kinds) \in Nat
    BY <2>1 DEF Balanced, Counted
  <2>5. /\ e[m - 1] \in Nat /\ f[m - 1] \in Nat /\ g[m - 1] \in Nat /\ h[m - 1] \in Nat
    BY <1>5, <2>1
  <2> QED BY <2>1, <2>2, <2>3, <2>4, <2>5
<1>8. \A n \in 0..RSND_COUNT : n \in G
  <2> HIDE DEF G
  <2> QED BY <1>0, <1>6, <1>7, UpTo
<1>9. RSND_COUNT \in Levels /\ RSND_COUNT \in G
  BY <1>0, <1>8
<1> QED BY <1>1, <1>2, <1>3, <1>4, <1>5, <1>9 DEF SumBy

(* A change of one list.                                                   *)
ChangedAt(v, q, r, kinds) ==
  /\ v \in Levels /\ Counted(q, kinds) /\ Counted(r, kinds)
  /\ \A w \in Levels \ {v} : Of(r[w], kinds) = Of(q[w], kinds)

(* A change of one list changes the sum by as much.                        *)
LEMMA OfAllChange ==
  ASSUME NEW v, NEW q, NEW r, NEW kinds, ChangedAt(v, q, r, kinds)
  PROVE  /\ Of_all(r, kinds) + Of(q[v], kinds) = Of_all(q, kinds) + Of(r[v], kinds)
         /\ Of_all(r, kinds) \in Nat /\ Of_all(q, kinds) \in Nat
         /\ Of(q[v], kinds) \in Nat /\ Of(r[v], kinds) \in Nat
<1>0. RSND_COUNT \in Nat \ {0} /\ Levels = 0..RSND_COUNT
  BY KcpAssumption DEF Levels
<1>1. PICK e : SumBy(e, q, kinds)
  BY OfAllSteps, Zenon DEF ChangedAt
<1>2. PICK f : SumBy(f, r, kinds)
  BY OfAllSteps, Zenon DEF ChangedAt
<1>3. e \in [Levels -> Nat] /\ f \in [Levels -> Nat]
  BY <1>0, <1>1, <1>2 DEF SumBy
<1>4. PICK x \in Nat, y \in Nat : x = Of(q[v], kinds) /\ y = Of(r[v], kinds)
  BY DEF ChangedAt, Counted
<1> DEFINE G == {n \in Levels : IF n < v THEN f[n] = e[n] ELSE f[n] + x = e[n] + y}
<1>5. 0 \in G
  <2>1. 0 \in Levels /\ v \in Levels /\ e[0] = Of(q[0], kinds) /\ f[0] = Of(r[0], kinds)
    BY <1>0, <1>1, <1>2 DEF SumBy, ChangedAt
  <2>2. CASE v = 0
    BY <1>0, <1>3, <1>4, <2>1, <2>2
  <2>3. CASE v # 0
    BY <1>0, <2>1, <2>3 DEF ChangedAt
  <2> QED BY <2>2, <2>3
<1>6. ASSUME NEW m \in 1..RSND_COUNT, m - 1 \in G PROVE m \in G
  <2>1. m \in Levels /\ m - 1 \in Levels /\ v \in Levels
    BY <1>0 DEF ChangedAt
  <2>3. e[m] = Of(q[m], kinds) + e[m - 1] /\ f[m] = Of(r[m], kinds) + f[m - 1]
    BY <1>1, <1>2 DEF SumBy
  <2>5. e[m - 1] \in Nat /\ f[m - 1] \in Nat
        /\ Of(q[m], kinds) \in Nat /\ Of(r[m], kinds) \in Nat
    BY <1>3, <2>1 DEF ChangedAt, Counted
  <2>6. CASE m = v
    BY <1>0, <1>4, <1>6, <2>1, <2>3, <2>5, <2>6
  <2>7. CASE m # v
    <3>1. Of(r[m], kinds) = Of(q[m], kinds)
      BY <2>1, <2>7 DEF ChangedAt
    <3>2. CASE m < v
      <4>1. m - 1 < v /\ f[m - 1] = e[m - 1]
        BY <1>0, <1>6, <2>1, <3>2
      <4> QED BY <2>1, <2>3, <3>1, <3>2, <4>1
    <3>3. CASE m > v
      <4>1. ~(m - 1 < v) /\ ~(m < v) /\ f[m - 1] + x = e[m - 1] + y
        BY <1>0, <1>6, <2>1, <3>3
      <4>2. f[m] + x = e[m] + y
        BY <1>4, <2>3, <2>5, <3>1, <4>1
      <4> QED BY <2>1, <4>1, <4>2
    <3> QED BY <1>0, <2>1, <2>7, <3>2, <3>3
  <2> QED BY <2>6, <2>7
<1>8. \A n \in 0..RSND_COUNT : n \in G
  <2> HIDE DEF G
  <2> QED BY <1>0, <1>5, <1>6, UpTo
<1>9. RSND_COUNT \in Levels /\ RSND_COUNT \in G /\ ~(RSND_COUNT < v)
  BY <1>0, <1>8 DEF ChangedAt
<1> QED BY <1>1, <1>2, <1>3, <1>4, <1>9 DEF SumBy

(* A set sorted into lists above the first.                                *)
Sorted(q, J, g, kinds) ==
  /\ IsFiniteSet(J) /\ g \in [J -> 1..RSND_COUNT]
  /\ Of(q[0], kinds) = 0
  /\ \A w \in 1..RSND_COUNT : Of(q[w], kinds) = Cardinality({j \in J : g[j] = w})

(* A set sorted into lists: the lists hold as many as the set.             *)
LEMMA OfAllSorted ==
  ASSUME NEW q, NEW J, NEW g, NEW kinds, Sorted(q, J, g, kinds)
  PROVE  Of_all(q, kinds) = Cardinality(J) /\ Counted(q, kinds)
<1>0. RSND_COUNT \in Nat \ {0} /\ Levels = 0..RSND_COUNT
  BY KcpAssumption DEF Levels
<1> DEFINE At_(w)  == {j \in J : g[j] = w}
           Upto(w) == {j \in J : g[j] <= w}
<1>1. \A w \in 0..RSND_COUNT : IsFiniteSet(At_(w)) /\ IsFiniteSet(Upto(w))
                    /\ Cardinality(At_(w)) \in Nat /\ Cardinality(Upto(w)) \in Nat
  <2> SUFFICES ASSUME NEW w \in 0..RSND_COUNT
               PROVE  IsFiniteSet(At_(w)) /\ IsFiniteSet(Upto(w))
                    /\ Cardinality(At_(w)) \in Nat /\ Cardinality(Upto(w)) \in Nat
    OBVIOUS
  <2>1. At_(w) \in SUBSET J /\ Upto(w) \in SUBSET J
    OBVIOUS
  <2> HIDE DEF At_, Upto
  <2>2. IsFiniteSet(At_(w)) /\ IsFiniteSet(Upto(w))
    BY <2>1, FS_Subset, Zenon DEF Sorted
  <2> QED BY <2>2, FS_CardinalityType
<1>2. Counted(q, kinds)
  <2>1. ASSUME NEW w \in 1..RSND_COUNT PROVE Of(q[w], kinds) \in Nat
    <3>1. w \in 0..RSND_COUNT
      BY <1>0
    <3>2. Cardinality(At_(w)) \in Nat
      BY <1>1, <3>1
    <3>3. Of(q[w], kinds) = Cardinality(At_(w))
      BY DEF Sorted
    <3> QED BY <3>2, <3>3
  <2> QED BY <1>0, <2>1 DEF Counted, Sorted
<1>3. PICK e : SumBy(e, q, kinds)
  BY <1>2, OfAllSteps, Zenon
<1> DEFINE G == {n \in Levels : e[n] = Cardinality(Upto(n))}
<1>4. 0 \in G
  <2>1. Upto(0) = {}
    BY DEF Sorted
  <2>2. Cardinality(Upto(0)) = 0
    BY <2>1, FS_EmptySet
  <2> HIDE DEF Upto
  <2> QED BY <1>0, <1>3, <2>2 DEF SumBy, Sorted
<1>5. ASSUME NEW m \in 1..RSND_COUNT, m - 1 \in G PROVE m \in G
  <2>1. Upto(m) = At_(m) \cup Upto(m - 1) /\ At_(m) \cap Upto(m - 1) = {}
    BY <1>0 DEF Sorted
  <2>2. m \in Levels /\ m - 1 \in 0..RSND_COUNT /\ m \in 0..RSND_COUNT
    BY <1>0
  <2>3. e[m - 1] = Cardinality(Upto(m - 1))
    BY <1>5
  <2>4. Of(q[m], kinds) = Cardinality(At_(m))
    BY DEF Sorted
  <2>5. e[m] = Of(q[m], kinds) + e[m - 1]
    BY <1>3 DEF SumBy
  <2> HIDE DEF At_, Upto
  <2>6. Cardinality(Upto(m)) = Cardinality(At_(m)) + Cardinality(Upto(m - 1))
    BY <1>1, <2>1, <2>2, Parts
  <2> QED BY <2>2, <2>3, <2>4, <2>5, <2>6
<1>6. \A n \in 0..RSND_COUNT : n \in G
  <2> HIDE DEF G
  <2> QED BY <1>0, <1>4, <1>5, UpTo
<1>7. RSND_COUNT \in G
  <2>1. RSND_COUNT \in 0..RSND_COUNT
    BY <1>0
  <2> HIDE DEF G
  <2> QED BY <1>6, <2>1
<1>8. Upto(RSND_COUNT) = J
  BY <1>0 DEF Sorted
<1> QED BY <1>2, <1>3, <1>7, <1>8 DEF SumBy

-----------------------------------------------------------------------------
(***************************************************************************)
(* The types of what is in the lists; the send slots.                      *)
(***************************************************************************)

(* What is in the lists: a recovery packet is never resent, a last term has*)
(* given its permit back when it was sent.                                 *)
Payload == {"data", "term", "last", "audio"}
Seg == [kind : Payload \cup {"rec"}, pid : Nat, wrn : Levels, fid : Nat,
        gid : Nat, fec : BOOLEAN, end : BOOLEAN]
Unsent == {x \in Seg : x.kind # "rec"}
Resend == {x \in Unsent : x.kind # "last"}
Sent   == {x \in Seg : x.kind # "last"}

IsQueues(q) == q \in [Levels -> Seq(Unsent)] /\ \A w \in 1..RSND_COUNT : q[w] \in Seq(Resend)
IsSlots(c)  == DOMAIN c \in SUBSET Nat /\ IsFiniteSet(DOMAIN c) /\ c \in [DOMAIN c -> Seg]

(* The levels are 0 to RSND_COUNT; 0 is snd_lst.                           *)
LEMMA LevelFacts ==
  RSND_COUNT \in Nat \ {0} /\ Levels = 0..RSND_COUNT /\ 0 \in Levels
         /\ Levels \subseteq Nat /\ \A w \in 1..RSND_COUNT : w \in Levels
BY KcpAssumption DEF Levels

(* ikcp_insert_standalone_send_cur finds a slot, and it is free.           *)
LEMMA FreeSlot ==
  ASSUME NEW c, IsSlots(c), NEW w \in Nat
  PROVE  Free_slot(c, w) \in Nat /\ Free_slot(c, w) \notin DOMAIN c
<1> DEFINE n == Cardinality(DOMAIN c)
           S == {i \in w .. w + n : i \notin DOMAIN c}
<1>1. n \in Nat
  BY FS_CardinalityType DEF IsSlots
<1> HIDE DEF n
<1>2. S # {}
  <2> SUFFICES ASSUME w .. w + n \subseteq DOMAIN c PROVE FALSE
    OBVIOUS
  <2>1. Cardinality(w .. w + n) <= n
    BY FS_Subset DEF n, IsSlots
  <2>2. Cardinality(w .. w + n) = n + 1
    BY <1>1, FS_Interval
  <2> QED BY <1>1, <2>1, <2>2
<1>3. PICK i \in S : \A j \in S : i <= j
  <2>1. S \in SUBSET Nat
    BY <1>1
  <2> HIDE DEF S
  <2> QED BY <1>2, <2>1, Smallest
<1>4. \A j \in w .. i - 1 : j \in DOMAIN c
  <2> SUFFICES ASSUME NEW j \in w .. i - 1, j \notin DOMAIN c PROVE FALSE
    OBVIOUS
  <2>1. j \in S /\ ~(i <= j)
    BY <1>1
  <2> HIDE DEF S
  <2> QED BY <1>3, <2>1
<1>5. \E x \in w .. w + n : x \notin DOMAIN c /\ \A j \in w .. x - 1 : j \in DOMAIN c
  BY <1>4
<1>6. Free_slot(c, w) \in w .. w + n /\ Free_slot(c, w) \notin DOMAIN c
  BY <1>5, Zenon DEF Free_slot, n
<1> QED BY <1>1, <1>6

(* The send slots are finitely many.                                       *)
LEMMA OfSlots ==
  ASSUME NEW c, IsSlots(c), NEW kinds
  PROVE  IsFiniteSet(Where(c, kinds)) /\ Of(c, kinds) = Cardinality(Where(c, kinds))
         /\ Of(c, kinds) \in Nat
<1>1. Where(c, kinds) \in SUBSET DOMAIN c
  BY DEF Where
<1>2. IsFiniteSet(Where(c, kinds))
  BY <1>1, FS_Subset, Zenon DEF IsSlots
<1> QED BY <1>2, FS_CardinalityType DEF Of, Where

(* A segment put into a free slot.                                         *)
Free(c, i, x) == IsSlots(c) /\ i \in Nat /\ i \notin DOMAIN c /\ x \in Seg
Filled(c, i, x, d, kinds) ==
  /\ IsSlots(d) /\ DOMAIN d = DOMAIN c \cup {i}
  /\ Of(d, kinds) = Of(c, kinds) + One(x, kinds)

(* A segment put into a free slot counts once more.                        *)
LEMMA OfPut ==
  ASSUME NEW c, NEW i, NEW x, NEW kinds, Free(c, i, x)
  PROVE  Filled(c, i, x, Put(c, i, x), kinds)
<1> DEFINE d == Put(c, i, x)
<1>0. IsSlots(c) /\ i \in Nat /\ i \notin DOMAIN c /\ x \in Seg
  BY DEF Free
<1> USE <1>0
<1>1. DOMAIN d = DOMAIN c \cup {i}
      /\ d[i] = x /\ \A j \in DOMAIN c : d[j] = c[j]
  BY DEF Put
<1>2. d \in [DOMAIN d -> Seg]
  <2>1. d = [j \in DOMAIN c \cup {i} |-> IF j = i THEN x ELSE c[j]]
    BY DEF Put
  <2>2. \A j \in DOMAIN c : c[j] \in Seg
    BY DEF IsSlots
  <2> QED BY <1>1, <2>1, <2>2
<1> HIDE DEF d
<1>3. IsSlots(d)
  <2>1. IsFiniteSet(DOMAIN c \cup {i})
    BY FS_AddElement DEF IsSlots
  <2> QED BY <1>1, <1>2, <2>1 DEF IsSlots
<1>4. IsFiniteSet(Where(c, kinds)) /\ Of(c, kinds) = Cardinality(Where(c, kinds))
      /\ Of(c, kinds) \in Nat /\ Of(d, kinds) = Cardinality(Where(d, kinds))
  BY <1>3, OfSlots
<1>5. i \notin Where(c, kinds)
  BY DEF Where
<1>6. CASE x.kind \in kinds
  <2>1. Where(d, kinds) = Where(c, kinds) \cup {i}
    BY <1>1, <1>6 DEF Where
  <2>2. Cardinality(Where(c, kinds) \cup {i}) = Cardinality(Where(c, kinds)) + 1
    BY <1>4, <1>5, FS_AddElement
  <2>3. One(x, kinds) = 1
    BY <1>6 DEF One
  <2>4. Of(d, kinds) = Of(c, kinds) + One(x, kinds)
    BY <1>4, <2>1, <2>2, <2>3
  <2> QED BY <1>1, <1>3, <2>4 DEF d, Filled
<1>7. CASE x.kind \notin kinds
  <2>1. Where(d, kinds) = Where(c, kinds)
    BY <1>1, <1>7 DEF Where
  <2>2. One(x, kinds) = 0
    BY <1>7 DEF One
  <2>3. Of(d, kinds) = Of(c, kinds) + One(x, kinds)
    BY <1>4, <2>1, <2>2
  <2> QED BY <1>1, <1>3, <2>3 DEF d, Filled
<1> QED BY <1>6, <1>7

(* The packet that is due next is in the first slot.                       *)
LEMMA DelaySlot ==
  ASSUME NEW c, IsSlots(c), DOMAIN c # {}
  PROVE  /\ Delay(c).some
         /\ Delay(c).slot \in DOMAIN c /\ \A j \in DOMAIN c : Delay(c).slot <= j
<1>1. \E i \in DOMAIN c : \A j \in DOMAIN c : i <= j
  BY Smallest DEF IsSlots
<1> DEFINE i == CHOOSE i \in DOMAIN c : \A j \in DOMAIN c : i <= j
<1>2. i \in DOMAIN c /\ \A j \in DOMAIN c : i <= j
  BY <1>1, Zenon
<1>3. Delay(c) = [some |-> TRUE, slot |-> i]
  BY DEF Delay
<1> HIDE DEF i
<1> QED BY <1>2, <1>3

(* The slots after the first one has been sent.                            *)
Shifted(c, i) == [j \in {k - i - 1 : k \in DOMAIN c \ {i}} |-> c[j + i + 1]]

(* When the first slot is sent the others move up, and only it is gone.    *)
LEMMA OfShifted ==
  ASSUME NEW c, IsSlots(c), NEW i \in DOMAIN c, \A j \in DOMAIN c : i <= j, NEW kinds
  PROVE  /\ IsSlots(Shifted(c, i)) /\ c[i] \in Seg
         /\ Of(c, kinds) = Of(Shifted(c, i), kinds) + One(c[i], kinds)
<1> DEFINE d == Shifted(c, i)
           E == DOMAIN c \ {i}
           f == [k \in E |-> k - i - 1]
<1>1. i \in Nat /\ (\A j \in DOMAIN c : j \in Nat /\ i <= j /\ c[j] \in Seg)
      /\ IsFiniteSet(DOMAIN c)
  BY DEF IsSlots
<1>2. /\ DOMAIN d = {k - i - 1 : k \in E}
      /\ \A k \in E : k - i - 1 \in DOMAIN d /\ d[k - i - 1] = c[k]
                      /\ k - i - 1 \in Nat
      /\ \A j \in DOMAIN d : j \in Nat /\ j + i + 1 \in E /\ d[j] = c[j + i + 1]
                      /\ (j + i + 1) - i - 1 = j
  <2>1. DOMAIN d = {k - i - 1 : k \in E}
    BY DEF Shifted
  <2>2. ASSUME NEW k \in E
        PROVE  k - i - 1 \in DOMAIN d /\ d[k - i - 1] = c[k] /\ k - i - 1 \in Nat
    <3>1. k - i - 1 \in Nat /\ (k - i - 1) + i + 1 = k
      BY <1>1
    <3>2. k - i - 1 \in {m - i - 1 : m \in DOMAIN c \ {i}}
      OBVIOUS
    <3>3. d[k - i - 1] = c[(k - i - 1) + i + 1]
      BY <3>2 DEF Shifted
    <3> QED BY <2>1, <3>1, <3>2, <3>3
  <2>3. ASSUME NEW j \in DOMAIN d
        PROVE  j \in Nat /\ j + i + 1 \in E /\ d[j] = c[j + i + 1]
               /\ (j + i + 1) - i - 1 = j
    <3>1. PICK k \in E : j = k - i - 1
      BY <2>1
    <3>2. j \in Nat /\ j + i + 1 = k /\ k - i - 1 = j
      BY <1>1, <3>1
    <3> QED BY <2>2, <3>1, <3>2
  <2> QED BY <2>1, <2>2, <2>3
<1>3. IsFiniteSet(E) /\ f \in [E -> DOMAIN d]
      /\ (\A x, y \in E : f[x] = f[y] => x = y)
      /\ (\A y \in DOMAIN d : \E x \in E : f[x] = y)
  <2>1. IsFiniteSet(E)
    BY <1>1, FS_RemoveElement
  <2>2. f \in [E -> DOMAIN d]
    BY <1>2
  <2>3. \A x, y \in E : f[x] = f[y] => x = y
    BY <1>1
  <2>4. \A y \in DOMAIN d : \E x \in E : f[x] = y
    BY <1>2
  <2> QED BY <2>1, <2>2, <2>3, <2>4
<1>4. IsSlots(d)
  <2>1. IsFiniteSet(DOMAIN d)
    <3> HIDE DEF d, E, f
    <3> QED BY <1>3, AsMany
  <2>2. d \in [DOMAIN d -> Seg]
    <3>1. \A j \in DOMAIN d : d[j] \in Seg
      BY <1>1, <1>2
    <3>2. d = [j \in DOMAIN d |-> d[j]]
      BY DEF Shifted
    <3> QED BY <3>1, <3>2
  <2> QED BY <1>2, <2>1, <2>2 DEF IsSlots
<1> DEFINE A == Where(c, kinds) \ {i}
           B == Where(d, kinds)
           g == [k \in A |-> k - i - 1]
<1>5. IsFiniteSet(Where(c, kinds)) /\ Of(c, kinds) = Cardinality(Where(c, kinds))
      /\ Of(c, kinds) \in Nat /\ Of(d, kinds) = Cardinality(B) /\ Of(d, kinds) \in Nat
  <2> HIDE DEF d
  <2> QED BY <1>4, OfSlots
<1>6. Cardinality(B) = Cardinality(A)
  <2>1. A \subseteq E
    BY DEF Where
  <2>2. IsFiniteSet(A)
    BY <1>5, FS_RemoveElement
  <2>3. \A k \in A : k - i - 1 \in B
    <3> HIDE DEF d
    <3> QED BY <1>2 DEF Where
  <2>4. g \in [A -> B]
    BY <2>3
  <2>5. \A x, y \in A : g[x] = g[y] => x = y
    BY <1>1, <2>1
  <2>6. ASSUME NEW y \in B PROVE \E x \in A : g[x] = y
    <3>1. y \in DOMAIN d /\ d[y].kind \in kinds
      BY DEF Where
    <3>2. y + i + 1 \in E /\ c[y + i + 1].kind \in kinds /\ (y + i + 1) - i - 1 = y
      BY <1>2, <3>1
    <3>3. y + i + 1 \in A
      BY <3>2 DEF Where
    <3> QED BY <3>2, <3>3
  <2> HIDE DEF A, B, g
  <2> QED BY <2>2, <2>4, <2>5, <2>6, AsMany
<1>7. CASE c[i].kind \in kinds
  <2>1. i \in Where(c, kinds)
    BY <1>7 DEF Where
  <2>2. Cardinality(A) = Cardinality(Where(c, kinds)) - 1
    BY <1>5, <2>1, FS_RemoveElement
  <2>3. One(c[i], kinds) = 1
    BY <1>7 DEF One
  <2>4. Of(c, kinds) = Of(d, kinds) + One(c[i], kinds)
    <3> HIDE DEF A, B, d
    <3> QED BY <1>5, <1>6, <2>2, <2>3
  <2> QED BY <1>1, <1>4, <2>4
<1>8. CASE c[i].kind \notin kinds
  <2>1. Where(c, kinds) = A
    BY <1>8 DEF Where
  <2>3. One(c[i], kinds) = 0
    BY <1>8 DEF One
  <2>4. Of(c, kinds) = Of(d, kinds) + One(c[i], kinds)
    <3> HIDE DEF A, B, d
    <3> QED BY <1>5, <1>6, <2>1, <2>3
  <2> QED BY <1>1, <1>4, <2>4
<1> QED BY <1>7, <1>8

-----------------------------------------------------------------------------
(***************************************************************************)
(* Filling the send slots: ikcp_send_ready_and_get_delay.                  *)
(***************************************************************************)

(* While something waits there is a list it is taken from.                 *)
LEMMA TopLevel ==
  ASSUME NEW q, Some_waiting(q)
  PROVE  Top(q) \in Levels /\ q[Top(q)] # << >>
<1> DEFINE S == {w \in Levels : q[w] # << >>}
           D == {RSND_COUNT - w : w \in S}
<1>0. RSND_COUNT \in Nat \ {0} /\ Levels = 0..RSND_COUNT
  BY LevelFacts
<1>1. S # {} /\ D # {} /\ D \in SUBSET Nat
  BY <1>0 DEF Some_waiting
<1>2. PICK d \in D : \A e \in D : d <= e
  <2> HIDE DEF D
  <2> QED BY <1>1, Smallest
<1>3. PICK w \in S : d = RSND_COUNT - w
  OBVIOUS
<1>4. \A v \in w + 1 .. RSND_COUNT : q[v] = << >>
  <2> SUFFICES ASSUME NEW v \in w + 1 .. RSND_COUNT, q[v] # << >> PROVE FALSE
    OBVIOUS
  <2>1. w \in 0..RSND_COUNT
    BY <1>0
  <2>2. v \in S /\ ~(RSND_COUNT - w <= RSND_COUNT - v)
    BY <1>0, <2>1
  <2> QED BY <1>2, <1>3, <2>2
<1>5. \E x \in Levels : q[x] # << >> /\ \A v \in x + 1 .. RSND_COUNT : q[v] = << >>
  BY <1>4
<1> QED BY <1>5, Zenon DEF Top

(* A segment taken out of the lists.                                       *)
LEMMA WithoutFirst ==
  ASSUME NEW q, IsQueues(q), Some_waiting(q), NEW kinds
  PROVE  /\ First(q) \in Unsent /\ IsQueues(Without_first(q))
         /\ Of_all(q, kinds) = Of_all(Without_first(q), kinds) + One(First(q), kinds)
         /\ Of_all(Without_first(q), kinds) \in Nat
<1> DEFINE t == Top(q)
           r == Without_first(q)
<1>0. RSND_COUNT \in Nat \ {0} /\ Levels = 0..RSND_COUNT
  BY LevelFacts
<1>1. t \in Levels /\ q[t] # << >>
  BY TopLevel
<1>2. q \in [Levels -> Seq(Unsent)] /\ (\A w \in 1..RSND_COUNT : q[w] \in Seq(Resend))
  BY DEF IsQueues
<1>3. r = [q EXCEPT ![t] = Tail(q[t])] /\ First(q) = Head(q[t])
  BY DEF Without_first, First
<1> HIDE DEF t, r
<1>4. q[t] \in Seq(Unsent)
  BY <1>1, <1>2
<1>5. Head(q[t]) \in Unsent /\ Tail(q[t]) \in Seq(Unsent)
      /\ Of(q[t], kinds) = One(Head(q[t]), kinds) + Of(Tail(q[t]), kinds)
  BY <1>1, <1>4, OfTail, Zenon
<1>6. r \in [Levels -> Seq(Unsent)] /\ r[t] = Tail(q[t])
      /\ \A w \in Levels \ {t} : r[w] = q[w]
  BY <1>1, <1>2, <1>3, <1>5
<1>7. ASSUME NEW w \in 1..RSND_COUNT PROVE r[w] \in Seq(Resend)
  <2>1. q[w] \in Seq(Resend) /\ w \in Levels
    BY <1>0, <1>2
  <2>2. CASE w = t
    <3>1. q[w] # << >> /\ r[w] = Tail(q[w])
      BY <1>1, <1>6, <2>2
    <3> QED BY <2>1, <3>1, HeadTailProperties, Zenon
  <2>3. CASE w # t
    BY <1>6, <2>1, <2>3
  <2> QED BY <2>2, <2>3
<1>8. IsQueues(r)
  BY <1>6, <1>7 DEF IsQueues
<1>9. \A w \in Levels : Of(q[w], kinds) \in Nat /\ Of(r[w], kinds) \in Nat
  <2> SUFFICES ASSUME NEW w \in Levels PROVE Of(q[w], kinds) \in Nat /\ Of(r[w], kinds) \in Nat
    OBVIOUS
  <2>1. q[w] \in Seq(Unsent) /\ r[w] \in Seq(Unsent)
    BY <1>2, <1>6
  <2> QED BY <2>1, Within
<1>10. ChangedAt(t, q, r, kinds)
  BY <1>1, <1>6, <1>9 DEF ChangedAt, Counted
<1>11. /\ Of_all(r, kinds) + Of(q[t], kinds) = Of_all(q, kinds) + Of(r[t], kinds)
       /\ Of_all(r, kinds) \in Nat /\ Of_all(q, kinds) \in Nat
       /\ Of(q[t], kinds) \in Nat /\ Of(r[t], kinds) \in Nat
  BY <1>10, OfAllChange
<1>12. One(Head(q[t]), kinds) \in Nat
  BY DEF One
<1>13. Of_all(q, kinds) = Of_all(r, kinds) + One(Head(q[t]), kinds)
  <2>1. Of(r[t], kinds) = Of(Tail(q[t]), kinds)
    BY <1>6, Zenon
  <2>2. Of(q[t], kinds) = One(Head(q[t]), kinds) + Of(r[t], kinds)
    BY <1>5, <2>1, Zenon
  <2> QED BY <1>11, <1>12, <2>2
<1> QED BY <1>3, <1>5, <1>8, <1>11, <1>13 DEF r

(* A segment keeps its kind when it joins a group.                         *)
LEMMA OneKept ==
  ASSUME NEW x \in Unsent, NEW g \in Nat, NEW two \in BOOLEAN, fid \in Nat, NEW kinds
  PROVE  In_group(x, g, two) \in Seg /\ One(In_group(x, g, two), kinds) = One(x, kinds)
<1>1. x \in Seg
  BY DEF Unsent
<1>2. In_group(x, g, two) = [x EXCEPT !.fid = fid, !.gid = g, !.fec = two, !.end = ~two]
  BY DEF In_group
<1>3. In_group(x, g, two) \in Seg /\ In_group(x, g, two).kind = x.kind
  BY <1>1, <1>2 DEF Seg
<1> QED BY <1>3 DEF One

(* A recovery packet is none of the kinds that hold a buffer.              *)
LEMMA NewRecovery ==
  ASSUME fid \in Nat, NEW kinds, "rec" \notin kinds
  PROVE  Recovery \in Seg /\ One(Recovery, kinds) = 0
BY LevelFacts DEF Recovery, Seg, One, Payload

(* The lists that are set are the lists of the next state.                 *)
LEMMA SetQueues ==
  ASSUME NEW q, IsQueues(q), Set_queues(q)
  PROVE  Queues' = q
<1>0. RSND_COUNT \in Nat \ {0} /\ Levels = 0..RSND_COUNT
  BY LevelFacts
<1>1. Queues' = [w \in Levels |-> IF w = 0 THEN snd_lst' ELSE rsnd'[w]]
  BY DEF Queues, Lists
<1>2. \A w \in Levels : (IF w = 0 THEN snd_lst' ELSE rsnd'[w]) = q[w]
  BY <1>0 DEF Set_queues
<1>3. q = [w \in Levels |-> q[w]]
  BY DEF IsQueues
<1> QED BY <1>1, <1>2, <1>3

(* A group moved from the lists to the send slots.                         *)
Moves(q, kinds) ==
  /\ IsQueues(Queues') /\ IsSlots(snd_cur')
  /\ DOMAIN snd_cur # {} => DOMAIN snd_cur' # {}
  /\ Of_all(Queues', kinds) + Of(snd_cur', kinds) = Of_all(q, kinds) + Of(snd_cur, kinds)
  /\ Of_all(Queues', kinds) \in Nat

(* ikcp_queue_send_cur with one segment moves just that one.               *)
LEMMA QueueOne ==
  ASSUME NEW q, IsQueues(q), IsSlots(snd_cur), fid \in Nat,
         NEW kinds, Some_waiting(q), Queue_one(q)
  PROVE  Moves(q, kinds)
<1> DEFINE r == Without_first(q)
           at == Free_slot(snd_cur, 0)
           sx == In_group(First(q), 0, FALSE)
<1>1. /\ First(q) \in Unsent /\ IsQueues(r)
      /\ Of_all(q, kinds) = Of_all(r, kinds) + One(First(q), kinds)
      /\ Of_all(r, kinds) \in Nat
  BY WithoutFirst
<1>2. Set_queues(r) /\ snd_cur' = Put(snd_cur, at, sx)
  BY DEF Queue_one
<1>3. at \in Nat /\ at \notin DOMAIN snd_cur
  BY FreeSlot, 0 \in Nat, Zenon
<1>4. sx \in Seg /\ One(sx, kinds) = One(First(q), kinds)
  BY <1>1, OneKept, 0 \in Nat, FALSE \in BOOLEAN, Zenon
<1> HIDE DEF r, at, sx
<1>5. /\ IsSlots(Put(snd_cur, at, sx)) /\ DOMAIN Put(snd_cur, at, sx) = DOMAIN snd_cur \cup {at}
      /\ Of(Put(snd_cur, at, sx), kinds) = Of(snd_cur, kinds) + One(sx, kinds)
  <2>1. Free(snd_cur, at, sx)
    BY <1>3, <1>4 DEF Free
  <2>2. Filled(snd_cur, at, sx, Put(snd_cur, at, sx), kinds)
    BY <2>1, OfPut, Zenon
  <2> QED BY <2>2, Zenon DEF Filled
<1>6. Queues' = r
  BY <1>1, <1>2, SetQueues
<1>7. Of(snd_cur, kinds) \in Nat /\ One(sx, kinds) \in Nat
  BY OfSlots DEF One
<1> QED BY <1>1, <1>2, <1>4, <1>5, <1>6, <1>7 DEF Moves

(* With two it moves just those, the reset for want of a buffer included.  *)
LEMMA QueueTwo ==
  ASSUME INTERVAL \in Nat, NEW q, IsQueues(q), IsSlots(snd_cur), fid \in Nat,
         NEW kinds, "rec" \notin kinds, Some_waiting(q), Two_at_once(q), Queue_two(q)
  PROVE  Moves(q, kinds)
<1> DEFINE r == Without_first(q)
           s == Without_first(r)
           sx == In_group(First(q), 0, TRUE)
           sy == In_group(First(r), 1, TRUE)
           i0 == Free_slot(snd_cur, 0)
           c0 == Put(snd_cur, i0, sx)
           i1 == Free_slot(c0, INTERVAL + i0)
           c1 == Put(c0, i1, sy)
           i2 == Free_slot(c1, INTERVAL + i1)
           c2 == Put(c1, i2, Recovery)
<1>1. /\ First(q) \in Unsent /\ IsQueues(r)
      /\ Of_all(q, kinds) = Of_all(r, kinds) + One(First(q), kinds)
      /\ Of_all(r, kinds) \in Nat
  BY WithoutFirst
<1>2. Some_waiting(r)
  BY DEF Two_at_once
<1>3. Set_queues(s) /\ (snd_cur' = c1 \/ snd_cur' = c2)
  BY DEF Queue_two
<1> HIDE DEF r
<1>4. /\ First(r) \in Unsent /\ IsQueues(s)
      /\ Of_all(r, kinds) = Of_all(s, kinds) + One(First(r), kinds)
      /\ Of_all(s, kinds) \in Nat
  BY <1>1, <1>2, WithoutFirst
<1>5. sx \in Seg /\ One(sx, kinds) = One(First(q), kinds)
      /\ sy \in Seg /\ One(sy, kinds) = One(First(r), kinds)
      /\ One(sx, kinds) \in Nat /\ One(sy, kinds) \in Nat
  <2>1. sx \in Seg /\ One(sx, kinds) = One(First(q), kinds)
    BY <1>1, OneKept, 0 \in Nat, TRUE \in BOOLEAN, Zenon
  <2>2. sy \in Seg /\ One(sy, kinds) = One(First(r), kinds)
    BY <1>4, OneKept, 1 \in Nat, TRUE \in BOOLEAN, Zenon
  <2>3. One(sx, kinds) \in Nat /\ One(sy, kinds) \in Nat
    BY DEF One
  <2> QED BY <2>1, <2>2, <2>3
<1>6. Recovery \in Seg /\ One(Recovery, kinds) = 0
  BY NewRecovery
<1> HIDE DEF s, sx, sy
<1>7. i0 \in Nat /\ i0 \notin DOMAIN snd_cur
  BY FreeSlot, 0 \in Nat, Zenon
<1> HIDE DEF i0
<1>8. /\ IsSlots(c0) /\ DOMAIN c0 = DOMAIN snd_cur \cup {i0}
      /\ Of(c0, kinds) = Of(snd_cur, kinds) + One(sx, kinds)
  <2>1. Free(snd_cur, i0, sx)
    BY <1>5, <1>7 DEF Free
  <2>2. Filled(snd_cur, i0, sx, c0, kinds)
    BY <2>1, OfPut, Zenon
  <2> QED BY <2>2, Zenon DEF Filled
<1> HIDE DEF c0
<1>9. i1 \in Nat /\ i1 \notin DOMAIN c0
  <2>1. INTERVAL + i0 \in Nat
    BY <1>7
  <2> QED BY <1>8, <2>1, FreeSlot
<1> HIDE DEF i1
<1>10. /\ IsSlots(c1) /\ DOMAIN c1 = DOMAIN c0 \cup {i1}
       /\ Of(c1, kinds) = Of(c0, kinds) + One(sy, kinds)
  <2>1. Free(c0, i1, sy)
    BY <1>5, <1>8, <1>9 DEF Free
  <2>2. Filled(c0, i1, sy, c1, kinds)
    BY <2>1, OfPut, Zenon
  <2> QED BY <2>2, Zenon DEF Filled
<1> HIDE DEF c1
<1>11. i2 \in Nat /\ i2 \notin DOMAIN c1
  <2>1. INTERVAL + i1 \in Nat
    BY <1>9
  <2> QED BY <1>10, <2>1, FreeSlot
<1> HIDE DEF i2
<1>12. /\ IsSlots(c2) /\ DOMAIN c2 = DOMAIN c1 \cup {i2}
       /\ Of(c2, kinds) = Of(c1, kinds) + One(Recovery, kinds)
  <2>1. Free(c1, i2, Recovery)
    BY <1>6, <1>10, <1>11 DEF Free
  <2>2. Filled(c1, i2, Recovery, c2, kinds)
    BY <2>1, OfPut, Zenon
  <2> QED BY <2>2, Zenon DEF Filled
<1>13. Queues' = s
  BY <1>3, <1>4, SetQueues
<1>14. Of(snd_cur, kinds) \in Nat /\ Of(c1, kinds) \in Nat
  BY <1>10, OfSlots
<1> HIDE DEF c2
<1>15. IsSlots(snd_cur') /\ Of(snd_cur', kinds) = Of(c1, kinds) /\ DOMAIN snd_cur' # {}
  BY <1>3, <1>6, <1>10, <1>12, <1>14
<1> QED BY <1>1, <1>4, <1>5, <1>8, <1>10, <1>13, <1>14, <1>15 DEF Moves

(* So does ikcp_send_ready_and_get_delay, if it moves anything.            *)
LEMMA ReadyMoves ==
  ASSUME NEW q, IsQueues(q), IsSlots(snd_cur), fid \in Nat,
         NEW kinds, "rec" \notin kinds, NEW n, Ready(q, n)
  PROVE  Moves(q, kinds) /\ fid' \in Nat
<1>1. FID_SPACE \in Nat \ {0} /\ INTERVAL \in Nat
  BY KcpAssumption
<1>2. Fid_next \in Nat
  BY <1>1 DEF Fid_next
<1>3. CASE Set_queues(q) /\ UNCHANGED <<fid, snd_cur>>
  <2>1. Queues' = q
    BY <1>3, SetQueues
  <2>2. Of_all(q, kinds) \in Nat
    <3>1. \A w \in Levels : Of(q[w], kinds) \in Nat
      <4> SUFFICES ASSUME NEW w \in Levels PROVE Of(q[w], kinds) \in Nat
        OBVIOUS
      <4>1. q[w] \in Seq(Unsent)
        BY DEF IsQueues
      <4> QED BY <4>1, Within
    <3>2. Balanced(q, q, q, q, kinds)
      BY <3>1 DEF Balanced, Counted
    <3> QED BY <3>2, OfAllBalance
  <2> QED BY <1>3, <2>1, <2>2 DEF Moves
<1>4. CASE fid' = Fid_next /\ Some_waiting(q) /\ Two_at_once(q) /\ Queue_two(q)
  BY <1>1, <1>2, <1>4, QueueTwo
<1>5. CASE fid' = Fid_next /\ Some_waiting(q) /\ Queue_one(q)
  BY <1>1, <1>2, <1>5, QueueOne
<1> QED BY <1>3, <1>4, <1>5 DEF Ready

-----------------------------------------------------------------------------
(***************************************************************************)
(* Sending again after an acknowledgement.                                 *)
(***************************************************************************)

(* What is sent again: the segments of snd_wak as they are queued again,   *)
(* and those of a group that go to list w.                                 *)
Afresh        == [j \in DOMAIN snd_wak |-> Again(snd_wak[j])]
Part(k, at, w) == {j \in Group(k) \cap at : Afresh[j].wrn = w}

(* What is sent again has been resent once more, and is of its kind.       *)
LEMMA AfreshType ==
  ASSUME snd_wak \in Seq(Sent)
  PROVE  /\ Len(snd_wak) \in Nat /\ DOMAIN snd_wak = 1..Len(snd_wak)
         /\ Afresh \in Seq(Sent) /\ DOMAIN Afresh = 1..Len(snd_wak)
         /\ Len(Afresh) = Len(snd_wak)
         /\ \A j \in 1..Len(snd_wak) :
              /\ Afresh[j] \in Sent /\ Afresh[j].kind = snd_wak[j].kind
              /\ Afresh[j].wrn \in 1..RSND_COUNT
              /\ snd_wak[j].kind # "rec" => Afresh[j] \in Resend
<1>0. RSND_COUNT \in Nat \ {0} /\ Levels = 0..RSND_COUNT
  BY LevelFacts
<1>1. Len(snd_wak) \in Nat /\ DOMAIN snd_wak = 1..Len(snd_wak)
      /\ \A j \in 1..Len(snd_wak) : snd_wak[j] \in Sent
  BY LenProperties, ElementOfSeq
<1>2. ASSUME NEW x \in Sent
      PROVE  /\ Again(x) \in Sent /\ Again(x).kind = x.kind
             /\ Again(x).wrn \in 1..RSND_COUNT
             /\ x.kind # "rec" => Again(x) \in Resend
  <2>1. x \in Seg /\ x.kind # "last" /\ x.wrn \in 0..RSND_COUNT
    BY <1>0 DEF Sent, Seg
  <2>2. (IF x.wrn < RSND_COUNT THEN x.wrn + 1 ELSE x.wrn) \in 1..RSND_COUNT
    BY <1>0, <2>1
  <2>3. Again(x) = [x EXCEPT !.wrn = IF x.wrn < RSND_COUNT THEN x.wrn + 1 ELSE x.wrn,
                             !.fid = 0, !.gid = 0, !.fec = FALSE, !.end = FALSE]
    BY DEF Again
  <2>4. \A w \in 1..RSND_COUNT : w \in Levels
    BY <1>0
  <2>5. Again(x) \in Seg /\ Again(x).kind = x.kind
        /\ Again(x).wrn = IF x.wrn < RSND_COUNT THEN x.wrn + 1 ELSE x.wrn
    <3>1. PICK v \in Levels : v = IF x.wrn < RSND_COUNT THEN x.wrn + 1 ELSE x.wrn
      BY <2>2, <2>4
    <3>2. Again(x) = [x EXCEPT !.wrn = v, !.fid = 0, !.gid = 0, !.fec = FALSE, !.end = FALSE]
      BY <2>3, <3>1, Zenon
    <3>3. x \in [kind : Payload \cup {"rec"}, pid : Nat, wrn : Levels, fid : Nat,
                gid : Nat, fec : BOOLEAN, end : BOOLEAN]
      BY <2>1 DEF Seg
    <3>4. Again(x) = [kind |-> x.kind, pid |-> x.pid, wrn |-> v, fid |-> 0,
                      gid |-> 0, fec |-> FALSE, end |-> FALSE]
      BY <3>2, <3>3
    <3>5. x.kind \in Payload \cup {"rec"} /\ x.pid \in Nat
      BY <3>3
    <3>6. Again(x) \in Seg /\ Again(x).kind = x.kind /\ Again(x).wrn = v
      BY <3>1, <3>4, <3>5 DEF Seg
    <3> QED BY <3>1, <3>6
  <2> QED BY <2>1, <2>2, <2>5 DEF Sent, Resend, Unsent
<1>3. \A j \in 1..Len(snd_wak) : Afresh[j] = Again(snd_wak[j])
  BY <1>1 DEF Afresh
<1>4. Afresh = [j \in 1..Len(snd_wak) |-> Again(snd_wak[j])]
  BY <1>1 DEF Afresh
<1>5. Afresh \in [1..Len(snd_wak) -> Sent]
  BY <1>1, <1>2, <1>4
<1>6. Afresh \in Seq(Sent) /\ Len(Afresh) = Len(snd_wak) /\ DOMAIN Afresh = 1..Len(snd_wak)
  BY <1>1, <1>4, <1>5
<1> QED BY <1>1, <1>2, <1>3, <1>6

ResentBy(f, a, at, w) ==
  /\ f \in [0..Len(snd_wak) -> Seq(Sent)]
  /\ f[0] = << >>
  /\ \A k \in 1..Len(snd_wak) :
       f[k] = IF k \in About(a) THEN f[k - 1] \o Reverse(Kept(Afresh, Part(k, at, w)))
              ELSE f[k - 1]
  /\ Resent(a, at, w) = f[Len(snd_wak)]

(* The part of a group that goes to a list is made of its segments.        *)
LEMMA PieceType ==
  ASSUME snd_wak \in Seq(Sent), NEW T
  PROVE  Reverse(Kept(Afresh, T)) \in Seq({Afresh[j] : j \in T \cap DOMAIN Afresh})
<1>1. Kept(Afresh, T) \in Seq({Afresh[j] : j \in T \cap DOMAIN Afresh})
  BY AfreshType, OfKept
<1> QED BY <1>1, OfReverse, Zenon

(* Resent is computed group by group.                                      *)
LEMMA ResentSteps ==
  ASSUME snd_wak \in Seq(Sent), NEW a, NEW at, NEW w
  PROVE  \E f : ResentBy(f, a, at, w)
<1> DEFINE L == Len(snd_wak)
           P(k) == Reverse(Kept(Afresh, Part(k, at, w)))
           D(b, k) == IF k = 0 THEN << >>
                      ELSE IF k \in About(a) THEN b[k - 1] \o P(k) ELSE b[k - 1]
           e == CHOOSE b : b = [k \in 0..L |-> D(b, k)]
<1>1. Resent(a, at, w) = e[L]
  BY DEF Resent, Part, Afresh
<1>2. L \in Nat /\ DOMAIN Afresh = 1..L /\ \A j \in 1..L : Afresh[j] \in Sent
  BY AfreshType
<1>2a. ASSUME NEW k PROVE P(k) \in Seq(Sent)
  <2>1. P(k) \in Seq({Afresh[j] : j \in Part(k, at, w) \cap DOMAIN Afresh})
    BY PieceType
  <2>2. {Afresh[j] : j \in Part(k, at, w) \cap DOMAIN Afresh} \subseteq Sent
    BY <1>2
  <2> HIDE DEF P
  <2> QED BY <2>1, <2>2, SeqMonotonic
<1> HIDE DEF L, P
<1>3. PICK f \in [0..L -> Seq(Sent)] : f = [k \in 0..L |-> D(f, k)]
  <2> DEFINE step == [m \in 1..L |-> [x \in Seq(Sent) |->
                        IF m \in About(a) THEN x \o P(m) ELSE x]]
  <2>1. step \in [1..L -> [Seq(Sent) -> Seq(Sent)]]
    <3>1. ASSUME NEW m \in 1..L, NEW x \in Seq(Sent)
          PROVE  (IF m \in About(a) THEN x \o P(m) ELSE x) \in Seq(Sent)
      BY <1>2a, ConcatProperties
    <3> QED BY <3>1
  <2>2. << >> \in Seq(Sent)
    OBVIOUS
  <2>3. PICK f \in [0..L -> Seq(Sent)] :
          f[0] = << >> /\ \A m \in 1..L : f[m] = step[m][f[m - 1]]
    <3>1. Steps(Seq(Sent), << >>, L, step)
      BY <1>2, <2>1, <2>2 DEF Steps
    <3> HIDE DEF step
    <3> QED BY <3>1, Recursion DEF Iterates
  <2>4. ASSUME NEW k \in 0..L PROVE f[k] = D(f, k)
    <3>1. CASE k = 0
      BY <2>3, <3>1
    <3>2. CASE k # 0
      <4>1. k \in 1..L /\ k - 1 \in 0..L
        BY <1>2, <3>2
      <4>2. f[k - 1] \in Seq(Sent)
        BY <4>1
      <4>3. f[k] = step[k][f[k - 1]]
        BY <2>3, <4>1
      <4> QED BY <3>2, <4>1, <4>2, <4>3
    <3> QED BY <3>1, <3>2
  <2>5. f = [k \in 0..L |-> D(f, k)]
    BY <2>4
  <2> QED BY <2>5
<1>4. e = [k \in 0..L |-> D(e, k)]
  <2>1. \E b : b = [k \in 0..L |-> D(b, k)]
    <3> HIDE DEF D
    <3> QED BY <1>3, Zenon
  <2> HIDE DEF D
  <2> QED BY <2>1, Zenon
<1> HIDE DEF e
<1>5. \A k \in 0..L : e[k] = D(e, k)
  BY <1>4
<1>6. \A k \in 0..L : e[k] \in Seq(Sent)
  <2> DEFINE G == {k \in 0..L : e[k] \in Seq(Sent)}
  <2>1. 0 \in G
    <3>1. 0 \in 0..L
      BY <1>2
    <3>2. e[0] = << >>
      BY <1>5, <3>1
    <3>3. e[0] \in Seq(Sent)
      BY <3>2
    <3> QED BY <3>1, <3>3
  <2>2. ASSUME NEW m \in 1..L, m - 1 \in G PROVE m \in G
    <3>1. m \in 0..L /\ m # 0 /\ e[m - 1] \in Seq(Sent)
      BY <1>2, <2>2
    <3>2. e[m] = IF m \in About(a) THEN e[m - 1] \o P(m) ELSE e[m - 1]
      BY <1>5, <3>1
    <3>3. e[m] \in Seq(Sent)
      BY <1>2a, <3>1, <3>2, ConcatProperties
    <3> QED BY <3>1, <3>3
  <2> HIDE DEF G
  <2>3. \A k \in 0..L : k \in G
    BY <1>2, <2>1, <2>2, UpTo
  <2> QED BY <2>3 DEF G
<1>7. e \in [0..L -> Seq(Sent)]
  BY <1>4, <1>6
<1>8. e[0] = << >> /\ \A k \in 1..L :
        e[k] = IF k \in About(a) THEN e[k - 1] \o P(k) ELSE e[k - 1]
  <2>1. 0 \in 0..L /\ \A k \in 1..L : k \in 0..L /\ k # 0
    BY <1>2
  <2>2. e[0] = << >>
    BY <1>5, <2>1
  <2> QED BY <1>5, <2>1, <2>2
<1>9. ResentBy(e, a, at, w)
  BY <1>1, <1>7, <1>8 DEF L, P, ResentBy
<1> QED BY <1>9

Answered(a) == UNION {Group(k) : k \in About(a)}

(* Groups with different ends have no segment in common.                   *)
LEMMA GroupsApart ==
  ASSUME snd_wak \in Seq(Sent), NEW a
  PROVE  /\ About(a) \subseteq 1..Len(snd_wak) /\ Answered(a) \subseteq 1..Len(snd_wak)
         /\ \A k, m \in About(a) : m < k => Group(m) \cap Group(k) = {}
<1>1. Len(snd_wak) \in Nat /\ DOMAIN snd_wak = 1..Len(snd_wak)
  BY LenProperties
<1>2. \A k \in About(a) : k \in 1..Len(snd_wak) /\ snd_wak[k].end
  BY <1>1 DEF About
<1>3. \A k \in 1..Len(snd_wak) : Group(k) \subseteq 1..Len(snd_wak)
  BY <1>1 DEF Group
<1>4. ASSUME NEW k \in About(a), NEW m \in About(a), m < k,
             NEW j \in Group(m), j \in Group(k)
      PROVE  FALSE
  <2>1. /\ j \in 1..m /\ snd_wak[j].fid = snd_wak[m].fid
        /\ snd_wak[j].fid = snd_wak[k].fid
        /\ \A e \in j .. k - 1 : ~(snd_wak[e].end /\ snd_wak[e].fid = snd_wak[k].fid)
    BY <1>4 DEF Group
  <2>2. m \in j .. k - 1
    BY <1>1, <1>2, <1>4, <2>1
  <2> QED BY <1>2, <2>1, <2>2
<1>5. Answered(a) \subseteq 1..Len(snd_wak)
  BY <1>2, <1>3 DEF Answered
<1> QED BY <1>2, <1>4, <1>5

(* What goes to list w is sent again from there, once each.                *)
Due(at, w, kinds) == {j \in at : Afresh[j].wrn = w /\ Afresh[j].kind \in kinds}

(* Each named segment comes to its list exactly once.                      *)
LEMMA OfResent ==
  ASSUME snd_wak \in Seq(Sent), NEW a, NEW at, at \subseteq Answered(a),
         NEW w, NEW kinds
  PROVE  /\ Resent(a, at, w) \in Seq({Afresh[j] : j \in at})
         /\ Of(Resent(a, at, w), kinds) = Cardinality(Due(at, w, kinds))
<1> DEFINE L == Len(snd_wak)
           Y == {Afresh[j] : j \in at}
           H(m) == {j \in Due(at, w, kinds) : \E k \in About(a) : k <= m /\ j \in Group(k)}
           P(k) == Reverse(Kept(Afresh, Part(k, at, w)))
<1>1. /\ L \in Nat /\ DOMAIN Afresh = 1..L /\ Afresh \in Seq(Sent)
      /\ \A j \in 1..L : Afresh[j] \in Sent
  BY AfreshType
<1>2. About(a) \subseteq 1..L /\ at \subseteq 1..L
      /\ \A k, m \in About(a) : m < k => Group(m) \cap Group(k) = {}
  BY GroupsApart
<1>3. PICK f : ResentBy(f, a, at, w)
  BY ResentSteps, Zenon
<1>4. /\ f[0] = << >>
      /\ \A k \in 1..L :
           f[k] = IF k \in About(a) THEN f[k - 1] \o P(k) ELSE f[k - 1]
      /\ Resent(a, at, w) = f[L]
  BY <1>3 DEF ResentBy
<1>5. ASSUME NEW k \in 1..L
      PROVE  P(k) \in Seq(Y) /\ Of(P(k), kinds) = Cardinality({j \in Due(at, w, kinds) : j \in Group(k)})
  <2>1. P(k) \in Seq({Afresh[j] : j \in Part(k, at, w) \cap DOMAIN Afresh})
    BY PieceType
  <2>2. {Afresh[j] : j \in Part(k, at, w) \cap DOMAIN Afresh} \subseteq Y
    BY DEF Part
  <2>3. P(k) \in Seq(Y)
    <3> HIDE DEF P, Y
    <3> QED BY <2>1, <2>2, SeqMonotonic
  <2>4. Kept(Afresh, Part(k, at, w)) \in Seq({Afresh[j] : j \in Part(k, at, w) \cap DOMAIN Afresh})
        /\ Of(Kept(Afresh, Part(k, at, w)), kinds) = Cardinality(Where(Afresh, kinds) \cap Part(k, at, w))
    BY <1>1, OfKept
  <2>5. Of(P(k), kinds) = Of(Kept(Afresh, Part(k, at, w)), kinds)
    BY <2>4, OfReverse
  <2>6. Where(Afresh, kinds) \cap Part(k, at, w) = {j \in Due(at, w, kinds) : j \in Group(k)}
    BY <1>1, <1>2 DEF Where, Part, Due
  <2> QED BY <2>3, <2>4, <2>5, <2>6
<1> HIDE DEF L, P, Y
<1>6. ASSUME NEW S, S \subseteq Due(at, w, kinds) PROVE IsFiniteSet(S) /\ Cardinality(S) \in Nat
  <2>1. S \subseteq DOMAIN Afresh
    BY <1>1, <1>2, <1>6 DEF Due
  <2> QED BY <1>1, <2>1, Within
<1> DEFINE G == {k \in 0..L : f[k] \in Seq(Y) /\ Of(f[k], kinds) = Cardinality(H(k))}
<1>7. 0 \in G
  <2>1. H(0) = {}
    BY <1>1, <1>2
  <2>2. Cardinality(H(0)) = 0 /\ Of(<< >>, kinds) = 0 /\ << >> \in Seq(Y) /\ 0 \in 0..L
    <3>1. Cardinality(H(0)) = 0
      <4> HIDE DEF H
      <4> QED BY <2>1, FS_EmptySet, Zenon
    <3>2. << >> \in Seq(Y) /\ 0 \in 0..L
      BY <1>1
    <3> QED BY <3>1, <3>2, OfEmpty, Zenon
  <2> HIDE DEF H
  <2> QED BY <1>4, <2>2
<1>8. ASSUME NEW m \in 1..L, m - 1 \in G PROVE m \in G
  <2>1. m \in 0..L /\ f[m - 1] \in Seq(Y) /\ Of(f[m - 1], kinds) = Cardinality(H(m - 1))
    BY <1>1, <1>8
  <2>2. CASE m \in About(a)
    <3> DEFINE S == {j \in Due(at, w, kinds) : j \in Group(m)}
    <3>1. H(m) = H(m - 1) \cup S /\ H(m - 1) \cap S = {}
      <4>1. \A k \in About(a) : k \in Int /\ (k <= m <=> k <= m - 1 \/ k = m)
                                /\ (k <= m - 1 => k < m)
        BY <1>1, <1>2
      <4> QED BY <1>2, <2>2, <4>1
    <3>2. IsFiniteSet(H(m - 1)) /\ IsFiniteSet(S)
      <4>1. H(m - 1) \subseteq Due(at, w, kinds) /\ S \subseteq Due(at, w, kinds)
        OBVIOUS
      <4> HIDE DEF H, S
      <4> QED BY <1>6, <4>1
    <3>3. f[m] = f[m - 1] \o P(m) /\ P(m) \in Seq(Y) /\ Of(P(m), kinds) = Cardinality(S)
      BY <1>4, <1>5, <2>2
    <3> HIDE DEF H, S
    <3>4. Cardinality(H(m)) = Cardinality(H(m - 1)) + Cardinality(S)
      BY <3>1, <3>2, Parts
    <3>5. f[m - 1] \o P(m) \in Seq(Y)
      BY <2>1, <3>3, ConcatProperties
    <3>6. Of(f[m - 1] \o P(m), kinds) = Of(f[m - 1], kinds) + Of(P(m), kinds)
      BY <2>1, <3>3, OfConcat, Zenon
    <3>7. Of(f[m], kinds) = Cardinality(H(m))
      BY <2>1, <3>3, <3>4, <3>6
    <3> QED BY <2>1, <3>3, <3>5, <3>7
  <2>3. CASE m \notin About(a)
    <3>1. H(m) = H(m - 1)
      <4>1. \A k \in About(a) : k \in Int /\ (k <= m <=> k <= m - 1)
        BY <1>1, <1>2, <2>3
      <4> QED BY <4>1
    <3>2. f[m] = f[m - 1]
      BY <1>4, <2>3
    <3> HIDE DEF H
    <3> QED BY <2>1, <3>1, <3>2
  <2> QED BY <2>2, <2>3
<1>9. L \in G
  <2>1. L \in 0..L
    BY <1>1
  <2> HIDE DEF G
  <2>2. \A m \in 0..L : m \in G
    BY <1>1, <1>7, <1>8, UpTo
  <2> QED BY <2>1, <2>2
<1>10. H(L) = Due(at, w, kinds)
  <2>1. \A j \in Due(at, w, kinds) : \E k \in About(a) : j \in Group(k)
    BY DEF Due, Answered
  <2>2. \A k \in About(a) : k <= L
    BY <1>1, <1>2
  <2> QED BY <2>1, <2>2
<1>11. f[L] \in Seq(Y) /\ Of(f[L], kinds) = Cardinality(H(L))
  <2> HIDE DEF H
  <2> QED BY <1>9
<1> HIDE DEF H
<1> QED BY <1>4, <1>10, <1>11 DEF Y

-----------------------------------------------------------------------------
(***************************************************************************)
(* ikcp_input: every segment is kept, sent again or freed.                 *)
(***************************************************************************)

(* The segments at some positions an acknowledgement names, and the others *)
(* that are not recovery packets.                                          *)
Nacked(s, at, a) == {j \in {i \in at : s[i].kind # "rec"} : Check_nack(s[j].pid, a)}
Acked(s, at, a)  == {j \in {i \in at : s[i].kind # "rec"} : ~Check_nack(s[j].pid, a)}
Freed(a) == [w \in Levels |->
               IF w = 0 THEN Kept(snd_wak, Acked(snd_wak, Answered(a), a))
               ELSE Kept(rsnd[w], Acked(rsnd[w], DOMAIN rsnd[w], a))]
Requeued(a) == [w \in 1..RSND_COUNT |->
                  Kept(rsnd[w], Nacked(rsnd[w], DOMAIN rsnd[w], a))
                    \o Resent(a, Nacked(snd_wak, Answered(a), a), w)]

(* What ikcp_input does with an acknowledgement.                           *)
LEMMA InputIs ==
  ASSUME NEW a
  PROVE  Input(a) = [snd_wak |-> Kept(snd_wak, DOMAIN snd_wak \ Answered(a)),
                     rsnd |-> Requeued(a), freed |-> Freed(a)]
BY DEF Input, Requeued, Freed, Nacked, Acked, Answered

(* What is kept of two or three parts of a list.                           *)
TwoParts(s, A, B, kinds) ==
  /\ Of(s, kinds) = Of(Kept(s, A), kinds) + Of(Kept(s, B), kinds)
  /\ Of(Kept(s, A), kinds) \in Nat /\ Of(Kept(s, B), kinds) \in Nat

(* A list split in two keeps what is in it.                                *)
LEMMA OfTwo ==
  ASSUME NEW X, NEW s \in Seq(X), NEW A, NEW B, NEW kinds,
         A \cap B = {}, Where(s, kinds) \subseteq A \cup B
  PROVE  TwoParts(s, A, B, kinds)
<1> DEFINE W == Where(s, kinds)
<1>1. W \subseteq DOMAIN s
  BY DEF Where
<1>2. Of(s, kinds) = Cardinality(W) /\ IsFiniteSet(W)
  BY <1>1, Within
<1>3. Of(Kept(s, A), kinds) = Cardinality(W \cap A) /\ Of(Kept(s, B), kinds) = Cardinality(W \cap B)
  BY OfKept, Zenon
<1> HIDE DEF W
<1>4. IsFiniteSet(W \cap A) /\ IsFiniteSet(W \cap B)
  <2>1. W \cap A \subseteq W /\ W \cap B \subseteq W
    OBVIOUS
  <2> QED BY <1>2, <2>1, FS_Subset, Zenon
<1>5. (W \cap A) \cap (W \cap B) = {} /\ W = (W \cap A) \cup (W \cap B)
  BY DEF W
<1>6. /\ Cardinality((W \cap A) \cup (W \cap B)) = Cardinality(W \cap A) + Cardinality(W \cap B)
      /\ Cardinality(W \cap A) \in Nat /\ Cardinality(W \cap B) \in Nat
  BY <1>4, <1>5, Parts, Zenon
<1> QED BY <1>2, <1>3, <1>5, <1>6 DEF TwoParts

ThreeParts(s, A, B, C, kinds) ==
  /\ Of(s, kinds) = Of(Kept(s, A), kinds) + Of(Kept(s, B), kinds)
                     + Cardinality(Where(s, kinds) \cap C)
  /\ Of(Kept(s, A), kinds) \in Nat /\ Of(Kept(s, B), kinds) \in Nat
  /\ Cardinality(Where(s, kinds) \cap C) \in Nat
  /\ IsFiniteSet(Where(s, kinds) \cap C)

(* A list split in three keeps what is in it.                              *)
LEMMA OfThree ==
  ASSUME NEW X, NEW s \in Seq(X), NEW A, NEW B, NEW C, NEW kinds,
         A \cap B = {}, A \cap C = {}, B \cap C = {},
         Where(s, kinds) \subseteq A \cup B \cup C
  PROVE  ThreeParts(s, A, B, C, kinds)
<1>1. Where(s, kinds) \subseteq (A \cup B) \cup C /\ (A \cup B) \cap C = {}
  OBVIOUS
<1>2. TwoParts(s, A \cup B, C, kinds)
  BY <1>1, OfTwo, Zenon
<1>3. Of(Kept(s, C), kinds) = Cardinality(Where(s, kinds) \cap C)
      /\ Of(Kept(s, A), kinds) = Cardinality(Where(s, kinds) \cap A)
      /\ Of(Kept(s, B), kinds) = Cardinality(Where(s, kinds) \cap B)
      /\ Of(Kept(s, A \cup B), kinds) = Cardinality(Where(s, kinds) \cap (A \cup B))
  BY OfKept, Zenon
<1>4. IsFiniteSet(Where(s, kinds) \cap A) /\ IsFiniteSet(Where(s, kinds) \cap B)
      /\ IsFiniteSet(Where(s, kinds) \cap C)
  <2>1. /\ Where(s, kinds) \cap A \subseteq DOMAIN s
        /\ Where(s, kinds) \cap B \subseteq DOMAIN s
        /\ Where(s, kinds) \cap C \subseteq DOMAIN s
    BY DEF Where
  <2> QED BY <2>1, Within
<1> DEFINE P == Where(s, kinds) \cap A
           Q == Where(s, kinds) \cap B
<1>5. P \cap Q = {} /\ Where(s, kinds) \cap (A \cup B) = P \cup Q
  OBVIOUS
<1>6. Cardinality(P \cup Q) = Cardinality(P) + Cardinality(Q)
      /\ Cardinality(P) \in Nat /\ Cardinality(Q) \in Nat
  BY <1>4, <1>5, Parts, Zenon
<1> QED BY <1>2, <1>3, <1>4, <1>5, <1>6 DEF TwoParts, ThreeParts

(* The lists by level are snd_lst and the resend lists.                    *)
LEMMA QueuesAre ==
  /\ Queues[0] = snd_lst
  /\ \A w \in 1..RSND_COUNT : Queues[w] = rsnd[w] /\ w # 0
<1>1. \A w \in 1..RSND_COUNT : w \in Levels /\ w # 0
  BY LevelFacts
<1>2. 0 \in Levels
  BY LevelFacts
<1> QED BY <1>1, <1>2 DEF Queues, Lists

(* What is kept of a list has its type.                                    *)
LEMMA KeptType ==
  ASSUME NEW X, NEW s \in Seq(X), NEW at
  PROVE  Kept(s, at) \in Seq(X)
<1>1. Kept(s, at) \in Seq({s[i] : i \in at \cap DOMAIN s})
  BY OfKept, Zenon
<1>2. DOMAIN s = 1..Len(s) /\ \A i \in 1..Len(s) : s[i] \in X
  BY LenProperties, ElementOfSeq
<1>3. {s[i] : i \in at \cap DOMAIN s} \subseteq X
  BY <1>2
<1> QED BY <1>1, <1>3, SeqMonotonic, Zenon

(* What of snd_wak goes to each list, for the next time.                   *)
Named(a)  == Nacked(snd_wak, Answered(a), a)
Lists_again(a) == [w \in Levels |-> IF w = 0 THEN << >> ELSE Resent(a, Named(a), w)]

(* Named segments are of the answered groups and may be sent again.        *)
LEMMA NamedFacts ==
  ASSUME snd_wak \in Seq(Sent), NEW a
  PROVE  /\ Named(a) \subseteq Answered(a) /\ Named(a) \subseteq 1..Len(snd_wak)
         /\ \A j \in Named(a) : Afresh[j] \in Resend /\ Afresh[j].wrn \in 1..RSND_COUNT
<1>1. Named(a) \subseteq Answered(a) /\ Named(a) \subseteq 1..Len(snd_wak)
  BY GroupsApart DEF Named, Nacked
<1>2. \A j \in Named(a) : snd_wak[j].kind # "rec"
  BY DEF Named, Nacked
<1> QED BY <1>1, <1>2, AfreshType

(* After an acknowledgement the lists hold segments that may be there.     *)
LEMMA RequeuedType ==
  ASSUME IsQueues(Queues), snd_wak \in Seq(Sent), NEW a
  PROVE  /\ Requeued(a) \in [1..RSND_COUNT -> Seq(Resend)]
         /\ \A w \in 1..RSND_COUNT :
              /\ Kept(rsnd[w], Nacked(rsnd[w], DOMAIN rsnd[w], a)) \in Seq(Resend)
              /\ Resent(a, Named(a), w) \in Seq(Resend)
              /\ Requeued(a)[w] = Kept(rsnd[w], Nacked(rsnd[w], DOMAIN rsnd[w], a))
                                    \o Resent(a, Named(a), w)
         /\ Kept(snd_wak, DOMAIN snd_wak \ Answered(a)) \in Seq(Sent)
<1>1. ASSUME NEW w \in 1..RSND_COUNT
      PROVE  /\ Kept(rsnd[w], Nacked(rsnd[w], DOMAIN rsnd[w], a)) \in Seq(Resend)
             /\ Resent(a, Named(a), w) \in Seq(Resend)
  <2>1. rsnd[w] \in Seq(Resend)
    BY QueuesAre DEF IsQueues
  <2>2. Resent(a, Named(a), w) \in Seq({Afresh[j] : j \in Named(a)})
    BY NamedFacts, OfResent
  <2>3. {Afresh[j] : j \in Named(a)} \subseteq Resend
    BY NamedFacts
  <2>4. Resent(a, Named(a), w) \in Seq(Resend)
    BY <2>2, <2>3, SeqMonotonic, Zenon
  <2> QED BY <2>1, <2>4, KeptType, Zenon
<1>2. ASSUME NEW w \in 1..RSND_COUNT
      PROVE  Kept(rsnd[w], Nacked(rsnd[w], DOMAIN rsnd[w], a))
               \o Resent(a, Named(a), w) \in Seq(Resend)
  BY <1>1, ConcatProperties, Zenon
<1>3. Requeued(a) = [w \in 1..RSND_COUNT |->
                  Kept(rsnd[w], Nacked(rsnd[w], DOMAIN rsnd[w], a))
                    \o Resent(a, Named(a), w)]
  BY DEF Requeued, Named
<1>4. Requeued(a) \in [1..RSND_COUNT -> Seq(Resend)]
  BY <1>2, <1>3
<1>5. \A w \in 1..RSND_COUNT : Requeued(a)[w] =
                Kept(rsnd[w], Nacked(rsnd[w], DOMAIN rsnd[w], a)) \o Resent(a, Named(a), w)
  BY <1>3
<1>6. Kept(snd_wak, DOMAIN snd_wak \ Answered(a)) \in Seq(Sent)
  BY KeptType, Zenon
<1> QED BY <1>1, <1>4, <1>5, <1>6

(* Every segment in snd_wak or a resend list that holds a buffer is kept,  *)
(* named or freed, only one of these.                                      *)
LEMMA NoneFrom ==
  ASSUME IsQueues(Queues), snd_wak \in Seq(Sent), NEW a, NEW kinds, "rec" \notin kinds
  PROVE  /\ ThreeParts(snd_wak, DOMAIN snd_wak \ Answered(a), Acked(snd_wak, Answered(a), a),
                       Named(a), kinds)
         /\ \A w \in 1..RSND_COUNT :
              TwoParts(rsnd[w], Nacked(rsnd[w], DOMAIN rsnd[w], a),
                       Acked(rsnd[w], DOMAIN rsnd[w], a), kinds)
<1>1. ThreeParts(snd_wak, DOMAIN snd_wak \ Answered(a), Acked(snd_wak, Answered(a), a),
                 Named(a), kinds)
  <2> DEFINE A == DOMAIN snd_wak \ Answered(a)
             B == Acked(snd_wak, Answered(a), a)
             C == Named(a)
  <2>1. A \cap B = {} /\ A \cap C = {} /\ B \cap C = {}
    BY DEF Acked, Nacked, Named
  <2>2. Where(snd_wak, kinds) \subseteq A \cup B \cup C
    BY DEF Acked, Nacked, Named, Where
  <2> HIDE DEF A, B, C
  <2>3. ThreeParts(snd_wak, A, B, C, kinds)
    BY <2>1, <2>2, OfThree, Zenon
  <2> QED BY <2>3 DEF A, B, C
<1>2. ASSUME NEW w \in 1..RSND_COUNT
      PROVE  TwoParts(rsnd[w], Nacked(rsnd[w], DOMAIN rsnd[w], a),
                       Acked(rsnd[w], DOMAIN rsnd[w], a), kinds)
  <2> DEFINE A == Nacked(rsnd[w], DOMAIN rsnd[w], a)
             B == Acked(rsnd[w], DOMAIN rsnd[w], a)
  <2>1. A \cap B = {}
    BY DEF Acked, Nacked
  <2>2. Where(rsnd[w], kinds) \subseteq A \cup B
    BY DEF Acked, Nacked, Where
  <2>3. rsnd[w] \in Seq(Resend)
    BY QueuesAre DEF IsQueues
  <2> HIDE DEF A, B
  <2>4. TwoParts(rsnd[w], A, B, kinds)
    BY <2>1, <2>2, <2>3, OfTwo, Zenon
  <2> QED BY <2>4 DEF A, B
<1> QED BY <1>1, <1>2

(* An acknowledgement loses nothing: what was in the lists is there, sent  *)
(* again or freed.                                                         *)
Rest(a)  == Kept(snd_wak, DOMAIN snd_wak \ Answered(a))
After(a) == Lists(Requeued(a), snd_lst)
NothingLost(a, kinds) ==
  /\ IsQueues(After(a)) /\ Rest(a) \in Seq(Sent)
  /\ Of_all(After(a), kinds) + Of(Rest(a), kinds) + Of_all(Freed(a), kinds)
       = Of_all(Queues, kinds) + Of(snd_wak, kinds)
  /\ Of_all(After(a), kinds) \in Nat /\ Of(Rest(a), kinds) \in Nat
  /\ Of_all(Freed(a), kinds) \in Nat /\ Of_all(Queues, kinds) \in Nat
  /\ Of(snd_wak, kinds) \in Nat

(* ikcp_input: what was in the lists is still there or freed, never both.  *)
LEMMA InputLosesNothing ==
  ASSUME IsQueues(Queues), snd_wak \in Seq(Sent), NEW a, NEW kinds, "rec" \notin kinds
  PROVE  NothingLost(a, kinds)
<1> DEFINE Q == Queues
           R == After(a)
           N == Lists_again(a)
           F == Freed(a)
           F0 == [w \in Levels |-> IF w = 0 THEN << >> ELSE F[w]]
           J == Where(snd_wak, kinds) \cap Named(a)
           g == [j \in J |-> Afresh[j].wrn]
<1>0. RSND_COUNT \in Nat \ {0} /\ Levels = 0..RSND_COUNT /\ 0 \in Levels
      /\ \A w \in 1..RSND_COUNT : w \in Levels /\ w # 0
  BY LevelFacts
<1>1. /\ Q \in [Levels -> Seq(Unsent)] /\ \A w \in 1..RSND_COUNT : Q[w] \in Seq(Resend)
      /\ Q[0] = snd_lst /\ \A w \in 1..RSND_COUNT : Q[w] = rsnd[w]
  BY QueuesAre DEF IsQueues
<1>2. /\ R[0] = snd_lst
      /\ \A w \in 1..RSND_COUNT :
           R[w] = Kept(rsnd[w], Nacked(rsnd[w], DOMAIN rsnd[w], a)) \o Resent(a, Named(a), w)
      /\ R = [w \in Levels |-> IF w = 0 THEN snd_lst ELSE Requeued(a)[w]]
  <2>1. R = [w \in Levels |-> IF w = 0 THEN snd_lst ELSE Requeued(a)[w]]
    BY DEF After, Lists
  <2>2. \A w \in 1..RSND_COUNT : R[w] = Requeued(a)[w]
    BY <1>0, <2>1
  <2> QED BY <1>0, <2>1, <2>2, RequeuedType
<1>3. N[0] = << >> /\ \A w \in 1..RSND_COUNT : N[w] = Resent(a, Named(a), w)
  BY <1>0 DEF Lists_again
<1>4. F[0] = Kept(snd_wak, Acked(snd_wak, Answered(a), a))
      /\ \A w \in 1..RSND_COUNT : F[w] = Kept(rsnd[w], Acked(rsnd[w], DOMAIN rsnd[w], a))
  BY <1>0 DEF Freed
<1>5. F0[0] = << >> /\ \A w \in 1..RSND_COUNT : F0[w] = F[w]
  BY <1>0
<1>6. IsQueues(R)
  <2>1. snd_lst \in Seq(Unsent)
    BY <1>0, <1>1
  <2>2. \A w \in 1..RSND_COUNT : Requeued(a)[w] \in Seq(Resend)
    BY RequeuedType
  <2>3. \A w \in 1..RSND_COUNT : R[w] \in Seq(Resend)
    BY <1>0, <1>2, <2>2
  <2>4. Seq(Resend) \subseteq Seq(Unsent)
    <3>1. Resend \subseteq Unsent
      BY DEF Resend
    <3> QED BY <3>1, SeqMonotonic, Zenon
  <2>5. \A w \in Levels : R[w] \in Seq(Unsent)
    BY <1>0, <1>2, <2>1, <2>3, <2>4
  <2>6. R \in [Levels -> Seq(Unsent)]
    <3> HIDE DEF R
    <3>1. R = [w \in Levels |-> R[w]]
      BY <1>2
    <3> QED BY <2>5, <3>1
  <2> HIDE DEF R
  <2> QED BY <2>3, <2>6 DEF IsQueues
<1>7. Rest(a) \in Seq(Sent)
  BY RequeuedType DEF Rest
<1> HIDE DEF Q, R, N, F, F0
<1>8. ThreeParts(snd_wak, DOMAIN snd_wak \ Answered(a), Acked(snd_wak, Answered(a), a),
                       Named(a), kinds)
      /\ \A w \in 1..RSND_COUNT :
              TwoParts(rsnd[w], Nacked(rsnd[w], DOMAIN rsnd[w], a),
                       Acked(rsnd[w], DOMAIN rsnd[w], a), kinds)
  BY NoneFrom
<1>9. /\ Of(snd_wak, kinds) = Of(Rest(a), kinds) + Of(F[0], kinds) + Cardinality(J)
      /\ Of(Rest(a), kinds) \in Nat /\ Of(F[0], kinds) \in Nat
      /\ Cardinality(J) \in Nat /\ IsFiniteSet(J)
  BY <1>4, <1>8, Zenon DEF ThreeParts, Rest
<1>10. /\ J \subseteq 1..Len(snd_wak) /\ J \subseteq Named(a)
       /\ \A j \in 1..Len(snd_wak) : Afresh[j].kind = snd_wak[j].kind
       /\ \A j \in J : Afresh[j].wrn \in 1..RSND_COUNT
  BY NamedFacts, AfreshType
<1>11. \A w \in 1..RSND_COUNT : Of(N[w], kinds) = Cardinality({j \in J : g[j] = w})
  <2> SUFFICES ASSUME NEW w \in 1..RSND_COUNT
               PROVE  Of(N[w], kinds) = Cardinality({j \in J : g[j] = w})
    OBVIOUS
  <2>1. Of(Resent(a, Named(a), w), kinds) = Cardinality(Due(Named(a), w, kinds))
    BY NamedFacts, OfResent
  <2>2. Due(Named(a), w, kinds) = {j \in J : Afresh[j].wrn = w}
    <3>1. Named(a) \subseteq 1..Len(snd_wak) /\ DOMAIN snd_wak = 1..Len(snd_wak)
      BY NamedFacts, AfreshType
    <3> QED BY <1>10, <3>1 DEF Due, Where
  <2>3. {j \in J : g[j] = w} = {j \in J : Afresh[j].wrn = w}
    OBVIOUS
  <2> HIDE DEF J, g
  <2> QED BY <1>3, <2>1, <2>2, <2>3
<1>12. g \in [J -> 1..RSND_COUNT]
  BY <1>10
<1> HIDE DEF J, g
<1>13. Of(N[0], kinds) = 0 /\ Of(F0[0], kinds) = 0
  BY <1>3, <1>5, OfEmpty
<1>14. Of_all(N, kinds) = Cardinality(J) /\ Counted(N, kinds)
  <2>1. Sorted(N, J, g, kinds)
    BY <1>9, <1>11, <1>12, <1>13 DEF Sorted
  <2> QED BY <2>1, OfAllSorted, Zenon
<1>15. \A w \in Levels : Of(Q[w], kinds) \in Nat /\ Of(R[w], kinds) \in Nat
  <2> SUFFICES ASSUME NEW w \in Levels PROVE Of(Q[w], kinds) \in Nat /\ Of(R[w], kinds) \in Nat
    OBVIOUS
  <2>1. Q[w] \in Seq(Unsent) /\ R[w] \in Seq(Unsent)
    BY <1>1, <1>6 DEF IsQueues
  <2> QED BY <2>1, Within
<1>16. ASSUME NEW w \in 1..RSND_COUNT
       PROVE  /\ Of(R[w], kinds) + Of(F0[w], kinds) = Of(Q[w], kinds) + Of(N[w], kinds)
              /\ Of(F0[w], kinds) \in Nat
  <2> DEFINE K == Kept(rsnd[w], Nacked(rsnd[w], DOMAIN rsnd[w], a))
  <2>1. Of(rsnd[w], kinds) = Of(K, kinds) + Of(F[w], kinds)
        /\ Of(K, kinds) \in Nat /\ Of(F[w], kinds) \in Nat
    BY <1>4, <1>8, Zenon DEF TwoParts
  <2>2. K \in Seq(Resend) /\ Resent(a, Named(a), w) \in Seq(Resend)
    BY RequeuedType
  <2>3. R[w] = K \o Resent(a, Named(a), w)
    BY <1>2
  <2> HIDE DEF K
  <2>4. Of(K \o Resent(a, Named(a), w), kinds) = Of(K, kinds) + Of(Resent(a, Named(a), w), kinds)
    BY <2>2, OfConcat
  <2>5. Of(N[w], kinds) \in Nat
    BY <1>0, <1>14 DEF Counted
  <2>6. N[w] = Resent(a, Named(a), w) /\ F0[w] = F[w] /\ Q[w] = rsnd[w]
    BY <1>1, <1>3, <1>5
  <2> QED BY <2>1, <2>3, <2>4, <2>5, <2>6
<1>17. Balanced(R, F0, Q, N, kinds)
  <2>1. Of(R[0], kinds) + Of(F0[0], kinds) = Of(Q[0], kinds) + Of(N[0], kinds)
    BY <1>1, <1>2, <1>13
  <2>2. \A w \in Levels : w = 0 \/ w \in 1..RSND_COUNT
    BY <1>0
  <2>3. Counted(R, kinds) /\ Counted(Q, kinds)
    BY <1>15 DEF Counted
  <2>4. Counted(F0, kinds)
    BY <1>13, <1>16, <2>2 DEF Counted
  <2>5. \A w \in Levels : Of(R[w], kinds) + Of(F0[w], kinds) = Of(Q[w], kinds) + Of(N[w], kinds)
    BY <1>16, <2>1, <2>2
  <2> QED BY <1>14, <2>3, <2>4, <2>5 DEF Balanced
<1>18. /\ Of_all(R, kinds) + Of_all(F0, kinds) = Of_all(Q, kinds) + Of_all(N, kinds)
       /\ Of_all(R, kinds) \in Nat /\ Of_all(F0, kinds) \in Nat
       /\ Of_all(Q, kinds) \in Nat /\ Of_all(N, kinds) \in Nat
  BY <1>17, OfAllBalance
<1>19. Of_all(F, kinds) + Of(F0[0], kinds) = Of_all(F0, kinds) + Of(F[0], kinds)
       /\ Of_all(F, kinds) \in Nat
  <2>1. \A w \in Levels \ {0} : Of(F[w], kinds) = Of(F0[w], kinds)
    BY <1>0, <1>5
  <2>2. Counted(F0, kinds)
    BY <1>17 DEF Balanced
  <2>3. Counted(F, kinds)
    BY <1>9, <2>1, <2>2 DEF Counted
  <2>4. ChangedAt(0, F0, F, kinds)
    BY <1>0, <2>1, <2>2, <2>3 DEF ChangedAt
  <2> QED BY <2>4, OfAllChange
<1>20. Of_all(R, kinds) + Of(Rest(a), kinds) + Of_all(F, kinds)
         = Of_all(Q, kinds) + Of(snd_wak, kinds)
       /\ Of(snd_wak, kinds) \in Nat
  <2>1. Of_all(R, kinds) + Of_all(F0, kinds) = Of_all(Q, kinds) + Cardinality(J)
    BY <1>14, <1>18, Zenon
  <2>2. Of_all(F, kinds) + 0 = Of_all(F0, kinds) + Of(F[0], kinds)
    BY <1>13, <1>19, Zenon
  <2>3. PICK r \in Nat, f0 \in Nat, qq \in Nat, c \in Nat, ff \in Nat, f \in Nat, z \in Nat :
          /\ r = Of_all(R, kinds) /\ f0 = Of_all(F0, kinds) /\ qq = Of_all(Q, kinds)
          /\ c = Cardinality(J) /\ ff = Of_all(F, kinds) /\ f = Of(F[0], kinds)
          /\ z = Of(Rest(a), kinds)
    BY <1>9, <1>18, <1>19, Zenon
  <2>4. Of(snd_wak, kinds) = z + f + c
    BY <1>9, <2>3, Zenon
  <2>5. r + f0 = qq + c /\ ff + 0 = f0 + f
    BY <2>1, <2>2, <2>3, Zenon
  <2>6. r + z + ff = qq + Of(snd_wak, kinds) /\ Of(snd_wak, kinds) \in Nat
    BY <2>4, <2>5
  <2> QED BY <2>3, <2>6
<1> QED BY <1>6, <1>7, <1>9, <1>18, <1>19, <1>20 DEF NothingLost, R, F, Q

-----------------------------------------------------------------------------
(***************************************************************************)
(* The invariant.                                                          *)
(***************************************************************************)

KD == {"data"}
KP == {"data", "term", "last"}
KN == {"data", "term", "last", "audio"}
KA == {"audio"}
KL == {"last"}

Packet == [kind : {"data", "term", "last"}]

KcpTypes ==
  /\ wpc \in {"sem", "fill", "term"}
  /\ pool \in Nat /\ sem \in Nat /\ term_sem \in Nat
  /\ audio_free \in Nat /\ audio_syn \in Nat
  /\ nwm_syn \in Seq(Packet)
  /\ pid \in Nat /\ fid \in Nat /\ n_snd \in Nat
  /\ IsQueues(Queues) /\ IsSlots(snd_cur) /\ snd_wak \in Seq(Sent)
  /\ kpc = "send" => DOMAIN snd_cur # {}

KcpInv == KcpTypes /\ BuffersAccounted

(* The lists hold a number of segments of each kind.                       *)
LEMMA OfAllNat ==
  ASSUME NEW q, IsQueues(q), NEW kinds
  PROVE  Of_all(q, kinds) \in Nat /\ Counted(q, kinds)
<1>1. \A w \in Levels : Of(q[w], kinds) \in Nat
  <2> SUFFICES ASSUME NEW w \in Levels PROVE Of(q[w], kinds) \in Nat
    OBVIOUS
  <2>1. q[w] \in Seq(Unsent)
    BY DEF IsQueues
  <2> QED BY <2>1, Within
<1>2. Balanced(q, q, q, q, kinds)
  BY <1>1 DEF Balanced, Counted
<1> QED BY <1>1, <1>2, OfAllBalance DEF Counted

(* The numbers of segments the accounts are made of.                       *)
LEMMA Numbers ==
  ASSUME KcpTypes, NEW kinds
  PROVE  /\ Of_all(Queues, kinds) \in Nat /\ Of(snd_cur, kinds) \in Nat
         /\ Of(snd_wak, kinds) \in Nat /\ Of(nwm_syn, kinds) \in Nat
         /\ In_lists(kinds) \in Nat /\ Held(kinds) \in Nat
         /\ In_lists(kinds) = Of_all(Queues, kinds) + Of(snd_cur, kinds) + Of(snd_wak, kinds)
         /\ Held(kinds) = Of(nwm_syn, kinds) + In_lists(kinds)
<1>1. IsQueues(Queues) /\ IsSlots(snd_cur) /\ snd_wak \in Seq(Sent) /\ nwm_syn \in Seq(Packet)
  BY DEF KcpTypes
<1>2. Of_all(Queues, kinds) \in Nat
  BY <1>1, OfAllNat, Zenon
<1>3. Of(snd_cur, kinds) \in Nat
  BY <1>1, OfSlots, Zenon
<1>4. Of(snd_wak, kinds) \in Nat
  BY <1>1, Within
<1>5. Of(nwm_syn, kinds) \in Nat
  BY <1>1, Within
<1>6. In_lists(kinds) = Of_all(Queues, kinds) + Of(snd_cur, kinds) + Of(snd_wak, kinds)
      /\ Held(kinds) = Of(nwm_syn, kinds) + In_lists(kinds)
  BY DEF In_lists, Held
<1> QED BY <1>2, <1>3, <1>4, <1>5, <1>6

(* A step that leaves the lists alone leaves their counts.                 *)
LEMMA ListsKept ==
  ASSUME UNCHANGED lists, NEW kinds
  PROVE  /\ In_lists(kinds)' = In_lists(kinds)
         /\ Queues' = Queues
BY DEF lists, In_lists, Queues, Lists

(* The lists after some of theirs moved to the send slots.                 *)
LEMMA ListsMoved ==
  ASSUME NEW q, NEW kinds, Moves(q, kinds), UNCHANGED snd_wak
  PROVE  In_lists(kinds)' = Of_all(q, kinds) + Of(snd_cur, kinds) + Of(snd_wak, kinds)
<1>1. In_lists(kinds)' = Of_all(Queues', kinds) + Of(snd_cur', kinds) + Of(snd_wak', kinds)
  BY DEF In_lists
<1> QED BY <1>1 DEF Moves

-----------------------------------------------------------------------------
(***************************************************************************)
(* The steps of the work threads and of audio.                             *)
(***************************************************************************)

buffer == One_if(wpc \in {"fill", "term"})

(* The accounts as equations between numbers.                              *)
LEMMA AccountsAre ==
  BuffersAccounted <=>
    /\ n_snd = In_lists(KN)
    /\ reset \/ sem + Held(KD) + buffer = WINDOW
    /\ pool + Held(KP) + buffer = WINDOW + EXTRA
    /\ audio_free + audio_syn + In_lists(KA) = AUDIO_BUFS
    /\ term_sem + One_if(wpc = "term") + Held(KL) = TERM_PERMITS
BY DEF BuffersAccounted, buffer, KD, KP, KN, KA, KL

After_step ==
  /\ n_snd' = In_lists(KN)'
  /\ reset' \/ sem' + Held(KD)' + buffer' = WINDOW
  /\ pool' + Held(KP)' + buffer' = WINDOW + EXTRA
  /\ audio_free' + audio_syn' + In_lists(KA)' = AUDIO_BUFS
  /\ term_sem' + One_if(wpc' = "term") + Held(KL)' = TERM_PERMITS

(* The accounts of the next state.                                         *)
LEMMA AccountsAfter ==
  ASSUME After_step
  PROVE  BuffersAccounted'
BY DEF After_step, BuffersAccounted, buffer, KD, KP, KN, KA, KL

(* The numbers of a state of the invariant.                                *)
LEMMA AccountsBefore ==
  ASSUME KcpInv, ~reset
  PROVE  /\ n_snd = In_lists(KN) /\ sem + Held(KD) + buffer = WINDOW
         /\ pool + Held(KP) + buffer = WINDOW + EXTRA
         /\ audio_free + audio_syn + In_lists(KA) = AUDIO_BUFS
         /\ term_sem + One_if(wpc = "term") + Held(KL) = TERM_PERMITS
         /\ In_lists(KN) \in Nat /\ In_lists(KA) \in Nat
         /\ Held(KD) \in Nat /\ Held(KP) \in Nat /\ Held(KL) \in Nat
         /\ pool \in Nat /\ sem \in Nat /\ term_sem \in Nat /\ n_snd \in Nat
         /\ audio_free \in Nat /\ audio_syn \in Nat
         /\ WINDOW \in Nat /\ EXTRA \in Nat /\ TERM_PERMITS \in Nat /\ AUDIO_BUFS \in Nat
         /\ KcpTypes
<1>1. KcpTypes
  BY DEF KcpInv
<1>2. In_lists(KN) \in Nat /\ In_lists(KA) \in Nat
      /\ Held(KD) \in Nat /\ Held(KP) \in Nat /\ Held(KL) \in Nat
  BY <1>1, Numbers, Zenon
<1>3. pool \in Nat /\ sem \in Nat /\ term_sem \in Nat /\ n_snd \in Nat
      /\ audio_free \in Nat /\ audio_syn \in Nat
  BY <1>1 DEF KcpTypes
<1>4. WINDOW \in Nat /\ EXTRA \in Nat /\ TERM_PERMITS \in Nat /\ AUDIO_BUFS \in Nat
  BY KcpAssumption
<1> QED BY <1>1, <1>2, <1>3, <1>4, AccountsAre DEF KcpInv

(* Steps of the work threads: the lists of ikcp stay.                      *)
LEMMA WorkTypes ==
  ASSUME KcpTypes, UNCHANGED <<lists, pid, fid, n_snd, kpc>>,
         wpc' \in {"sem", "fill", "term"}, nwm_syn' \in Seq(Packet),
         pool' \in Nat, sem' \in Nat, term_sem' \in Nat,
         audio_free' \in Nat, audio_syn' \in Nat
  PROVE  KcpTypes'
BY ListsKept DEF KcpTypes, lists

(* A step that leaves the lists and nwm_syn alone leaves what they hold.   *)
LEMMA HeldKept ==
  ASSUME UNCHANGED <<lists, nwm_syn>>, NEW kinds
  PROVE  In_lists(kinds)' = In_lists(kinds) /\ Held(kinds)' = Held(kinds)
BY ListsKept DEF Held, lists

(* rp_data_buf_malloc: the permit and the buffer are taken, or the threads *)
(* are reset.                                                              *)
LEMMA MallocStep ==
  ASSUME KcpInv, Rp_data_buf_malloc
  PROVE  KcpInv'
<1>1. /\ wpc = "sem" /\ sem > 0 /\ sem' = sem - 1 /\ ~reset
      /\ UNCHANGED <<lists, nwm_syn, pid, fid, n_snd, kpc, term_sem, audio_free, audio_syn>>
      /\ \/ pool = 0 /\ reset' = TRUE /\ pool' = pool /\ wpc' = wpc
         \/ pool # 0 /\ pool' = pool - 1 /\ wpc' = "fill" /\ reset' = reset
  BY DEF Rp_data_buf_malloc, syns, ids
<1>2. KcpTypes /\ KcpTypes'
  <2>1. KcpTypes
    BY DEF KcpInv
  <2>2. pool' \in Nat /\ sem' \in Nat /\ wpc' \in {"sem", "fill", "term"}
        /\ nwm_syn' \in Seq(Packet) /\ term_sem' \in Nat /\ audio_free' \in Nat
        /\ audio_syn' \in Nat
    BY <1>1, <2>1 DEF KcpTypes
  <2> QED BY <1>1, <2>1, <2>2, WorkTypes
<1>3. \A kinds : In_lists(kinds)' = In_lists(kinds) /\ Held(kinds)' = Held(kinds)
  BY <1>1, HeldKept
<1>5. BuffersAccounted'
  <2>1. ~reset
    BY <1>1
  <2>2. buffer = 0 /\ One_if(wpc = "term") = 0 /\ One_if(wpc' = "term") = 0
        /\ buffer' = (IF wpc' = "fill" THEN 1 ELSE 0)
    BY <1>1 DEF buffer, One_if
  <2>3. After_step
    BY <1>1, <1>3, <2>1, <2>2, AccountsBefore DEF After_step
  <2> QED BY <2>3, AccountsAfter
<1> QED BY <1>2, <1>5 DEF KcpInv

(* rp_send_buffer: the buffer goes from the work thread to nwm_syn.        *)
LEMMA SendBufferStep ==
  ASSUME KcpInv, Rp_send_buffer
  PROVE  KcpInv'
<1>1. /\ wpc = "fill" /\ ~reset /\ wpc' = "sem"
      /\ nwm_syn' = Append(nwm_syn, [kind |-> "data"])
      /\ UNCHANGED <<lists, pid, fid, n_snd, kpc, pool, sem, term_sem, audio_free, audio_syn>>
  BY DEF Rp_send_buffer, ids
<1>2. [kind |-> "data"] \in Packet /\ nwm_syn \in Seq(Packet)
  BY AccountsBefore, <1>1 DEF KcpTypes, Packet
<1>3. KcpTypes'
  <2>1. nwm_syn' \in Seq(Packet)
    BY <1>1, <1>2, AppendProperties
  <2>2. pool' \in Nat /\ sem' \in Nat /\ wpc' \in {"sem", "fill", "term"}
        /\ term_sem' \in Nat /\ audio_free' \in Nat /\ audio_syn' \in Nat
    BY <1>1, AccountsBefore
  <2>3. KcpTypes
    BY DEF KcpInv
  <2> QED BY <1>1, <2>1, <2>2, <2>3, WorkTypes
<1>4. \A kinds : In_lists(kinds)' = In_lists(kinds)
  BY <1>1, ListsKept
<1>5. ASSUME NEW kinds
      PROVE  Held(kinds)' = Held(kinds) + One([kind |-> "data"], kinds)
  <2>1. Of(Append(nwm_syn, [kind |-> "data"]), kinds)
          = Of(nwm_syn, kinds) + One([kind |-> "data"], kinds)
    BY <1>2, OfAppend
  <2>2. Held(kinds)' = Of(nwm_syn', kinds) + In_lists(kinds)'
    BY DEF Held
  <2>3. Of(nwm_syn, kinds) \in Nat /\ In_lists(kinds) \in Nat
        /\ Held(kinds) = Of(nwm_syn, kinds) + In_lists(kinds)
    BY Numbers DEF KcpInv
  <2>4. One([kind |-> "data"], kinds) \in Nat
    BY DEF One
  <2> QED BY <1>1, <1>4, <2>1, <2>2, <2>3, <2>4
<1>6. /\ One([kind |-> "data"], KD) = 1 /\ One([kind |-> "data"], KP) = 1
      /\ One([kind |-> "data"], KL) = 0
  BY DEF One, KD, KP, KL
<1>7. buffer = 1 /\ buffer' = 0 /\ One_if(wpc = "term") = 0 /\ One_if(wpc' = "term") = 0
  BY <1>1 DEF buffer, One_if
<1>8. Held(KD)' = Held(KD) + 1 /\ Held(KP)' = Held(KP) + 1 /\ Held(KL)' = Held(KL) + 0
  BY <1>5, <1>6
<1>9. BuffersAccounted'
  <2>0. In_lists(KN)' = In_lists(KN) /\ In_lists(KA)' = In_lists(KA)
    BY <1>4
  <2>a. ~reset /\ UNCHANGED <<n_snd, pool, sem, term_sem, audio_free, audio_syn>>
    BY <1>1
  <2>1. After_step
    BY <1>7, <1>8, <2>0, <2>a, AccountsBefore DEF After_step
  <2> QED BY <2>1, AccountsAfter
<1> QED BY <1>3, <1>9 DEF KcpInv

(* set_term_dst: the permit for the last term is taken.                    *)
LEMMA SetTermStep ==
  ASSUME KcpInv, Set_term_dst
  PROVE  KcpInv'
<1>1. /\ wpc = "fill" /\ ~reset /\ wpc' = "term" /\ term_sem > 0 /\ term_sem' = term_sem - 1
      /\ UNCHANGED <<lists, nwm_syn, pid, fid, n_snd, kpc, pool, sem, audio_free, audio_syn>>
  BY DEF Set_term_dst, ids, syns
<1>2. KcpTypes'
  <2>1. pool' \in Nat /\ sem' \in Nat /\ wpc' \in {"sem", "fill", "term"}
        /\ term_sem' \in Nat /\ audio_free' \in Nat /\ audio_syn' \in Nat
    BY <1>1, AccountsBefore
  <2>2. KcpTypes
    BY DEF KcpInv
  <2>3. nwm_syn' \in Seq(Packet)
    BY <1>1, <2>2 DEF KcpTypes
  <2> QED BY <1>1, <2>1, <2>2, <2>3, WorkTypes
<1>3. \A kinds : In_lists(kinds)' = In_lists(kinds) /\ Held(kinds)' = Held(kinds)
  BY <1>1, HeldKept
<1>4. buffer = 1 /\ buffer' = 1 /\ One_if(wpc = "term") = 0 /\ One_if(wpc' = "term") = 1
  BY <1>1 DEF buffer, One_if
<1>5. BuffersAccounted'
  <2>1. After_step
    BY <1>1, <1>3, <1>4, AccountsBefore DEF After_step
  <2> QED BY <2>1, AccountsAfter
<1> QED BY <1>2, <1>5 DEF KcpInv

(* audio_enqueue_kcp: an audio buffer goes to the queue.                   *)
LEMMA PutAudioStep ==
  ASSUME KcpInv, Put_audio
  PROVE  KcpInv'
<1>1. /\ ~reset /\ audio_free > 0 /\ audio_free' = audio_free - 1
      /\ audio_syn' = audio_syn + 1
      /\ UNCHANGED <<lists, nwm_syn, wpc, pid, fid, n_snd, kpc, pool, sem, term_sem>>
  BY DEF Put_audio, ids
<1>2. KcpTypes'
  <2>1. pool' \in Nat /\ sem' \in Nat
        /\ term_sem' \in Nat /\ audio_free' \in Nat /\ audio_syn' \in Nat
    BY <1>1, AccountsBefore
  <2>2. KcpTypes
    BY DEF KcpInv
  <2>3. nwm_syn' \in Seq(Packet) /\ wpc' \in {"sem", "fill", "term"}
    BY <1>1, <2>2 DEF KcpTypes
  <2> QED BY <1>1, <2>1, <2>2, <2>3, WorkTypes
<1>3. \A kinds : In_lists(kinds)' = In_lists(kinds) /\ Held(kinds)' = Held(kinds)
  BY <1>1, HeldKept
<1>4. buffer' = buffer /\ One_if(wpc' = "term") = One_if(wpc = "term")
  BY <1>1 DEF buffer
<1>5. BuffersAccounted'
  <2>1. After_step
    BY <1>1, <1>3, <1>4, AccountsBefore DEF After_step
  <2> QED BY <2>1, AccountsAfter
<1> QED BY <1>2, <1>5 DEF KcpInv

(* The terms of a frame: n buffers, one of them with the permit.           *)
Terms(n) == [i \in 1..n |-> Term(i = n)]

(* Terms hold a buffer each and one permit between them.                   *)
LEMMA OfTerms ==
  ASSUME NEW n \in Nat \ {0}
  PROVE  /\ Terms(n) \in Seq(Packet) /\ Of(Terms(n), KD) = 0
         /\ Of(Terms(n), KP) = n /\ Of(Terms(n), KL) = 1
<1>1. /\ DOMAIN Terms(n) = 1..n
      /\ \A i \in 1..n : Terms(n)[i].kind = (IF i = n THEN "last" ELSE "term")
                         /\ Terms(n)[i] \in Packet
  BY DEF Terms, Term, Packet
<1>2. Terms(n) \in Seq(Packet)
  <2>1. Terms(n) \in [1..n -> Packet]
    BY <1>1 DEF Terms
  <2> QED BY <2>1
<1>3. Of(Terms(n), KD) = 0
  <2>1. {i \in DOMAIN Terms(n) : Terms(n)[i].kind \in KD} = {}
    BY <1>1 DEF KD
  <2> QED BY <2>1, FS_EmptySet, Zenon DEF Of
<1>4. Of(Terms(n), KP) = n
  <2>1. {i \in DOMAIN Terms(n) : Terms(n)[i].kind \in KP} = 1..n
    BY <1>1 DEF KP
  <2>2. Cardinality(1..n) = n
    BY FS_Interval
  <2> QED BY <2>1, <2>2, Zenon DEF Of
<1>5. Of(Terms(n), KL) = 1
  <2>1. {i \in DOMAIN Terms(n) : Terms(n)[i].kind \in KL} = {n}
    BY <1>1 DEF KL
  <2>2. Cardinality({n}) = 1
    BY FS_Singleton, Zenon
  <2> QED BY <2>1, <2>2, Zenon DEF Of
<1> QED BY <1>2, <1>3, <1>4, <1>5

(* send_term_dsts: terms take their buffers, the work thread gives its back.*)
LEMMA SendTermsStep ==
  ASSUME KcpInv, Send_term_dsts
  PROVE  KcpInv'
<1>1. /\ wpc = "term" /\ ~reset
      /\ UNCHANGED <<lists, pid, fid, n_snd, kpc, term_sem, audio_free, audio_syn>>
  BY DEF Send_term_dsts, ids
<1>0. pool \in Nat /\ MAX_TERMS \in Nat /\ KcpTypes /\ nwm_syn \in Seq(Packet)
  BY KcpAssumption DEF KcpInv, KcpTypes
<1>2. PICK n \in 1..MAX_TERMS :
        \/ pool < n /\ reset' = TRUE /\ UNCHANGED <<pool, sem, nwm_syn, wpc>>
        \/ /\ ~(pool < n) /\ pool' = (pool - n) + 1 /\ sem' = sem + 1
           /\ nwm_syn' = nwm_syn \o Terms(n) /\ wpc' = "sem" /\ reset' = reset
  BY <1>0, Zenon DEF Send_term_dsts, Terms
<1>3. n \in Nat \ {0} /\ KcpTypes /\ nwm_syn \in Seq(Packet)
  BY <1>0
<1>4. /\ Terms(n) \in Seq(Packet) /\ Of(Terms(n), KD) = 0
      /\ Of(Terms(n), KP) = n /\ Of(Terms(n), KL) = 1
  BY <1>3, OfTerms
<1>5. KcpTypes'
  <2>1. pool \in Nat /\ sem \in Nat /\ n \in Nat /\ wpc \in {"sem", "fill", "term"}
        /\ term_sem' \in Nat /\ audio_free' \in Nat /\ audio_syn' \in Nat
    BY <1>1, <1>3 DEF KcpTypes
  <2>2. nwm_syn' \in Seq(Packet)
    BY <1>2, <1>3, <1>4, ConcatProperties
  <2>3. pool' \in Nat /\ sem' \in Nat
    BY <1>2, <2>1
  <2>4. wpc' \in {"sem", "fill", "term"}
    BY <1>2, <2>1
  <2> QED BY <1>1, <1>3, <2>1, <2>2, <2>3, <2>4, WorkTypes
<1>6. \A kinds : In_lists(kinds)' = In_lists(kinds)
  BY <1>1, ListsKept
<1>7. CASE pool < n /\ reset' = TRUE /\ UNCHANGED <<pool, sem, nwm_syn, wpc>>
  <2>1. \A kinds : In_lists(kinds)' = In_lists(kinds) /\ Held(kinds)' = Held(kinds)
    BY <1>1, <1>7, HeldKept
  <2>2. buffer' = buffer /\ wpc' = wpc
    BY <1>7 DEF buffer
  <2>3. BuffersAccounted'
    <3>1. After_step
      BY <1>1, <1>7, <2>1, <2>2, AccountsBefore DEF After_step
    <3> QED BY <3>1, AccountsAfter
  <2> QED BY <1>5, <2>3 DEF KcpInv
<1>8. CASE /\ ~(pool < n) /\ pool' = (pool - n) + 1 /\ sem' = sem + 1
           /\ nwm_syn' = nwm_syn \o Terms(n) /\ wpc' = "sem" /\ reset' = reset
  <2>1. ASSUME NEW kinds PROVE Held(kinds)' = Held(kinds) + Of(Terms(n), kinds)
    <3>1. Of(nwm_syn \o Terms(n), kinds) = Of(nwm_syn, kinds) + Of(Terms(n), kinds)
      BY <1>3, <1>4, OfConcat
    <3>2. Held(kinds)' = Of(nwm_syn', kinds) + In_lists(kinds)'
      BY DEF Held
    <3>3. Of(nwm_syn, kinds) \in Nat /\ In_lists(kinds) \in Nat
          /\ Held(kinds) = Of(nwm_syn, kinds) + In_lists(kinds)
      BY <1>3, Numbers
    <3>4. Of(Terms(n), kinds) \in Nat
      BY <1>4, Within
    <3> QED BY <1>6, <1>8, <3>1, <3>2, <3>3, <3>4
  <2>2. buffer = 1 /\ buffer' = 0 /\ One_if(wpc = "term") = 1 /\ One_if(wpc' = "term") = 0
    BY <1>1, <1>8 DEF buffer, One_if
  <2>3. Held(KD)' = Held(KD) + 0 /\ Held(KP)' = Held(KP) + n /\ Held(KL)' = Held(KL) + 1
    BY <1>4, <2>1
  <2>4. BuffersAccounted'
    <3>0. In_lists(KN)' = In_lists(KN) /\ In_lists(KA)' = In_lists(KA)
      BY <1>6
    <3>a. n \in Nat /\ ~reset /\ pool' = (pool - n) + 1 /\ sem' = sem + 1
          /\ UNCHANGED <<n_snd, term_sem, audio_free, audio_syn>>
      BY <1>1, <1>3, <1>8
    <3>1. After_step
      BY <2>2, <2>3, <3>0, <3>a, AccountsBefore DEF After_step
    <3> QED BY <3>1, AccountsAfter
  <2> QED BY <1>5, <2>4 DEF KcpInv
<1> QED BY <1>2, <1>7, <1>8

-----------------------------------------------------------------------------
(***************************************************************************)
(* The steps of the kcp thread.                                            *)
(***************************************************************************)

(* What ikcp_send_ready_and_get_delay leaves.                              *)
Readied(q) ==
  /\ IsQueues(Queues') /\ IsSlots(snd_cur') /\ fid' \in Nat
  /\ DOMAIN snd_cur # {} => DOMAIN snd_cur' # {}
  /\ \A kinds : "rec" \notin kinds =>
       In_lists(kinds)' = Of_all(q, kinds) + Of(snd_cur, kinds) + Of(snd_wak, kinds)

(* After it the lists hold what they held, or moved to the slots.          *)
LEMMA AfterReady ==
  ASSUME KcpTypes, NEW q, IsQueues(q), NEW n, Ready(q, n), UNCHANGED snd_wak
  PROVE  Readied(q)
<1>1. IsSlots(snd_cur) /\ fid \in Nat
  BY DEF KcpTypes
<1>2. ASSUME NEW kinds, "rec" \notin kinds
      PROVE  Moves(q, kinds) /\ fid' \in Nat
  BY <1>1, <1>2, ReadyMoves, Zenon
<1>3. ASSUME NEW kinds, "rec" \notin kinds
      PROVE  In_lists(kinds)' = Of_all(q, kinds) + Of(snd_cur, kinds) + Of(snd_wak, kinds)
  <2>1. Moves(q, kinds)
    BY <1>2, <1>3, Zenon
  <2> QED BY <2>1, ListsMoved
<1>4. "rec" \notin KD
  BY DEF KD
<1>5. Moves(q, KD) /\ fid' \in Nat
  BY <1>2, <1>4, Zenon
<1> QED BY <1>3, <1>5 DEF Readied, Moves

(* Recovery packets are in none of the accounts.                           *)
LEMMA NoRec == "rec" \notin KD /\ "rec" \notin KP /\ "rec" \notin KN /\ "rec" \notin KA /\ "rec" \notin KL
BY DEF KD, KP, KN, KA, KL

(* A look at the lists without anything new.                               *)
LEMMA LookLeaves ==
  ASSUME KcpInv, NEW n, Ready(Queues, n), ~reset,
         UNCHANGED <<work, nwm_syn, audio_syn, pid, n_snd, snd_wak>>,
         kpc' = "send" => DOMAIN snd_cur' # {}
  PROVE  KcpInv'
<1>1. KcpTypes /\ IsQueues(Queues)
  BY DEF KcpInv, KcpTypes
<1>2. Readied(Queues)
  BY <1>1, AfterReady, Zenon
<1>3. UNCHANGED <<wpc, pool, sem, term_sem, audio_free, audio_syn, n_snd, nwm_syn, pid>>
  BY DEF work
<1>4. KcpTypes'
  BY <1>1, <1>2, <1>3 DEF KcpTypes, Readied
<1>5. ASSUME NEW kinds, "rec" \notin kinds
      PROVE  In_lists(kinds)' = In_lists(kinds) /\ Held(kinds)' = Held(kinds)
  <2>1. In_lists(kinds)' = In_lists(kinds)
    BY <1>2, <1>5 DEF Readied, In_lists
  <2>2. Held(kinds)' = Of(nwm_syn', kinds) + In_lists(kinds)'
    BY DEF Held
  <2> QED BY <1>3, <2>1, <2>2 DEF Held
<1>6. /\ In_lists(KN)' = In_lists(KN) /\ In_lists(KA)' = In_lists(KA)
      /\ Held(KD)' = Held(KD) /\ Held(KP)' = Held(KP) /\ Held(KL)' = Held(KL)
  BY <1>5, NoRec
<1>7. buffer' = buffer /\ wpc' = wpc
  BY <1>3 DEF buffer
<1>8. After_step
  BY <1>3, <1>6, <1>7, AccountsBefore DEF After_step
<1> QED BY <1>4, <1>8, AccountsAfter DEF KcpInv

(* The first look at what is due.                                          *)
LEMMA LookStep ==
  ASSUME KcpInv, Look
  PROVE  KcpInv'
<1>1. Ready(Queues, n_snd) /\ ~reset /\ kpc' # "send"
      /\ UNCHANGED <<work, nwm_syn, audio_syn, pid, n_snd, snd_wak>>
  BY DEF Look, syns
<1> QED BY <1>1, LookLeaves

(* The kcp thread goes to send only with a packet to send.                 *)
LEMMA SendsOnly ==
  ASSUME NEW q, NEW n, After_queue(q, n), IsSlots(snd_cur')
  PROVE  Ready(q, n) /\ (kpc' = "send" => DOMAIN snd_cur' # {}) /\ UNCHANGED snd_wak
<1>1. Ready(q, n) /\ UNCHANGED snd_wak
  BY DEF After_queue
<1>2. ASSUME kpc' = "send" PROVE DOMAIN snd_cur' # {}
  <2>1. Ready_delay(n, snd_cur').some /\ established
    BY <1>2 DEF After_queue
  <2>2. Ready_delay(n, snd_cur') = NoDelay \/ Ready_delay(n, snd_cur') = Delay(snd_cur')
    BY <2>1 DEF Ready_delay
  <2>3. ~NoDelay.some
    BY DEF NoDelay
  <2> QED BY <2>1, <2>2, <2>3 DEF Delay
<1> QED BY <1>1, <1>2

(* The second look, with nothing to queue.                                 *)
LEMMA ProceedStep ==
  ASSUME KcpInv, Proceed
  PROVE  KcpInv'
<1>1. After_queue(Queues, n_snd) /\ ~reset
      /\ UNCHANGED <<work, nwm_syn, audio_syn, pid, n_snd>>
  BY DEF Proceed, syns
<1>2. KcpTypes /\ IsQueues(Queues)
  BY DEF KcpInv, KcpTypes
<1>3. Ready(Queues, n_snd) /\ UNCHANGED snd_wak
  BY <1>1 DEF After_queue
<1>4. IsSlots(snd_cur')
  BY <1>2, <1>3, AfterReady, Zenon DEF Readied
<1>5. kpc' = "send" => DOMAIN snd_cur' # {}
  BY <1>1, <1>4, SendsOnly, Zenon
<1> QED BY <1>1, <1>3, <1>5, LookLeaves

(* Steps that move no segment and no buffer: waking up, the initial packet,*)
(* the time limit, an acknowledgement that establishes the session.        *)
LEMMA StillStep ==
  ASSUME KcpInv, kpc' # "send" \/ kpc' = kpc,
         UNCHANGED <<work, nwm_syn, audio_syn, ids, lists>>,
         reset => reset'
  PROVE  KcpInv'
<1>1. UNCHANGED <<wpc, pool, sem, term_sem, audio_free, audio_syn, n_snd, nwm_syn, pid, fid,
                  snd_cur, snd_wak>>
      /\ Queues' = Queues
  BY ListsKept DEF work, ids, lists
<1>2. KcpTypes'
  BY <1>1 DEF KcpInv, KcpTypes
<1>3. \A kinds : In_lists(kinds)' = In_lists(kinds) /\ Held(kinds)' = Held(kinds)
  BY HeldKept
<1>4. BuffersAccounted'
  BY <1>1, <1>3 DEF KcpInv, BuffersAccounted
<1> QED BY <1>2, <1>4 DEF KcpInv

Wrn(kind) == IF kind = "audio" THEN RSND_COUNT - 1 ELSE 0
Fresh(kind) == [kind |-> kind, pid |-> pid, wrn |-> Wrn(kind),
                fid |-> 0, gid |-> 0, fec |-> FALSE, end |-> FALSE]
Queued(kind) == [Queues EXCEPT ![Wrn(kind)] =
                   IF kind = "audio" THEN <<Fresh(kind)>> \o @ ELSE Append(@, Fresh(kind))]

(* A segment queued counts once more.                                      *)
LEMMA QueuedOne ==
  ASSUME KcpTypes, NEW kind \in Payload
  PROVE  /\ IsQueues(Queued(kind))
         /\ \A kinds : Of_all(Queued(kind), kinds)
                         = Of_all(Queues, kinds) + One([kind |-> kind], kinds)
<1> DEFINE v == Wrn(kind)
           x == Fresh(kind)
           l == IF kind = "audio" THEN <<x>> \o Queues[v] ELSE Append(Queues[v], x)
           q == Queued(kind)
<1>0. RSND_COUNT \in Nat \ {0} /\ Levels = 0..RSND_COUNT
      /\ \A w \in 1..RSND_COUNT : w \in Levels /\ w # 0
  BY LevelFacts
<1>1. v \in Levels /\ (kind # "audio" => v = 0)
  BY <1>0 DEF Wrn
<1>2. Queues \in [Levels -> Seq(Unsent)] /\ (\A w \in 1..RSND_COUNT : Queues[w] \in Seq(Resend))
  BY DEF KcpTypes, IsQueues
<1>3. x \in Unsent /\ (kind # "last" => x \in Resend) /\ x.kind = kind
  <2>1. pid \in Nat /\ kind \in Payload \cup {"rec"} /\ kind # "rec"
    BY DEF KcpTypes, Payload
  <2>2. x = [kind |-> kind, pid |-> pid, wrn |-> v, fid |-> 0, gid |-> 0, fec |-> FALSE,
             end |-> FALSE]
    BY DEF Fresh
  <2> HIDE DEF x, v
  <2>3. x \in Seg /\ x.kind = kind
    BY <1>1, <2>1, <2>2 DEF Seg
  <2> QED BY <2>1, <2>3 DEF Unsent, Resend
<1>4. q = [Queues EXCEPT ![v] = l]
  BY DEF Queued
<1> HIDE DEF x, v, q
<1>5. l \in Seq(Unsent) /\ \A kinds : Of(l, kinds) = Of(Queues[v], kinds) + One(x, kinds)
  <2>1. Queues[v] \in Seq(Unsent)
    BY <1>1, <1>2
  <2>2. CASE kind = "audio"
    <3>1. <<x>> \in Seq(Unsent)
      BY <1>3
    <3>2. <<x>> \o Queues[v] \in Seq(Unsent)
      BY <2>1, <3>1, ConcatProperties, Zenon
    <3>3. ASSUME NEW kinds
          PROVE  Of(<<x>> \o Queues[v], kinds) = Of(Queues[v], kinds) + One(x, kinds)
      <4>1. Of(<<x>> \o Queues[v], kinds) = Of(<<x>>, kinds) + Of(Queues[v], kinds)
        BY <2>1, <3>1, OfConcat
      <4>2. Of(<<x>>, kinds) = One(x, kinds)
        BY <1>3, OfOne
      <4>3. Of(Queues[v], kinds) \in Nat /\ One(x, kinds) \in Nat
        BY <2>1, Within DEF One
      <4> QED BY <4>1, <4>2, <4>3
    <3> QED BY <2>2, <3>2, <3>3
  <2>3. CASE kind # "audio"
    <3>1. Append(Queues[v], x) \in Seq(Unsent)
      BY <1>3, <2>1, AppendProperties, Zenon
    <3>2. ASSUME NEW kinds
          PROVE  Of(Append(Queues[v], x), kinds) = Of(Queues[v], kinds) + One(x, kinds)
      BY <1>3, <2>1, OfAppend
    <3> QED BY <2>3, <3>1, <3>2
  <2> QED BY <2>2, <2>3
<1>6. v # 0 => l \in Seq(Resend)
  <2> SUFFICES ASSUME v # 0 PROVE l \in Seq(Resend)
    OBVIOUS
  <2>1. kind = "audio" /\ v \in 1..RSND_COUNT
    BY <1>0, <1>1
  <2>2. Queues[v] \in Seq(Resend) /\ <<x>> \in Seq(Resend)
    BY <1>2, <1>3, <2>1
  <2>3. <<x>> \o Queues[v] \in Seq(Resend)
    BY <2>2, ConcatProperties, Zenon
  <2> QED BY <2>1, <2>3
<1> HIDE DEF l
<1>7. q[v] = l /\ (\A w \in Levels \ {v} : q[w] = Queues[w]) /\ q \in [Levels -> Seq(Unsent)]
  BY <1>1, <1>2, <1>4, <1>5
<1>8. IsQueues(q)
  <2>1. ASSUME NEW w \in 1..RSND_COUNT PROVE q[w] \in Seq(Resend)
    BY <1>0, <1>2, <1>6, <1>7
  <2> QED BY <1>7, <2>1 DEF IsQueues
<1>9. ASSUME NEW kinds
      PROVE  Of_all(q, kinds) = Of_all(Queues, kinds) + One(x, kinds)
  <2>1. Counted(q, kinds) /\ Counted(Queues, kinds)
    BY <1>8, OfAllNat DEF KcpTypes
  <2>2. ChangedAt(v, Queues, q, kinds)
    BY <1>1, <1>7, <2>1 DEF ChangedAt
  <2>3. /\ Of_all(q, kinds) + Of(Queues[v], kinds) = Of_all(Queues, kinds) + Of(q[v], kinds)
        /\ Of_all(q, kinds) \in Nat /\ Of_all(Queues, kinds) \in Nat
        /\ Of(Queues[v], kinds) \in Nat /\ Of(q[v], kinds) \in Nat
    BY <2>2, OfAllChange
  <2>4. Of(q[v], kinds) = Of(Queues[v], kinds) + One(x, kinds) /\ One(x, kinds) \in Nat
    BY <1>5, <1>7 DEF One
  <2> QED BY <2>3, <2>4
<1>10. ASSUME NEW kinds PROVE One(x, kinds) = One([kind |-> kind], kinds)
  BY <1>3 DEF One
<1> QED BY <1>8, <1>9, <1>10 DEF q

(* ikcp_queue leaves the new segment in the lists and all else as it was.  *)
LEMMA QueueStep ==
  ASSUME KcpTypes, NEW kind \in Payload, Ikcp_queue(kind)
  PROVE  /\ pid' \in Nat /\ n_snd' = n_snd + 1 /\ UNCHANGED snd_wak
         /\ IsQueues(Queues') /\ IsSlots(snd_cur') /\ fid' \in Nat
         /\ kpc' = "send" => DOMAIN snd_cur' # {}
         /\ \A kinds : "rec" \notin kinds =>
              In_lists(kinds)' = In_lists(kinds) + One([kind |-> kind], kinds)
<1> DEFINE q == Queued(kind)
<1>1. After_queue(q, n_snd + 1) /\ n_snd' = n_snd + 1 /\ pid' = Pid_next
  <2>1. CASE kind = "audio"
    BY <2>1 DEF Ikcp_queue, Queued, Wrn, Fresh
  <2>2. CASE kind # "audio"
    BY <2>2 DEF Ikcp_queue, Queued, Wrn, Fresh
  <2> QED BY <2>1, <2>2
<1>2. pid' \in Nat
  <2>1. PID_SPACE \in Nat /\ WINDOW \in 1 .. PID_SPACE \div 4
    BY KcpAssumption
  <2>2. PID_SPACE # 0
    BY <2>1
  <2>3. pid \in Nat
    BY DEF KcpTypes
  <2> QED BY <1>1, <2>1, <2>2, <2>3 DEF Pid_next
<1>3. IsQueues(q) /\ \A kinds : Of_all(q, kinds)
                         = Of_all(Queues, kinds) + One([kind |-> kind], kinds)
  BY QueuedOne
<1> HIDE DEF q
<1>4. Ready(q, n_snd + 1) /\ UNCHANGED snd_wak
  BY <1>1 DEF After_queue
<1>5. Readied(q)
  BY <1>3, <1>4, AfterReady, Zenon
<1>6. kpc' = "send" => DOMAIN snd_cur' # {}
  BY <1>1, <1>5, SendsOnly, Zenon DEF Readied
<1>7. ASSUME NEW kinds, "rec" \notin kinds
      PROVE  In_lists(kinds)' = In_lists(kinds) + One([kind |-> kind], kinds)
  <2>1. In_lists(kinds)' = Of_all(q, kinds) + Of(snd_cur, kinds) + Of(snd_wak, kinds)
    BY <1>5, <1>7 DEF Readied
  <2>2. Of_all(q, kinds) = Of_all(Queues, kinds) + One([kind |-> kind], kinds)
    BY <1>3
  <2>3. /\ Of_all(Queues, kinds) \in Nat /\ Of(snd_cur, kinds) \in Nat /\ Of(snd_wak, kinds) \in Nat
        /\ In_lists(kinds) = Of_all(Queues, kinds) + Of(snd_cur, kinds) + Of(snd_wak, kinds)
    BY Numbers
  <2>4. One([kind |-> kind], kinds) \in Nat
    BY DEF One
  <2> QED BY <2>1, <2>2, <2>3, <2>4
<1> QED BY <1>1, <1>2, <1>4, <1>5, <1>6, <1>7 DEF Readied

(* What a queued segment adds to each account.                             *)
LEMMA Ones ==
  ASSUME NEW kind \in Payload
  PROVE  /\ One([kind |-> kind], KN) = 1
         /\ One([kind |-> kind], KA) = (IF kind = "audio" THEN 1 ELSE 0)
         /\ kind = "audio" => /\ One([kind |-> kind], KD) = 0
                              /\ One([kind |-> kind], KP) = 0
                              /\ One([kind |-> kind], KL) = 0
BY DEF One, KN, KA, KD, KP, KL, Payload

(* An audio packet goes from its queue to the lists.                       *)
LEMMA TakeAudioStep ==
  ASSUME KcpInv, Take_audio
  PROVE  KcpInv'
<1>1. ~reset /\ audio_syn > 0 /\ audio_syn' = audio_syn - 1 /\ Ikcp_queue("audio")
      /\ UNCHANGED <<work, nwm_syn>>
  BY DEF Take_audio
<1>2. "audio" \in Payload /\ KcpTypes
  BY DEF Payload, KcpInv
<1>3. /\ pid' \in Nat /\ n_snd' = n_snd + 1 /\ UNCHANGED snd_wak
      /\ IsQueues(Queues') /\ IsSlots(snd_cur') /\ fid' \in Nat
      /\ kpc' = "send" => DOMAIN snd_cur' # {}
      /\ \A kinds : "rec" \notin kinds =>
           In_lists(kinds)' = In_lists(kinds) + One([kind |-> "audio"], kinds)
  BY <1>1, <1>2, QueueStep
<1>4. UNCHANGED <<wpc, pool, sem, term_sem, audio_free, nwm_syn, snd_wak>>
  BY <1>1, <1>3 DEF work
<1>5. KcpTypes'
  <2>1. audio_syn' \in Nat /\ n_snd' \in Nat
    BY <1>1, <1>2, <1>3 DEF KcpTypes
  <2> QED BY <1>2, <1>3, <1>4, <2>1 DEF KcpTypes
<1>6. /\ In_lists(KN)' = In_lists(KN) + 1 /\ In_lists(KA)' = In_lists(KA) + 1
      /\ In_lists(KD)' = In_lists(KD) + 0 /\ In_lists(KP)' = In_lists(KP) + 0
      /\ In_lists(KL)' = In_lists(KL) + 0
  BY <1>2, <1>3, NoRec, Ones
<1>7. Held(KD)' = Held(KD) /\ Held(KP)' = Held(KP) /\ Held(KL)' = Held(KL)
  <2>1. ASSUME NEW kinds, In_lists(kinds)' = In_lists(kinds) + 0 PROVE Held(kinds)' = Held(kinds)
    <3>1. Held(kinds)' = Of(nwm_syn', kinds) + In_lists(kinds)'
      BY DEF Held
    <3>2. In_lists(kinds) \in Nat /\ Held(kinds) = Of(nwm_syn, kinds) + In_lists(kinds)
      BY <1>2, Numbers
    <3> QED BY <1>4, <2>1, <3>1, <3>2
  <2> QED BY <1>6, <2>1
<1>8. buffer' = buffer /\ wpc' = wpc
  BY <1>4 DEF buffer
<1>9. ~reset /\ audio_syn' = audio_syn - 1 /\ n_snd' = n_snd + 1
      /\ UNCHANGED <<pool, sem, term_sem, audio_free>>
  BY <1>1, <1>3, <1>4
<1>10. After_step
  BY <1>6, <1>7, <1>8, <1>9, AccountsBefore DEF After_step
<1> QED BY <1>5, <1>10, AccountsAfter DEF KcpInv

(* A packet goes from nwm_syn to the lists.                                *)
LEMMA TakePacketStep ==
  ASSUME KcpInv, Take_nwm_syn
  PROVE  KcpInv'
<1> DEFINE kind == Head(nwm_syn).kind
<1>1. ~reset /\ nwm_syn # << >> /\ nwm_syn' = Tail(nwm_syn) /\ Ikcp_queue(kind)
      /\ UNCHANGED <<work, audio_syn>>
  BY DEF Take_nwm_syn
<1>2. KcpTypes /\ nwm_syn \in Seq(Packet)
  BY DEF KcpInv, KcpTypes
<1>2a. /\ Head(nwm_syn) \in Packet /\ Tail(nwm_syn) \in Seq(Packet)
       /\ \A kinds : Of(nwm_syn, kinds) = One(Head(nwm_syn), kinds) + Of(Tail(nwm_syn), kinds)
  BY <1>1, <1>2, OfTail
<1>2b. kind \in Payload /\ kind # "audio"
  BY <1>2a DEF Payload, Packet
<1>2c. \A kinds : One(Head(nwm_syn), kinds) = One([kind |-> kind], kinds)
  BY DEF One
<1> HIDE DEF kind
<1>3. /\ pid' \in Nat /\ n_snd' = n_snd + 1 /\ UNCHANGED snd_wak
      /\ IsQueues(Queues') /\ IsSlots(snd_cur') /\ fid' \in Nat
      /\ kpc' = "send" => DOMAIN snd_cur' # {}
      /\ \A kinds : "rec" \notin kinds =>
           In_lists(kinds)' = In_lists(kinds) + One([kind |-> kind], kinds)
  BY <1>1, <1>2, <1>2b, QueueStep
<1>4. UNCHANGED <<wpc, pool, sem, term_sem, audio_free, audio_syn, snd_wak>>
  BY <1>1, <1>3 DEF work
<1>5. KcpTypes'
  <2>1. n_snd' \in Nat /\ nwm_syn' \in Seq(Packet)
    BY <1>1, <1>2, <1>2a, <1>3 DEF KcpTypes
  <2> QED BY <1>2, <1>3, <1>4, <2>1 DEF KcpTypes
<1>6. In_lists(KN)' = In_lists(KN) + 1 /\ In_lists(KA)' = In_lists(KA) + 0
  BY <1>2b, <1>3, NoRec, Ones
<1>7. ASSUME NEW kinds, "rec" \notin kinds PROVE Held(kinds)' = Held(kinds)
  <2>1. Held(kinds)' = Of(nwm_syn', kinds) + In_lists(kinds)'
    BY DEF Held
  <2>2. In_lists(kinds) \in Nat /\ Held(kinds) = Of(nwm_syn, kinds) + In_lists(kinds)
    BY <1>2, Numbers
  <2>3. nwm_syn' = Tail(nwm_syn)
    BY <1>1
  <2>4. Of(nwm_syn, kinds) = One([kind |-> kind], kinds) + Of(nwm_syn', kinds)
    BY <1>2a, <1>2c, <2>3, Zenon
  <2>5. Of(nwm_syn', kinds) \in Nat /\ One([kind |-> kind], kinds) \in Nat
    BY <1>2a, <2>3, Within DEF One
  <2>6. In_lists(kinds)' = In_lists(kinds) + One([kind |-> kind], kinds)
    BY <1>3, <1>7, Zenon
  <2> QED BY <2>1, <2>2, <2>4, <2>5, <2>6
<1>7a. Held(KD)' = Held(KD) /\ Held(KP)' = Held(KP) /\ Held(KL)' = Held(KL)
  BY <1>7, NoRec
<1>8. buffer' = buffer /\ wpc' = wpc
  BY <1>4 DEF buffer
<1>9. ~reset /\ n_snd' = n_snd + 1
      /\ UNCHANGED <<pool, sem, term_sem, audio_free, audio_syn>>
  BY <1>1, <1>3, <1>4
<1>10. After_step
  BY <1>6, <1>7a, <1>8, <1>9, AccountsBefore DEF After_step
<1> QED BY <1>5, <1>10, AccountsAfter DEF KcpInv

(* ikcp_send_cur: the last term gives its permit back.                     *)
LEMMA SendCurStep ==
  ASSUME KcpInv, Send_cur
  PROVE  KcpInv'
<1> DEFINE i == Delay(snd_cur).slot
           seg == snd_cur[i]
           x == [seg EXCEPT !.kind = IF @ = "last" THEN "term" ELSE @]
<1>1. /\ ~reset /\ kpc = "send" /\ kpc' = "ready"
      /\ snd_cur' = Shifted(snd_cur, i) /\ snd_wak' = Append(snd_wak, x)
      /\ term_sem' = (IF seg.kind = "last" THEN term_sem + 1 ELSE term_sem)
      /\ UNCHANGED <<wpc, pool, sem, audio_free, audio_syn, nwm_syn, pid, fid, n_snd,
                     snd_lst, rsnd, reset>>
  BY DEF Send_cur, Shifted, syns, ids
<1>2. KcpTypes /\ IsSlots(snd_cur) /\ snd_wak \in Seq(Sent) /\ DOMAIN snd_cur # {}
  BY <1>1 DEF KcpInv, KcpTypes
<1>3. i \in DOMAIN snd_cur /\ \A j \in DOMAIN snd_cur : i <= j
  BY <1>2, DelaySlot
<1> HIDE DEF i
<1>4. /\ IsSlots(Shifted(snd_cur, i)) /\ seg \in Seg
      /\ \A kinds : Of(snd_cur, kinds) = Of(Shifted(snd_cur, i), kinds) + One(seg, kinds)
  BY <1>2, <1>3, OfShifted
<1> HIDE DEF seg
<1>5. x \in Sent /\ x.kind = (IF seg.kind = "last" THEN "term" ELSE seg.kind)
  BY <1>4 DEF Sent, Seg, Payload
<1> HIDE DEF x
<1>6. snd_wak' \in Seq(Sent)
      /\ \A kinds : Of(snd_wak', kinds) = Of(snd_wak, kinds) + One(x, kinds)
  <2>1. Append(snd_wak, x) \in Seq(Sent)
    BY <1>2, <1>5, AppendProperties, Zenon
  <2>2. \A kinds : Of(Append(snd_wak, x), kinds) = Of(snd_wak, kinds) + One(x, kinds)
    BY <1>2, <1>5, OfAppend
  <2> QED BY <1>1, <2>1, <2>2
<1>7. Queues' = Queues
  BY <1>1 DEF Queues, Lists
<1>8. KcpTypes'
  <2>1. term_sem' \in Nat
    BY <1>1, <1>2 DEF KcpTypes
  <2>2. IsSlots(snd_cur') /\ IsQueues(Queues')
    BY <1>1, <1>2, <1>4, <1>7 DEF KcpTypes
  <2> QED BY <1>1, <1>2, <1>6, <2>1, <2>2 DEF KcpTypes
<1>9. ASSUME NEW kinds
      PROVE  /\ In_lists(kinds)' + One(seg, kinds) = In_lists(kinds) + One(x, kinds)
             /\ Held(kinds)' + One(seg, kinds) = Held(kinds) + One(x, kinds)
             /\ In_lists(kinds)' \in Nat /\ Held(kinds)' \in Nat
  <2>1. /\ In_lists(kinds)' = Of_all(Queues', kinds) + Of(snd_cur', kinds) + Of(snd_wak', kinds)
        /\ Held(kinds)' = Of(nwm_syn', kinds) + In_lists(kinds)'
    BY DEF In_lists, Held
  <2>2. /\ Of_all(Queues, kinds) \in Nat /\ Of(snd_cur, kinds) \in Nat
         /\ Of(snd_wak, kinds) \in Nat /\ Of(nwm_syn, kinds) \in Nat
         /\ In_lists(kinds) = Of_all(Queues, kinds) + Of(snd_cur, kinds) + Of(snd_wak, kinds)
         /\ Held(kinds) = Of(nwm_syn, kinds) + In_lists(kinds)
    BY <1>2, Numbers
  <2>3. /\ Of(snd_cur, kinds) = Of(snd_cur', kinds) + One(seg, kinds)
        /\ Of(snd_cur', kinds) \in Nat
    BY <1>1, <1>4, OfSlots
  <2>4. Of(snd_wak', kinds) = Of(snd_wak, kinds) + One(x, kinds)
    BY <1>6
  <2>5. One(seg, kinds) \in Nat /\ One(x, kinds) \in Nat
    BY DEF One
  <2>6. Of_all(Queues', kinds) = Of_all(Queues, kinds) /\ Of(nwm_syn', kinds) = Of(nwm_syn, kinds)
    BY <1>1, <1>7
  <2> QED BY <2>1, <2>2, <2>3, <2>4, <2>5, <2>6
<1>10. /\ One(x, KN) = One(seg, KN) /\ One(x, KA) = One(seg, KA)
       /\ One(x, KD) = One(seg, KD) /\ One(x, KP) = One(seg, KP)
       /\ One(x, KL) = 0 /\ One(seg, KL) = (IF seg.kind = "last" THEN 1 ELSE 0)
  BY <1>5 DEF One, KN, KA, KD, KP, KL
<1>12. /\ In_lists(KN)' = In_lists(KN) /\ In_lists(KA)' = In_lists(KA)
       /\ Held(KD)' = Held(KD) /\ Held(KP)' = Held(KP)
       /\ Held(KL)' + One(seg, KL) = Held(KL) /\ Held(KL)' \in Nat
  <2>1. ASSUME NEW kinds, One(x, kinds) = One(seg, kinds)
        PROVE  In_lists(kinds)' = In_lists(kinds) /\ Held(kinds)' = Held(kinds)
    <3>1. In_lists(kinds) \in Nat /\ Held(kinds) \in Nat
      BY <1>2, Numbers
    <3>2. One(seg, kinds) \in Nat
      BY DEF One
    <3>3. /\ In_lists(kinds)' + One(seg, kinds) = In_lists(kinds) + One(seg, kinds)
          /\ Held(kinds)' + One(seg, kinds) = Held(kinds) + One(seg, kinds)
          /\ In_lists(kinds)' \in Nat /\ Held(kinds)' \in Nat
      BY <1>9, <2>1
    <3> QED BY <3>1, <3>2, <3>3
  <2>2. /\ Held(KL)' + One(seg, KL) = Held(KL) + 0 /\ Held(KL)' \in Nat /\ Held(KL) \in Nat
    <3>1. Held(KL) \in Nat
      BY <1>2, Numbers
    <3>2. Held(KL)' + One(seg, KL) = Held(KL) + One(x, KL) /\ Held(KL)' \in Nat
      BY <1>9
    <3> QED BY <1>10, <3>1, <3>2
  <2> QED BY <1>10, <2>1, <2>2
<1>13. buffer' = buffer /\ wpc' = wpc
  BY <1>1 DEF buffer
<1>14. ~reset /\ UNCHANGED <<pool, sem, n_snd, audio_free, audio_syn>>
       /\ term_sem' = term_sem + One(seg, KL) /\ One(seg, KL) \in Nat
  BY <1>1, <1>10, AccountsBefore
<1>15. After_step
  BY <1>12, <1>13, <1>14, AccountsBefore DEF After_step, One_if
<1> QED BY <1>8, <1>15, AccountsAfter DEF KcpInv

-----------------------------------------------------------------------------
(***************************************************************************)
(* The steps that come from the network.                                   *)
(***************************************************************************)

(* What is freed carries no permit of a last term: it was given back when  *)
(* the term was sent.                                                      *)
LEMMA NoneLast ==
  ASSUME NEW X, NEW s \in Seq(X), \A x \in X : x.kind # "last", NEW at
  PROVE  Of(Kept(s, at), KL) = 0
<1>1. Kept(s, at) \in Seq(X)
  BY KeptType, Zenon
<1>2. \A i \in DOMAIN Kept(s, at) : Kept(s, at)[i] \in X
  <2>1. DOMAIN Kept(s, at) = 1..Len(Kept(s, at))
    BY <1>1, LenProperties
  <2> QED BY <1>1, <2>1, ElementOfSeq
<1>3. {i \in DOMAIN Kept(s, at) : Kept(s, at)[i].kind \in KL} = {}
  BY <1>2 DEF KL
<1> QED BY <1>3, FS_EmptySet, Zenon DEF Of

(* No permit of a last term is freed with its segment.                     *)
LEMMA FreedNoLast ==
  ASSUME KcpTypes, NEW a
  PROVE  Of_all(Freed(a), KL) = 0
<1> DEFINE F == Freed(a)
           g == [j \in {} |-> 1]
<1>1. F[0] = Kept(snd_wak, Acked(snd_wak, Answered(a), a))
      /\ \A w \in 1..RSND_COUNT : F[w] = Kept(rsnd[w], Acked(rsnd[w], DOMAIN rsnd[w], a))
  BY LevelFacts DEF Freed
<1>2. Of(F[0], KL) = 0
  <2>1. snd_wak \in Seq(Sent) /\ \A x \in Sent : x.kind # "last"
    BY DEF KcpTypes, Sent
  <2> HIDE DEF F
  <2> QED BY <1>1, <2>1, NoneLast
<1>3. ASSUME NEW w \in 1..RSND_COUNT PROVE Of(F[w], KL) = 0
  <2>1. rsnd[w] \in Seq(Resend) /\ \A x \in Resend : x.kind # "last"
    BY QueuesAre DEF KcpTypes, IsQueues, Resend
  <2> HIDE DEF F
  <2> QED BY <1>1, <2>1, NoneLast
<1>4. Sorted(F, {}, g, KL)
  <2>1. IsFiniteSet({}) /\ Cardinality({}) = 0
    BY FS_EmptySet
  <2>2. g \in [{} -> 1..RSND_COUNT]
    OBVIOUS
  <2>3. \A w \in 1..RSND_COUNT : {j \in {} : g[j] = w} = {}
    OBVIOUS
  <2> HIDE DEF F, g
  <2> QED BY <1>2, <1>3, <2>1, <2>2, <2>3 DEF Sorted
<1>5. Of_all(F, KL) = Cardinality({})
  <2> HIDE DEF F, g
  <2> QED BY <1>4, OfAllSorted, Zenon
<1> QED BY <1>5, FS_EmptySet

(* ikcp_input: every buffer given back is one an acknowledged segment held.*)
LEMMA InputStep ==
  ASSUME KcpInv, NEW a, Ikcp_input(a), ~reset,
         UNCHANGED <<wpc, term_sem, syns, kpc, pid, fid, snd_lst, snd_cur, reset>>
  PROVE  KcpInv'
<1>1. /\ snd_wak' = Rest(a) /\ rsnd' = Requeued(a)
      /\ n_snd' = n_snd - Of_all(Freed(a), KN) /\ pool' = pool + Of_all(Freed(a), KP)
      /\ sem' = sem + Of_all(Freed(a), KD) /\ audio_free' = audio_free + Of_all(Freed(a), KA)
  <2>1. PICK in : in = Input(a)
    OBVIOUS
  <2>2. /\ snd_wak' = in.snd_wak /\ rsnd' = in.rsnd
        /\ n_snd' = n_snd - Of_all(in.freed, KN) /\ pool' = pool + Of_all(in.freed, KP)
        /\ sem' = sem + Of_all(in.freed, KD) /\ audio_free' = audio_free + Of_all(in.freed, KA)
    <3> HIDE DEF Input
    <3> QED BY <2>1, Zenon DEF Ikcp_input, KN, KP, KD, KA
  <2>3. in = [snd_wak |-> Rest(a), rsnd |-> Requeued(a), freed |-> Freed(a)]
    BY <2>1, InputIs, Zenon DEF Rest
  <2>4. in.snd_wak = Rest(a) /\ in.rsnd = Requeued(a) /\ in.freed = Freed(a)
    BY <2>3
  <2> QED BY <2>2, <2>4, Zenon
<1>2. UNCHANGED <<wpc, term_sem, nwm_syn, audio_syn, kpc, pid, fid, snd_lst, snd_cur, reset>>
  BY DEF syns
<1>3. KcpTypes /\ IsQueues(Queues) /\ snd_wak \in Seq(Sent)
  BY DEF KcpInv, KcpTypes
<1>4. ASSUME NEW kinds, "rec" \notin kinds PROVE NothingLost(a, kinds)
  BY <1>3, <1>4, InputLosesNothing, Zenon
<1>5. Queues' = After(a)
  BY <1>1, <1>2 DEF Queues, After, Lists
<1>6. ASSUME NEW kinds, "rec" \notin kinds
      PROVE  /\ In_lists(kinds)' + Of_all(Freed(a), kinds) = In_lists(kinds)
             /\ Held(kinds)' + Of_all(Freed(a), kinds) = Held(kinds)
             /\ In_lists(kinds)' \in Nat /\ Held(kinds)' \in Nat
             /\ Of_all(Freed(a), kinds) \in Nat
  <2>1. NothingLost(a, kinds)
    BY <1>4, <1>6, Zenon
  <2>2. /\ In_lists(kinds)' = Of_all(Queues', kinds) + Of(snd_cur', kinds) + Of(snd_wak', kinds)
        /\ Held(kinds)' = Of(nwm_syn', kinds) + In_lists(kinds)'
    BY DEF In_lists, Held
  <2>3. /\ In_lists(kinds)' = Of_all(After(a), kinds) + Of(snd_cur, kinds) + Of(Rest(a), kinds)
        /\ Held(kinds)' = Of(nwm_syn, kinds) + In_lists(kinds)'
    BY <1>1, <1>2, <1>5, <2>2
  <2>4. /\ Of(snd_cur, kinds) \in Nat /\ Of(nwm_syn, kinds) \in Nat
        /\ In_lists(kinds) = Of_all(Queues, kinds) + Of(snd_cur, kinds) + Of(snd_wak, kinds)
        /\ Held(kinds) = Of(nwm_syn, kinds) + In_lists(kinds)
    BY <1>3, Numbers
  <2>5. /\ Of_all(After(a), kinds) + Of(Rest(a), kinds) + Of_all(Freed(a), kinds)
             = Of_all(Queues, kinds) + Of(snd_wak, kinds)
        /\ Of_all(After(a), kinds) \in Nat /\ Of(Rest(a), kinds) \in Nat
        /\ Of_all(Freed(a), kinds) \in Nat /\ Of_all(Queues, kinds) \in Nat
        /\ Of(snd_wak, kinds) \in Nat
    BY <2>1 DEF NothingLost
  <2> QED BY <2>3, <2>4, <2>5
<1>7. /\ In_lists(KN)' + Of_all(Freed(a), KN) = In_lists(KN) /\ Of_all(Freed(a), KN) \in Nat
      /\ In_lists(KN)' \in Nat
      /\ In_lists(KA)' + Of_all(Freed(a), KA) = In_lists(KA) /\ Of_all(Freed(a), KA) \in Nat
      /\ In_lists(KA)' \in Nat
      /\ Held(KD)' + Of_all(Freed(a), KD) = Held(KD) /\ Of_all(Freed(a), KD) \in Nat
      /\ Held(KD)' \in Nat
      /\ Held(KP)' + Of_all(Freed(a), KP) = Held(KP) /\ Of_all(Freed(a), KP) \in Nat
      /\ Held(KP)' \in Nat
      /\ Held(KL)' + Of_all(Freed(a), KL) = Held(KL) /\ Held(KL)' \in Nat
  BY <1>6, NoRec, Zenon
<1>8. Held(KL)' = Held(KL)
  BY <1>3, <1>7, FreedNoLast
<1>9. buffer' = buffer /\ wpc' = wpc
  BY <1>2 DEF buffer
<1>10. /\ n_snd' = n_snd - Of_all(Freed(a), KN) /\ pool' = pool + Of_all(Freed(a), KP)
       /\ sem' = sem + Of_all(Freed(a), KD) /\ audio_free' = audio_free + Of_all(Freed(a), KA)
       /\ term_sem' = term_sem /\ audio_syn' = audio_syn /\ ~reset
  BY <1>1, <1>2
<1>11. After_step /\ n_snd' \in Nat /\ pool' \in Nat /\ sem' \in Nat /\ audio_free' \in Nat
  BY <1>7, <1>8, <1>9, <1>10, AccountsBefore DEF After_step
<1>12. KcpTypes'
  <2>1. IsQueues(Queues') /\ snd_wak' \in Seq(Sent)
    BY <1>1, <1>4, <1>5, NoRec, Zenon DEF NothingLost
  <2> QED BY <1>2, <1>3, <1>11, <2>1 DEF KcpTypes
<1> QED BY <1>11, <1>12, AccountsAfter DEF KcpInv

(* Any acknowledgement, new or repeated.                                   *)
LEMMA RecvStep ==
  ASSUME KcpInv, NEW left, Recv(left)
  PROVE  KcpInv'
<1>1. /\ ~reset
      /\ UNCHANGED <<wpc, term_sem, syns, kpc, pid, fid, snd_lst, snd_cur, reset>>
      /\ \E a : Ikcp_input(a) \/ Ikcp_input_init(a)
  BY DEF Recv
<1>2. PICK a : Ikcp_input(a) \/ Ikcp_input_init(a)
  BY <1>1
<1>3. CASE Ikcp_input(a)
  BY <1>1, <1>3, InputStep
<1>4. CASE Ikcp_input_init(a)
  <2>1. UNCHANGED <<work, nwm_syn, audio_syn, ids, lists, kpc, reset>>
    BY <1>1, <1>4 DEF Ikcp_input_init, work, syns, ids, lists
  <2> QED BY <2>1, StillStep
<1> QED BY <1>2, <1>3, <1>4

-----------------------------------------------------------------------------
(***************************************************************************)
(* The start, and the theorem.                                             *)
(***************************************************************************)

(* The empty lists.                                                        *)
LEMMA StartFacts ==
  ASSUME NEW l, NEW r, NEW w, l = << >>, r = [i \in 1..RSND_COUNT |-> << >>], w = << >>
  PROVE  /\ IsQueues(Lists(r, l)) /\ IsSlots(<< >>) /\ w \in Seq(Sent)
         /\ \A kinds : Of_all(Lists(r, l), kinds) = 0 /\ Of(<< >>, kinds) = 0
<1> DEFINE q == Lists(r, l)
<1>0. RSND_COUNT \in Nat \ {0} /\ 0 \in Levels
      /\ \A v \in 1..RSND_COUNT : v \in Levels /\ v # 0
  BY LevelFacts
<1>1. q = [v \in Levels |-> << >>]
  <2>1. \A v \in Levels : (IF v = 0 THEN l ELSE r[v]) = << >>
    BY LevelFacts
  <2> QED BY <2>1 DEF Lists
<1>2. << >> \in Seq(Unsent) /\ << >> \in Seq(Resend) /\ << >> \in Seq(Sent)
  OBVIOUS
<1> HIDE DEF q
<1>3. IsQueues(q)
  BY <1>0, <1>1, <1>2 DEF IsQueues
<1>4. IsSlots(<< >>)
  <2>1. DOMAIN << >> = {} /\ << >> = [j \in {} |-> 0]
    OBVIOUS
  <2>2. << >> \in [{} -> Seg]
    BY <2>1
  <2>3. IsFiniteSet({})
    BY FS_EmptySet
  <2> QED BY <2>1, <2>2, <2>3 DEF IsSlots
<1>5. ASSUME NEW kinds PROVE Of_all(q, kinds) = 0
  <2> DEFINE g == [j \in {} |-> 1]
  <2>1. Of(<< >>, kinds) = 0 /\ IsFiniteSet({}) /\ Cardinality({}) = 0
    BY OfEmpty, FS_EmptySet, Zenon
  <2>2. g \in [{} -> 1..RSND_COUNT] /\ \A v \in 1..RSND_COUNT : {j \in {} : g[j] = v} = {}
    OBVIOUS
  <2> HIDE DEF g
  <2>3. \A v \in Levels : q[v] = << >>
    BY <1>1
  <2>4. Sorted(q, {}, g, kinds)
    BY <1>0, <2>1, <2>2, <2>3 DEF Sorted
  <2>5. Of_all(q, kinds) = Cardinality({})
    BY <2>4, OfAllSorted, Zenon
  <2> QED BY <2>1, <2>5
<1> QED BY <1>2, <1>3, <1>4, <1>5, OfEmpty DEF q

(* The invariant holds at the start.                                       *)
LEMMA Starting ==
  ASSUME Init
  PROVE  KcpInv
<1>1. /\ wpc = "sem" /\ pool = WINDOW + EXTRA /\ sem = WINDOW /\ term_sem = TERM_PERMITS
      /\ audio_free = AUDIO_BUFS /\ nwm_syn = << >> /\ audio_syn = 0 /\ kpc = "ready"
      /\ pid = 0 /\ fid = 0 /\ n_snd = 0
      /\ snd_lst = << >> /\ rsnd = [i \in 1 .. RSND_COUNT |-> << >>]
      /\ snd_cur = << >> /\ snd_wak = << >>
  BY DEF Init
<1>2. /\ IsQueues(Queues) /\ IsSlots(<< >>) /\ snd_wak \in Seq(Sent)
      /\ \A kinds : Of_all(Queues, kinds) = 0 /\ Of(<< >>, kinds) = 0
  BY <1>1, StartFacts DEF Queues
<1>3. WINDOW \in Nat /\ EXTRA \in Nat /\ TERM_PERMITS \in Nat /\ AUDIO_BUFS \in Nat
  BY KcpAssumption
<1>4. KcpTypes
  <2>1. nwm_syn \in Seq(Packet)
    BY <1>1
  <2> QED BY <1>1, <1>2, <1>3, <2>1 DEF KcpTypes
<1>5. ASSUME NEW kinds PROVE In_lists(kinds) = 0 /\ Held(kinds) = 0
  <2>1. Of(snd_cur, kinds) = 0 /\ Of(snd_wak, kinds) = 0 /\ Of(nwm_syn, kinds) = 0
        /\ Of_all(Queues, kinds) = 0
    BY <1>1, <1>2
  <2> QED BY <2>1 DEF In_lists, Held
<1>6. buffer = 0 /\ One_if(wpc = "term") = 0
  BY <1>1 DEF buffer, One_if
<1>7. /\ n_snd = In_lists(KN) /\ sem + Held(KD) + buffer = WINDOW
      /\ pool + Held(KP) + buffer = WINDOW + EXTRA
      /\ audio_free + audio_syn + In_lists(KA) = AUDIO_BUFS
      /\ term_sem + One_if(wpc = "term") + Held(KL) = TERM_PERMITS
  BY <1>1, <1>3, <1>5, <1>6
<1> QED BY <1>4, <1>7, AccountsAre DEF KcpInv

(* It holds after a reset, whatever was held before.                       *)
LEMMA RestartStep ==
  ASSUME Restart
  PROVE  KcpInv'
<1>1. /\ wpc' = "sem" /\ pool' = WINDOW + EXTRA /\ sem' = WINDOW /\ term_sem' = TERM_PERMITS
      /\ audio_free' = AUDIO_BUFS /\ nwm_syn' = << >> /\ audio_syn' = 0 /\ kpc' = "ready"
      /\ pid' = 0 /\ fid' = 0 /\ n_snd' = 0
      /\ snd_lst' = << >> /\ rsnd' = [i \in 1 .. RSND_COUNT |-> << >>]
      /\ snd_cur' = << >> /\ snd_wak' = << >>
  BY DEF Restart
<1>2. /\ IsQueues(Queues') /\ IsSlots(<< >>) /\ snd_wak' \in Seq(Sent)
      /\ \A kinds : Of_all(Queues', kinds) = 0 /\ Of(<< >>, kinds) = 0
  <2>1. Queues' = Lists(rsnd', snd_lst')
    BY DEF Queues
  <2> QED BY <1>1, <2>1, StartFacts
<1>3. WINDOW \in Nat /\ EXTRA \in Nat /\ TERM_PERMITS \in Nat /\ AUDIO_BUFS \in Nat
  BY KcpAssumption
<1>4. KcpTypes'
  <2>1. nwm_syn' \in Seq(Packet)
    BY <1>1
  <2> QED BY <1>1, <1>2, <1>3, <2>1 DEF KcpTypes
<1>5. ASSUME NEW kinds PROVE In_lists(kinds)' = 0 /\ Held(kinds)' = 0
  <2>1. Of(snd_cur', kinds) = 0 /\ Of(snd_wak', kinds) = 0 /\ Of(nwm_syn', kinds) = 0
        /\ Of_all(Queues', kinds) = 0
    BY <1>1, <1>2
  <2>2. /\ In_lists(kinds)' = Of_all(Queues', kinds) + Of(snd_cur', kinds) + Of(snd_wak', kinds)
        /\ Held(kinds)' = Of(nwm_syn', kinds) + In_lists(kinds)'
    BY DEF In_lists, Held
  <2> QED BY <2>1, <2>2
<1>6. buffer' = 0 /\ One_if(wpc' = "term") = 0
  BY <1>1 DEF buffer, One_if
<1>7. After_step
  BY <1>1, <1>3, <1>5, <1>6 DEF After_step
<1> QED BY <1>4, <1>7, AccountsAfter DEF KcpInv

(* At every state of every execution the control values, the counters, the *)
(* lists and the send slots have their types (a recovery packet is only in *)
(* the slots and in snd_wak, the kcp thread sends only with a slot filled) *)
(* and the accounts below balance.                                         *)
THEOREM KcpInvariant == Spec => []KcpInv
<1>1. Init => KcpInv
  BY Starting
<1>2. KcpInv /\ [Next]_vars => KcpInv'
  <2> SUFFICES ASSUME KcpInv, [Next]_vars PROVE KcpInv'
    OBVIOUS
  <2>1. CASE WorkThread
    BY <2>1, MallocStep, SendBufferStep, SetTermStep, SendTermsStep DEF WorkThread
  <2>2. CASE Put_audio
    BY <2>2, PutAudioStep
  <2>3. CASE KcpThread
    <3>1. ASSUME Wait_evt PROVE KcpInv'
      <4>1. kpc' # "send" /\ UNCHANGED <<work, nwm_syn, audio_syn, ids, lists, reset>>
        BY <3>1 DEF Wait_evt, syns
      <4> QED BY <4>1, StillStep
    <3>2. ASSUME Send_init PROVE KcpInv'
      <4>1. kpc' # "send" /\ UNCHANGED <<work, nwm_syn, audio_syn, ids, lists, reset>>
        BY <3>2 DEF Send_init, syns
      <4> QED BY <4>1, StillStep
    <3> QED BY <2>3, <3>1, <3>2, LookStep, TakeAudioStep, TakePacketStep, ProceedStep,
               SendCurStep DEF KcpThread
  <2>4. CASE Timeout
    <3>1. ~reset /\ UNCHANGED <<work, nwm_syn, audio_syn, kpc, ids, lists>>
      BY <2>4 DEF Timeout, syns
    <3> QED BY <3>1, StillStep
  <2>5. CASE NsControlRecv
    BY <2>5, RecvStep DEF NsControlRecv
  <2>6. CASE Repeated_packet
    BY <2>6, RecvStep DEF Repeated_packet
  <2>7. CASE Restart
    BY <2>7, RestartStep
  <2>8. CASE UNCHANGED vars
    <3>1. UNCHANGED <<work, nwm_syn, audio_syn, kpc, ids, lists, reset>>
      BY <2>8 DEF vars, syns
    <3> QED BY <3>1, StillStep
  <2> QED BY <2>1, <2>2, <2>3, <2>4, <2>5, <2>6, <2>7, <2>8 DEF Next
<1> QED BY <1>1, <1>2, PTL DEF Spec

(* rp_data_buf_malloc, send_term_dsts, audio_enqueue_kcp, ikcp_queue,      *)
(* ikcp_send_cur, ikcp_input: no buffer and no permit is lost or given     *)
(* back twice, and n_snd is the number of segments not yet acknowledged.   *)
(* Only the permit an allocation took before it failed is missing, until   *)
(* the reset the failure asks for sets the semaphores up anew.             *)
THEOREM KcpBuffers == Spec => []BuffersAccounted
<1>1. KcpInv => BuffersAccounted
  BY DEF KcpInv
<1> QED BY <1>1, KcpInvariant, PTL
=============================================================================
