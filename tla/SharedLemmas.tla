---------------------------- MODULE SharedLemmas ----------------------------
(***************************************************************************)
(* What the proofs of several components rest on: integer division,        *)
(* induction over the natural numbers, with a set for the property and     *)
(* functions for the steps, the least and the greatest of a set, recursive *)
(* functions, folds, flattened lists.                                      *)
(***************************************************************************)
EXTENDS Integers, Levels, SequencesExt, WellFoundedInduction, NaturalsInduction, SequenceTheorems, TLAPS

(* Integer division as the shifts and masks of the code use it. *)
LEMMA DivMod ==
  ASSUME NEW a \in Int, NEW d \in Nat \ {0}
  PROVE  /\ a \div d \in Int
         /\ a % d \in 0 .. d - 1
         /\ a = d * (a \div d) + (a % d)
  OBVIOUS

(* A quotient below the number of blocks. *)
LEMMA DivBelow ==
  ASSUME NEW d \in Nat \ {0}, NEW n \in Nat \ {0}, NEW a \in 0 .. d * n - 1
  PROVE  a \div d \in 0 .. n - 1
<1>1. a \in Int /\ a >= 0 /\ a < d * n
  OBVIOUS
<1>2. a = d * (a \div d) + (a % d) /\ a % d \in 0 .. d - 1 /\ a \div d \in Int
  BY DivMod, <1>1
<1>3. a \div d >= 0
  BY <1>1, <1>2
<1>4. a \div d < n
  BY <1>1, <1>2
<1> QED
  BY <1>2, <1>3, <1>4

(* Quotient and remainder are the only ones.                               *)
LEMMA DivUnique ==
  ASSUME NEW d \in Nat \ {0}, NEW q \in Int, NEW r \in 0 .. d - 1
  PROVE  (d * q + r) \div d = q /\ (d * q + r) % d = r
<1> DEFINE a == d * q + r
<1>1. a \in Int
  OBVIOUS
<1>2. a = d * (a \div d) + (a % d) /\ a % d \in 0 .. d - 1 /\ a \div d \in Int
  BY <1>1, DivMod
<1>3. \A u, v \in Int : \A s, t \in 0 .. d - 1 : d * u + s = d * v + t => u = v /\ s = t
  <2> SUFFICES ASSUME NEW u \in Int, NEW v \in Int, NEW s \in 0 .. d - 1, NEW t \in 0 .. d - 1,
                      d * u + s = d * v + t
               PROVE  u = v /\ s = t
    OBVIOUS
  <2>1. d * (u - v) = t - s /\ t - s > - d /\ t - s < d
    OBVIOUS
  <2>2. u - v < 1 /\ u - v > -1
    BY <2>1
  <2>3. u = v
    BY <2>2
  <2> QED
    BY <2>3
<1>4. a = d * q + r
  OBVIOUS
<1> HIDE DEF a
<1> QED
  BY <1>2, <1>3, <1>4

(* A floor quotient is at least, or at most, a number.                     *)
LEMMA DivBounds ==
  ASSUME NEW a \in Int, NEW d \in Nat \ {0}, NEW r \in Int
  PROVE  /\ a \div d >= r <=> a >= r * d
         /\ a \div d <= r <=> a < (r + 1) * d
<1>1. PICK q \in Int, s \in 0 .. d - 1 : q = a \div d /\ a = d * q + s
  BY DivMod
<1>2. q >= r => a >= r * d
  <2>1. q - r >= 0 => (q - r) * d >= 0
    BY <1>1
  <2> QED
    BY <1>1, <2>1
<1>3. q < r => a < r * d
  <2>1. r - q - 1 >= 0 => (r - q - 1) * d >= 0
    BY <1>1
  <2> QED
    BY <1>1, <2>1
<1>4. q <= r => a < (r + 1) * d
  <2>1. r - q >= 0 => (r - q) * d >= 0
    BY <1>1
  <2> QED
    BY <1>1, <2>1
<1>5. q > r => a >= (r + 1) * d
  <2>1. q - r - 1 >= 0 => (q - r - 1) * d >= 0
    BY <1>1
  <2> QED
    BY <1>1, <2>1
<1> QED
  <2>1. r * d \in Int /\ (r + 1) * d \in Int
    OBVIOUS
  <2> QED
    BY <1>1, <1>2, <1>3, <1>4, <1>5, <2>1

(* Two floor divisions are one, in either order.                           *)
LEMMA DivDiv ==
  ASSUME NEW x \in Int, NEW a \in Nat \ {0}, NEW b \in Nat \ {0}
  PROVE  (x \div a) \div b = x \div (a * b) /\ (x \div b) \div a = x \div (a * b)
<1>1. \A c, e \in Nat \ {0} : (x \div c) \div e = x \div (c * e)
  <2> SUFFICES ASSUME NEW c \in Nat \ {0}, NEW e \in Nat \ {0}
               PROVE  (x \div c) \div e = x \div (c * e)
    OBVIOUS
  <2>1. PICK y \in Int, r \in 0 .. c - 1 : y = x \div c /\ x = c * y + r
    BY DivMod
  <2>2. PICK z \in Int, s \in 0 .. e - 1 : z = y \div e /\ y = e * z + s
    BY DivMod
  <2>3. x = (c * e) * z + (c * s + r)
    <3>1. c * (e * z + s) + r = (c * e) * z + (c * s + r)
      OBVIOUS
    <3> QED
      BY <2>1, <2>2, <3>1
  <2>4. c * s + r \in 0 .. c * e - 1
    <3>1. c * s >= 0 /\ c * s <= c * (e - 1)
      OBVIOUS
    <3> QED
      BY <3>1
  <2>5. c * e \in Nat \ {0}
    OBVIOUS
  <2>6. x \div (c * e) = z
    BY <2>3, <2>4, <2>5, DivUnique
  <2> QED
    BY <2>1, <2>2, <2>6
<1>2. b * a = a * b
  OBVIOUS
<1> QED
  BY <1>1, <1>2
-----------------------------------------------------------------------------
(* The order induction descends along.                                     *)
NatLess == {p \in Nat \X Nat : p[1] < p[2]}

LEMMA NatLessWellFounded == IsWellFoundedOn(NatLess, Nat)
<1>1. NatLess = OpToRel(<, Nat)
  BY DEF NatLess, OpToRel
<1> QED
  BY <1>1, NatLessThanWellFounded

(* What holds at 0 and passes from n to n + 1 holds at every number.       *)
LEMMA SetInduction ==
  ASSUME NEW S, 0 \in S, \A n \in Nat : n \in S => n + 1 \in S
  PROVE  Nat \subseteq S
<1> DEFINE T == Nat \ S
<1> SUFFICES ASSUME T # {} PROVE FALSE
  OBVIOUS
<1>1. PICK x \in T : \A y \in T : ~(<<y, x>> \in NatLess)
  <2>1. T \subseteq Nat
    OBVIOUS
  <2> HIDE DEF T
  <2> QED
    BY <2>1, NatLessWellFounded, WFMin
<1>2. x \in Nat /\ x # 0 /\ x - 1 \in Nat /\ x - 1 < x /\ (x - 1) + 1 = x
  BY <1>1
<1>3. x - 1 \notin T
  BY <1>1, <1>2 DEF NatLess
<1>4. (x - 1) + 1 \in S
  BY <1>2, <1>3
<1> QED
  BY <1>1, <1>2, <1>4

(* What holds at a number when it holds at all below it holds everywhere.  *)
LEMMA StrongInduction ==
  ASSUME NEW S, \A n \in Nat : (\A m \in Nat : m < n => m \in S) => n \in S
  PROVE  Nat \subseteq S
<1> DEFINE T == {n \in Nat : \A m \in Nat : m < n => m \in S}
<1>1. 0 \in T
  OBVIOUS
<1>2. ASSUME NEW n \in Nat, n \in T PROVE n + 1 \in T
  <2>1. n \in S
    BY <1>2
  <2>2. \A m \in Nat : m < n + 1 => m < n \/ m = n
    OBVIOUS
  <2> QED
    BY <1>2, <2>1, <2>2
<1> HIDE DEF T
<1>3. Nat \subseteq T
  BY <1>1, <1>2, SetInduction
<1>4. \A n \in Nat : n + 1 \in T /\ n < n + 1
  BY <1>3
<1> QED
  BY <1>4 DEF T

(* The function that starts at b and takes step F[value, n] to n.          *)
Recursive(V, b, F, f, N) ==
  /\ f \in [0 .. N -> V]
  /\ f[0] = b
  /\ \A n \in 1 .. N : f[n] = F[<<f[n - 1], n>>]

LEMMA RecursionExists ==
  ASSUME NEW V, NEW b \in V, NEW F \in [V \X Nat -> V], NEW N \in Nat
  PROVE  \E f : Recursive(V, b, F, f, N)
<1> DEFINE S == {n \in Nat : \E f : Recursive(V, b, F, f, n)}
<1>1. 0 \in S
  <2>1. Recursive(V, b, F, [n \in 0 .. 0 |-> b], 0)
    BY DEF Recursive
  <2> QED
    BY <2>1
<1>2. ASSUME NEW n \in Nat, n \in S PROVE n + 1 \in S
  <2>1. PICK f : Recursive(V, b, F, f, n)
    BY <1>2
  <2> DEFINE g == [k \in 0 .. n + 1 |-> IF k = n + 1 THEN F[<<f[n], n + 1>>] ELSE f[k]]
  <2>2. f[n] \in V /\ F[<<f[n], n + 1>>] \in V
    BY <2>1 DEF Recursive
  <2>3. g \in [0 .. n + 1 -> V]
    BY <2>1, <2>2 DEF Recursive
  <2>4. ASSUME NEW k \in 1 .. n + 1 PROVE g[k] = F[<<g[k - 1], k>>]
    <3>1. k \in 0 .. n + 1 /\ k - 1 \in 0 .. n + 1 /\ k - 1 # n + 1 /\ (k # n + 1 => k \in 1 .. n)
      OBVIOUS
    <3>2. g[k - 1] = f[k - 1] /\ g[k] = IF k = n + 1 THEN F[<<f[n], n + 1>>] ELSE f[k]
      BY <3>1
    <3> HIDE DEF g
    <3>3. CASE k = n + 1
      <4>1. k - 1 = n
        BY <3>3
      <4> QED
        BY <3>2, <3>3, <4>1
    <3>4. CASE k # n + 1
      BY <2>1, <3>1, <3>2, <3>4 DEF Recursive
    <3> QED
      BY <3>3, <3>4
  <2>5. g[0] = b
    BY <2>1 DEF Recursive
  <2> HIDE DEF g
  <2>6. Recursive(V, b, F, g, n + 1)
    BY <2>3, <2>4, <2>5 DEF Recursive
  <2> QED
    BY <2>6
<1> HIDE DEF S
<1>3. Nat \subseteq S
  BY <1>1, <1>2, SetInduction
<1> QED
  BY <1>3 DEF S

LEMMA RecursionUnique ==
  ASSUME NEW V, NEW b \in V, NEW F \in [V \X Nat -> V], NEW N \in Nat, NEW M \in Nat,
         NEW f, NEW g, Recursive(V, b, F, f, N), Recursive(V, b, F, g, M)
  PROVE  \A n \in Nat : n <= N /\ n <= M => f[n] = g[n]
<1> DEFINE S == {n \in Nat : n <= N /\ n <= M => f[n] = g[n]}
<1>1. 0 \in S
  BY DEF Recursive
<1>2. ASSUME NEW n \in Nat, n \in S PROVE n + 1 \in S
  <2>1. ASSUME n + 1 <= N, n + 1 <= M PROVE f[n + 1] = g[n + 1]
    <3>1. n + 1 \in 1 .. N /\ n + 1 \in 1 .. M /\ (n + 1) - 1 = n /\ n <= N /\ n <= M
      BY <2>1
    <3>2. f[n] = g[n]
      BY <1>2, <3>1
    <3>3. f[n + 1] = F[<<f[n], n + 1>>] /\ g[n + 1] = F[<<g[n], n + 1>>]
      BY <3>1 DEF Recursive
    <3> QED
      BY <3>2, <3>3
  <2> QED
    BY <2>1
<1> HIDE DEF S
<1>3. Nat \subseteq S
  BY <1>1, <1>2, SetInduction
<1> QED
  BY <1>3 DEF S

(* The same over all numbers.                                              *)
RecursiveOnNat(V, b, F, f) ==
  /\ f \in [Nat -> V]
  /\ f[0] = b
  /\ \A n \in Nat \ {0} : f[n] = F[<<f[n - 1], n>>]

LEMMA RecursionOnNat ==
  ASSUME NEW V, NEW b \in V, NEW F \in [V \X Nat -> V]
  PROVE  \E f : RecursiveOnNat(V, b, F, f)
<1> DEFINE Upto(N) == CHOOSE f : Recursive(V, b, F, f, N)
           f == [n \in Nat |-> Upto(n)[n]]
<1>1. \A N \in Nat : Recursive(V, b, F, Upto(N), N)
  BY RecursionExists
<1> HIDE DEF Upto
<1>2. \A n \in Nat : f[n] \in V
  BY <1>1 DEF Recursive
<1>3. f[0] = b
  BY <1>1 DEF Recursive
<1>4. ASSUME NEW n \in Nat \ {0} PROVE f[n] = F[<<f[n - 1], n>>]
  <2>1. n \in Nat /\ n - 1 \in Nat /\ n - 1 <= n /\ n \in 1 .. n
    OBVIOUS
  <2>2. Recursive(V, b, F, Upto(n), n) /\ Recursive(V, b, F, Upto(n - 1), n - 1)
    BY <1>1, <2>1
  <2>3. Upto(n)[n - 1] = Upto(n - 1)[n - 1]
    <3> DEFINE x == Upto(n)
               y == Upto(n - 1)
    <3> HIDE DEF x, y
    <3>1. \A k \in Nat : k <= n /\ k <= n - 1 => x[k] = y[k]
      BY <2>1, <2>2, RecursionUnique DEF x, y
    <3>2. x[n - 1] = y[n - 1]
      BY <2>1, <3>1
    <3> QED
      BY <3>2 DEF x, y
  <2>4. Upto(n)[n] = F[<<Upto(n)[n - 1], n>>]
    BY <2>1, <2>2 DEF Recursive
  <2> QED
    BY <2>1, <2>3, <2>4
<1>5. RecursiveOnNat(V, b, F, f)
  BY <1>2, <1>3, <1>4 DEF RecursiveOnNat
<1> QED
  BY <1>5
-----------------------------------------------------------------------------
(* The scales of the levels. *)
LEMMA Powers ==
  /\ Pow2[0] = 1
  /\ \A n \in Nat : Pow2[n] \in Nat \ {0} /\ Pow2[n + 1] = 2 * Pow2[n]
<1> DEFINE V == Nat \ {0}
           F == [p \in V \X Nat |-> 2 * p[1]]
           Is(h) == h = [n \in Nat |-> IF n = 0 THEN 1 ELSE 2 * h[n - 1]]
<1>1. F \in [V \X Nat -> V]
  OBVIOUS
<1> HIDE DEF F
<1>a. 1 \in V
  OBVIOUS
<1>b. PICK f : RecursiveOnNat(V, 1, F, f)
  BY <1>1, <1>a, RecursionOnNat
<1>2. f \in [Nat -> V] /\ f[0] = 1 /\ \A n \in Nat \ {0} : f[n] = F[<<f[n - 1], n>>]
  BY <1>b DEF RecursiveOnNat
<1>3. ASSUME NEW n \in Nat \ {0} PROVE f[n] = 2 * f[n - 1]
  <2>1. <<f[n - 1], n>> \in V \X Nat
    BY <1>2
  <2> QED
    BY <1>2, <2>1 DEF F
<1>4. Is(f)
  <2>1. \A n \in Nat : f[n] = IF n = 0 THEN 1 ELSE 2 * f[n - 1]
    BY <1>2, <1>3
  <2>2. f = [n \in Nat |-> f[n]]
    BY <1>2
  <2> QED
    BY <2>1, <2>2
<1>5. Is(Pow2)
  <2>1. Pow2 = CHOOSE h : Is(h)
    BY DEF Pow2
  <2> HIDE DEF Is
  <2> QED
    BY <1>4, <2>1
<1>6. /\ Pow2[0] = 1
      /\ \A n \in Nat : Pow2[n + 1] = 2 * Pow2[n]
  <2>1. \A n \in Nat : Pow2[n] = IF n = 0 THEN 1 ELSE 2 * Pow2[n - 1]
    BY <1>5
  <2> HIDE DEF Is
  <2>2. ASSUME NEW n \in Nat PROVE Pow2[n + 1] = 2 * Pow2[n]
    <3>1. n + 1 \in Nat /\ n + 1 # 0 /\ (n + 1) - 1 = n
      OBVIOUS
    <3> QED
      BY <2>1, <3>1
  <2>3. 0 \in Nat
    OBVIOUS
  <2> QED
    BY <2>1, <2>2, <2>3
<1> HIDE DEF Is
<1> DEFINE T == {n \in Nat : Pow2[n] \in V}
<1>7. 0 \in T
  BY <1>6
<1>8. ASSUME NEW n \in Nat, n \in T PROVE n + 1 \in T
  BY <1>6, <1>8
<1> HIDE DEF T
<1>9. Nat \subseteq T
  BY <1>7, <1>8, SetInduction
<1> QED
  BY <1>6, <1>9 DEF T

(* One level up: a coordinate of the level is half of that of the level    *)
(* below.                                                                  *)
LEMMA ShrinkTwice ==
  ASSUME NEW x \in Int, NEW n \in Nat
  PROVE  (x \div Pow2[n]) \div 2 = x \div Pow2[n + 1]
<1>1. PICK s \in Nat \ {0} : s = Pow2[n] /\ Pow2[n + 1] = 2 * s
  BY Powers
<1>2. 2 * s = s * 2 /\ 2 \in Nat \ {0}
  OBVIOUS
<1>3. (x \div s) \div 2 = x \div (s * 2)
  BY <1>2, DivDiv
<1> QED
  BY <1>1, <1>2, <1>3
-----------------------------------------------------------------------------
(* FlattenSeq appends its sequences one by one.                            *)
Flattening(S, ss, f) ==
  /\ f \in [0 .. Len(ss) -> Seq(S)]
  /\ f[0] = <<>>
  /\ \A n \in 1 .. Len(ss) : f[n] = f[n - 1] \o ss[n]

LEMMA FlattenIsRecursive ==
  ASSUME NEW S, NEW ss \in Seq(Seq(S))
  PROVE  \E f : Flattening(S, ss, f) /\ FlattenSeq(ss) = f[Len(ss)]
<1> DEFINE N == Len(ss)
           F == [p \in Seq(S) \X Nat |-> IF p[2] \in 1 .. N THEN p[1] \o ss[p[2]] ELSE p[1]]
<1>1. N \in Nat /\ \A n \in 1 .. N : ss[n] \in Seq(S)
  BY ElementOfSeq
<1>2. F \in [Seq(S) \X Nat -> Seq(S)]
  <2> SUFFICES ASSUME NEW p \in Seq(S) \X Nat PROVE (IF p[2] \in 1 .. N THEN p[1] \o ss[p[2]] ELSE p[1]) \in Seq(S)
    OBVIOUS
  <2> HIDE DEF N
  <2>1. p[1] \in Seq(S)
    OBVIOUS
  <2> QED
    BY <1>1, <2>1, ConcatProperties
<1>3. <<>> \in Seq(S)
  OBVIOUS
<1> HIDE DEF F
<1>4. PICK f : Recursive(Seq(S), <<>>, F, f, N)
  BY <1>1, <1>2, <1>3, RecursionExists
<1>5. f \in [0 .. N -> Seq(S)] /\ f[0] = <<>>
  BY <1>4 DEF Recursive
<1>6. ASSUME NEW n \in 1 .. N PROVE f[n] = f[n - 1] \o ss[n]
  <2>1. n \in Nat /\ n - 1 \in 0 .. N
    BY <1>1
  <2>2. <<f[n - 1], n>> \in Seq(S) \X Nat
    BY <1>5, <2>1
  <2>3. f[n] = F[<<f[n - 1], n>>]
    BY <1>4 DEF Recursive
  <2> HIDE DEF N
  <2> QED
    BY <2>2, <2>3 DEF F
<1>7. Flattening(S, ss, f)
  BY <1>5, <1>6 DEF Flattening
<1>10. ASSUME N # 0 PROVE f[1] = ss[1] /\ 1 \in 1 .. N
  <2>1. 1 \in 1 .. N /\ 1 - 1 = 0
    BY <1>1, <1>10
  <2>2. f[1] = <<>> \o ss[1] /\ ss[1] \in Seq(S)
    BY <1>1, <1>5, <1>6, <2>1
  <2>3. <<>> \o ss[1] = ss[1]
    BY <2>2
  <2> QED
    BY <2>1, <2>2, <2>3
<1>8. CASE N = 0
  BY <1>5, <1>7, <1>8 DEF FlattenSeq
<1>9. CASE N # 0
  <2> DEFINE Is(h) == h = [i \in 1 .. N |-> IF i = 1 THEN ss[i] ELSE h[i - 1] \o ss[i]]
             c == CHOOSE h : Is(h)
             h0 == [i \in 1 .. N |-> f[i]]
  <2>1. Is(h0)
    <3>1. ASSUME NEW i \in 1 .. N PROVE f[i] = IF i = 1 THEN ss[i] ELSE h0[i - 1] \o ss[i]
      <4>1. CASE i = 1
        BY <1>9, <1>10, <4>1
      <4>2. CASE i # 1
        <5>1. i - 1 \in 1 .. N
          BY <1>1, <4>2
        <5>2. h0[i - 1] = f[i - 1]
          BY <5>1
        <5> QED
          BY <1>6, <4>2, <5>2
      <4> QED
        BY <4>1, <4>2
    <3> QED
      BY <3>1
  <2>2. Is(c)
    <3> HIDE DEF Is, h0
    <3> QED
      BY <2>1
  <2>3. FlattenSeq(ss) = c[N]
    BY <1>9 DEF FlattenSeq
  <2> HIDE DEF c
  <2> DEFINE T == {n \in Nat : n \in 1 .. N => c[n] = f[n]}
  <2>4. 0 \in T
    OBVIOUS
  <2>5. ASSUME NEW n \in Nat, n \in T PROVE n + 1 \in T
    <3>1. ASSUME n + 1 \in 1 .. N PROVE c[n + 1] = f[n + 1]
      <4>1. c[n + 1] = IF n + 1 = 1 THEN ss[n + 1] ELSE c[n] \o ss[n + 1]
        <5>1. (n + 1) - 1 = n
          OBVIOUS
        <5> QED
          BY <2>2, <3>1, <5>1
      <4>2. f[n + 1] = f[n] \o ss[n + 1]
        <5>1. (n + 1) - 1 = n
          OBVIOUS
        <5> QED
          BY <1>6, <3>1, <5>1
      <4>3. CASE n = 0
        BY <1>9, <1>10, <4>1, <4>3
      <4>4. CASE n # 0
        <5>1. n \in 1 .. N /\ n + 1 # 1
          BY <3>1, <4>4
        <5>2. c[n] = f[n]
          BY <2>5, <5>1
        <5> QED
          BY <4>1, <4>2, <5>1, <5>2
      <4> QED
        BY <4>3, <4>4
    <3> QED
      BY <3>1
  <2> HIDE DEF T
  <2>6. Nat \subseteq T
    BY <2>4, <2>5, SetInduction
  <2>7. c[N] = f[N]
    BY <1>1, <1>9, <2>6 DEF T
  <2> QED
    BY <1>7, <2>3, <2>7
<1> QED
  BY <1>8, <1>9

(* Empty sequences add nothing, and a sequence put in the place of an      *)
(* empty one adds its own length, wherever it stands.                      *)
LEMMA FlattenEmpty ==
  ASSUME NEW S, NEW ss \in Seq(Seq(S)), \A n \in 1 .. Len(ss) : ss[n] = <<>>
  PROVE  Len(FlattenSeq(ss)) = 0
<1> DEFINE N == Len(ss)
<1>1. PICK f : Flattening(S, ss, f) /\ FlattenSeq(ss) = f[N]
  BY FlattenIsRecursive
<1> DEFINE T == {n \in Nat : n \in 0 .. N => f[n] = <<>>}
<1>2. 0 \in T
  BY <1>1 DEF Flattening
<1>3. ASSUME NEW n \in Nat, n \in T PROVE n + 1 \in T
  <2>1. ASSUME n + 1 \in 0 .. N PROVE f[n + 1] = <<>>
    <3>1. n + 1 \in 1 .. N /\ (n + 1) - 1 = n /\ n \in 0 .. N
      BY <2>1
    <3>2. f[n + 1] = f[n] \o ss[n + 1] /\ f[n] = <<>> /\ ss[n + 1] = <<>>
      BY <1>1, <1>3, <3>1 DEF Flattening
    <3>3. <<>> \o <<>> = <<>>
      OBVIOUS
    <3> QED
      BY <3>2, <3>3
  <2> QED
    BY <2>1
<1> HIDE DEF T
<1>4. Nat \subseteq T
  BY <1>2, <1>3, SetInduction
<1>5. N \in Nat /\ N \in 0 .. N
  OBVIOUS
<1>6. FlattenSeq(ss) = <<>>
  BY <1>1, <1>4, <1>5 DEF T
<1> QED
  BY <1>6

LEMMA FlattenReplace ==
  ASSUME NEW S, NEW ss \in Seq(Seq(S)), NEW k \in 1 .. Len(ss), ss[k] = <<>>, NEW x \in Seq(S)
  PROVE  Len(FlattenSeq([ss EXCEPT ![k] = x])) = Len(FlattenSeq(ss)) + Len(x)
<1> DEFINE N == Len(ss)
           tt == [ss EXCEPT ![k] = x]
<1>1. tt \in Seq(Seq(S)) /\ Len(tt) = N /\ N \in Nat /\ \A n \in 1 .. N : tt[n] = IF n = k THEN x ELSE ss[n]
  BY ExceptSeq
<1> HIDE DEF tt
<1>2. PICK f : Flattening(S, ss, f) /\ FlattenSeq(ss) = f[N]
  BY FlattenIsRecursive
<1>3. PICK g : Flattening(S, tt, g) /\ FlattenSeq(tt) = g[N]
  BY <1>1, FlattenIsRecursive
<1> DEFINE Added(n) == IF n >= k THEN Len(x) ELSE 0
           T == {n \in Nat : n \in 0 .. N => Len(g[n]) = Len(f[n]) + Added(n)}
<1>4. 0 \in T
  <2>1. f[0] = <<>> /\ g[0] = <<>> /\ Added(0) = 0
    BY <1>1, <1>2, <1>3 DEF Flattening
  <2> HIDE DEF Added
  <2> QED
    BY <2>1
<1>5. ASSUME NEW n \in Nat, n \in T PROVE n + 1 \in T
  <2> HIDE DEF Added
  <2>1. ASSUME n + 1 \in 0 .. N PROVE Len(g[n + 1]) = Len(f[n + 1]) + Added(n + 1)
    <3>1. n + 1 \in 1 .. N /\ (n + 1) - 1 = n /\ n \in 0 .. N
      BY <1>1, <2>1
    <3>2. f[n + 1] = f[n] \o ss[n + 1] /\ g[n + 1] = g[n] \o tt[n + 1] /\ f[n] \in Seq(S) /\ g[n] \in Seq(S)
      BY <1>1, <1>2, <1>3, <3>1 DEF Flattening
    <3>3. ss[n + 1] \in Seq(S) /\ tt[n + 1] \in Seq(S)
      BY <1>1, <3>1, ElementOfSeq
    <3>4. Len(f[n + 1]) = Len(f[n]) + Len(ss[n + 1]) /\ Len(g[n + 1]) = Len(g[n]) + Len(tt[n + 1])
      BY <3>2, <3>3, ConcatProperties
    <3>5. Len(g[n]) = Len(f[n]) + Added(n)
      BY <1>5, <3>1
    <3>6. Len(f[n]) \in Nat /\ Len(ss[n + 1]) \in Nat /\ Len(x) \in Nat /\ k \in Nat
      <4>1. \A s \in Seq(S) : Len(s) \in Nat
        OBVIOUS
      <4>2. Len(f[n]) \in Nat
        BY <3>2, <4>1
      <4>3. Len(ss[n + 1]) \in Nat
        BY <3>3, <4>1
      <4>4. Len(x) \in Nat
        BY <4>1
      <4>5. k \in Nat
        BY <1>1
      <4> QED
        BY <4>2, <4>3, <4>4, <4>5
    <3>7. CASE n + 1 = k
      <4>1. tt[n + 1] = x /\ ss[n + 1] = <<>>
        BY <1>1, <3>1, <3>7
      <4>2. Added(n) = 0 /\ Added(n + 1) = Len(x)
        BY <3>6, <3>7 DEF Added
      <4>3. Len(ss[n + 1]) = 0
        BY <4>1
      <4> QED
        BY <3>4, <3>5, <3>6, <4>1, <4>2, <4>3
    <3>8. CASE n + 1 # k
      <4>1. tt[n + 1] = ss[n + 1]
        BY <1>1, <3>1, <3>8
      <4>2. Added(n) = Added(n + 1) /\ Added(n) \in Nat
        BY <3>6, <3>8 DEF Added
      <4>4. Len(g[n]) \in Nat
        BY <3>5, <3>6, <4>2
      <4>5. Len(g[n + 1]) = Len(g[n]) + Len(ss[n + 1])
        BY <3>4, <4>1
      <4>6. Len(g[n + 1]) = Len(f[n + 1]) + Added(n)
        <5>1. PICK a \in Nat, b \in Nat, d \in Nat :
                a = Len(f[n]) /\ b = Len(ss[n + 1]) /\ d = Added(n)
          BY <3>6, <4>2, Zenon
        <5>2. Len(f[n + 1]) = a + b
          BY <3>4, <5>1, Zenon
        <5>3. Len(g[n]) = a + d
          BY <3>5, <5>1, Zenon
        <5>4. Len(g[n + 1]) = (a + d) + b
          BY <4>5, <5>1, <5>3, Zenon
        <5>5. (a + d) + b = (a + b) + d
          OBVIOUS
        <5> QED
          BY <5>1, <5>2, <5>4, <5>5, Zenon
      <4> QED
        BY <4>2, <4>6
    <3> QED
      BY <3>7, <3>8
  <2> QED
    BY <2>1
<1> HIDE DEF T
<1>6. Nat \subseteq T
  BY <1>4, <1>5, SetInduction
<1>7. N \in 0 .. N /\ N >= k
  BY <1>1
<1>8. Len(g[N]) = Len(f[N]) + Len(x)
  <2>1. Added(N) = Len(x)
    BY <1>7
  <2> QED
    BY <1>1, <1>6, <1>7, <2>1 DEF T
<1> QED
  BY <1>2, <1>3, <1>8 DEF tt
-----------------------------------------------------------------------------
(***************************************************************************)
(* The folds of the community modules run over the subsets of the domain   *)
(* of a sequence, taking out its greatest element first.                   *)
(***************************************************************************)
LEMMA MaxOfInterval ==
  ASSUME NEW n \in Nat
  PROVE  Max(1 .. n + 1) = n + 1 /\ (1 .. n + 1) \ {Max(1 .. n + 1)} = 1 .. n /\ 1 .. n + 1 # {}
<1>1. n + 1 \in 1 .. n + 1 /\ \A y \in 1 .. n + 1 : n + 1 >= y
  OBVIOUS
<1>2. \A x \in 1 .. n + 1 : (\A y \in 1 .. n + 1 : x >= y) => x = n + 1
  OBVIOUS
<1>3. Max(1 .. n + 1) = n + 1
  BY <1>1, <1>2 DEF Max
<1>4. (1 .. n + 1) \ {n + 1} = 1 .. n
  OBVIOUS
<1> QED
  BY <1>1, <1>3, <1>4

(* A subset that holds the greatest number of an interval. *)
LEMMA MaxOfSubset ==
  ASSUME NEW n \in Nat, NEW s \in SUBSET (1 .. n + 1), n + 1 \in s
  PROVE  Max(s) = n + 1 /\ s \ {Max(s)} \in SUBSET (1 .. n)
<1>1. \A y \in s : n + 1 >= y
  OBVIOUS
<1>2. \A x \in s : (\A y \in s : x >= y) => x = n + 1
  <2>1. \A x \in s : x >= n + 1 /\ x <= n + 1 /\ x \in Nat => x = n + 1
    OBVIOUS
  <2> QED
    BY <1>1, <2>1
<1>3. Max(s) = n + 1
  BY <1>1, <1>2 DEF Max
<1> QED
  BY <1>3

(* The function such a fold is made of, with the step F[value, index]. *)
Folding(b, F, N, h) ==
  h = [s \in SUBSET (1 .. N) |-> IF s = {} THEN b ELSE F[<<h[s \ {Max(s)}], Max(s)>>]]

LEMMA FoldingExists ==
  ASSUME NEW V, NEW b \in V, NEW F \in [V \X Nat -> V], NEW N \in Nat
  PROVE  \E h \in [SUBSET (1 .. N) -> V] : Folding(b, F, N, h)
<1> DEFINE T == {n \in Nat : \E h \in [SUBSET (1 .. n) -> V] : Folding(b, F, n, h)}
<1>1. 0 \in T
  <2> DEFINE h0 == [s \in SUBSET (1 .. 0) |-> b]
  <2>1. \A s \in SUBSET (1 .. 0) : s = {}
    OBVIOUS
  <2>2. h0 = [s \in SUBSET (1 .. 0) |-> IF s = {} THEN b ELSE F[<<h0[s \ {Max(s)}], Max(s)>>]]
    BY <2>1
  <2>3. h0 \in [SUBSET (1 .. 0) -> V]
    OBVIOUS
  <2> HIDE DEF h0
  <2>4. Folding(b, F, 0, h0)
    BY <2>2 DEF Folding
  <2> QED
    BY <2>3, <2>4
<1>2. ASSUME NEW n \in Nat, n \in T PROVE n + 1 \in T
  <2>1. PICK h \in [SUBSET (1 .. n) -> V] : Folding(b, F, n, h)
    BY <1>2
  <2> DEFINE D == SUBSET (1 .. n + 1)
             g == [s \in D |-> IF n + 1 \in s THEN F[<<h[s \ {n + 1}], n + 1>>] ELSE h[s]]
  <2>2. \A s \in D : n + 1 \notin s => s \in SUBSET (1 .. n)
    OBVIOUS
  <2>3. \A s \in D : s \ {n + 1} \in SUBSET (1 .. n) /\ SUBSET (1 .. n) \subseteq D
    OBVIOUS
  <2>4. g \in [D -> V]
    <3>1. ASSUME NEW s \in D PROVE (IF n + 1 \in s THEN F[<<h[s \ {n + 1}], n + 1>>] ELSE h[s]) \in V
      <4>1. <<h[s \ {n + 1}], n + 1>> \in V \X Nat
        BY <2>1, <2>3
      <4> QED
        BY <2>1, <2>2, <4>1
    <3> HIDE DEF D
    <3> QED
      BY <3>1
  <2>5. ASSUME NEW s \in D
        PROVE  g[s] = IF s = {} THEN b ELSE F[<<g[s \ {Max(s)}], Max(s)>>]
    <3>1. CASE n + 1 \in s
      <4>1. Max(s) = n + 1 /\ s \ {Max(s)} \in SUBSET (1 .. n)
        BY <3>1, MaxOfSubset
      <4>2. g[s \ {n + 1}] = h[s \ {n + 1}]
        BY <2>3, <4>1
      <4> HIDE DEF D
      <4> QED
        BY <3>1, <4>1, <4>2
    <3>2. CASE n + 1 \notin s
      <4>1. s \in SUBSET (1 .. n) /\ g[s] = h[s]
        BY <2>2, <3>2
      <4>2. h[s] = IF s = {} THEN b ELSE F[<<h[s \ {Max(s)}], Max(s)>>]
        BY <2>1, <4>1 DEF Folding
      <4>3. s \ {Max(s)} \in SUBSET (1 .. n) /\ g[s \ {Max(s)}] = h[s \ {Max(s)}]
        <5>1. s \ {Max(s)} \in SUBSET (1 .. n)
          BY <4>1
        <5>2. n + 1 \notin s \ {Max(s)} /\ s \ {Max(s)} \in D
          BY <3>2
        <5> HIDE DEF D
        <5> QED
          BY <5>1, <5>2
      <4> HIDE DEF g, D
      <4> QED
        BY <4>1, <4>2, <4>3
    <3> QED
      BY <3>1, <3>2
  <2>6. Folding(b, F, n + 1, g)
    <3>1. g = [s \in D |-> g[s]]
      BY <2>4
    <3> HIDE DEF g
    <3> QED
      BY <2>5, <3>1 DEF Folding
  <2> HIDE DEF g
  <2> QED
    BY <2>4, <2>6
<1> HIDE DEF T
<1>3. Nat \subseteq T
  BY <1>1, <1>2, SetInduction
<1> QED
  BY <1>3 DEF T

(* What such a function makes of the first n elements. *)
LEMMA FoldingPrefix ==
  ASSUME NEW b, NEW F, NEW N \in Nat, NEW h, Folding(b, F, N, h), NEW n \in 0 .. N
  PROVE  h[1 .. n] = IF n = 0 THEN b ELSE F[<<h[1 .. n - 1], n>>]
<1>1. 1 .. n \in SUBSET (1 .. N) /\ (n = 0 <=> 1 .. n = {})
  OBVIOUS
<1>2. h[1 .. n] = IF 1 .. n = {} THEN b ELSE F[<<h[(1 .. n) \ {Max(1 .. n)}], Max(1 .. n)>>]
  BY <1>1 DEF Folding
<1>3. CASE n = 0
  BY <1>1, <1>2, <1>3
<1>4. CASE n # 0
  <2>1. n - 1 \in Nat /\ (n - 1) + 1 = n
    BY <1>4
  <2>2. Max(1 .. n) = n /\ (1 .. n) \ {Max(1 .. n)} = 1 .. n - 1
    BY <2>1, MaxOfInterval
  <2> QED
    BY <1>1, <1>2, <1>4, <2>2
<1> QED
  BY <1>3, <1>4

(* A set of integers with a bound has an end on that side.                 *)
LEMMA LeastOf ==
  ASSUME NEW S \in SUBSET Int, S # {}, NEW low \in Int, \A x \in S : low <= x
  PROVE  Min(S) \in S /\ \A y \in S : Min(S) <= y
<1> DEFINE T == {n \in Nat : low + n \in S}
<1>1. T # {}
  <2>1. PICK x \in S : TRUE
    OBVIOUS
  <2>2. x \in Int /\ low <= x
    OBVIOUS
  <2>3. x - low \in Nat /\ low + (x - low) = x
    BY <2>2
  <2> QED
    BY <2>1, <2>3
<1>2. PICK n \in T : \A m \in T : ~(<<m, n>> \in NatLess)
  <2>1. T \subseteq Nat
    OBVIOUS
  <2> HIDE DEF T
  <2> QED
    BY <1>1, <2>1, NatLessWellFounded, WFMin
<1>3. ASSUME NEW y \in S PROVE low + n <= y
  <2>1. y \in Int /\ low <= y
    OBVIOUS
  <2>2. y - low \in Nat /\ low + (y - low) = y
    BY <2>1
  <2>3. y - low \in T
    BY <2>2
  <2>4. ~(y - low < n)
    BY <1>2, <2>2, <2>3 DEF NatLess
  <2>5. n \in Int
    BY <1>2
  <2> QED
    BY <2>1, <2>4, <2>5
<1>4. \E x \in S : \A y \in S : x <= y
  BY <1>2, <1>3
<1> QED
  BY <1>4 DEF Min

(* The smaller of two numbers.                                             *)
LEMMA SmallerOf ==
  ASSUME NEW a \in Nat, NEW b \in Nat
  PROVE  /\ Min({a, b}) \in Nat /\ Min({a, b}) <= a /\ Min({a, b}) <= b
         /\ Min({a, b}) = a \/ Min({a, b}) = b
<1> DEFINE S == {a, b}
<1>1. S \in SUBSET Int /\ S # {} /\ 0 \in Int /\ \A x \in S : 0 <= x
  OBVIOUS
<1>2. Min(S) \in S /\ \A y \in S : Min(S) <= y
  <2> HIDE DEF S
  <2> QED
    BY <1>1, LeastOf
<1> QED
  BY <1>2

LEMMA GreatestOf ==
  ASSUME NEW S \in SUBSET Int, S # {}, NEW high \in Int, \A x \in S : x <= high
  PROVE  Max(S) \in S /\ \A y \in S : y <= Max(S)
<1> DEFINE R == {-x : x \in S}
<1>1. R \in SUBSET Int /\ R # {} /\ -high \in Int
  <2>1. \A x \in S : x \in Int
    OBVIOUS
  <2>2. \A x \in Int : -x \in Int
    OBVIOUS
  <2>3. \A x \in S : -x \in Int /\ -x \in R
    BY <2>1, <2>2
  <2> QED
    BY <2>2, <2>3
<1>2. ASSUME NEW r \in R PROVE -high <= r
  <2>1. PICK x \in S : r = -x
    OBVIOUS
  <2>2. x \in Int /\ x <= high
    OBVIOUS
  <2> QED
    BY <2>1, <2>2
<1>3. Min(R) \in R /\ \A y \in R : Min(R) <= y
  <2> DEFINE low == -high
  <2>1. low \in Int /\ \A r \in R : low <= r
    BY <1>1, <1>2
  <2> HIDE DEF R, low
  <2> QED
    BY <1>1, <2>1, LeastOf
<1>4. PICK x \in S : Min(R) = -x
  BY <1>3
<1>5. ASSUME NEW y \in S PROVE x >= y
  <2>1. x \in Int /\ y \in Int /\ -x <= -y
    BY <1>3, <1>4
  <2> QED
    BY <2>1
<1>6. \E z \in S : \A y \in S : z >= y
  BY <1>5
<1>7. Max(S) \in S /\ \A y \in S : Max(S) >= y
  BY <1>6 DEF Max
<1>8. ASSUME NEW y \in S PROVE y <= Max(S)
  <2>1. y \in Int /\ Max(S) \in Int /\ Max(S) >= y
    BY <1>7
  <2> QED
    BY <2>1
<1> QED
  BY <1>7, <1>8

LEMMA MaxIsIn ==
  ASSUME NEW N \in Nat, NEW s \in SUBSET (1 .. N), s # {}
  PROVE  Max(s) \in s /\ \A y \in s : y <= Max(s)
<1>1. s \in SUBSET Int /\ N \in Int /\ \A y \in s : y <= N
  OBVIOUS
<1> QED
  BY <1>1, GreatestOf
==============================================================================
