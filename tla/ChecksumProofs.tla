--------------------------- MODULE ChecksumProofs ---------------------------
(***************************************************************************)
(* Four parts: sums, by induction over the places of a sequence; what      *)
(* folding and complementing does to every sum; the two for a buffer of    *)
(* any content and length; and the life of a message. Bounds are written   *)
(* with <=: the provers do not read intervals as large as these.           *)
(***************************************************************************)
EXTENDS Checksum, FiniteSetTheorems, WellFoundedInduction, TLAPS

-----------------------------------------------------------------------------
(***************************************************************************)
(* Sums. The library's induction theorems take a predicate, which these    *)
(* provers cannot instantiate; a set of numbers takes its place.           *)
(***************************************************************************)
\* A set of numbers that is not empty has a least one.
LEMMA LeastOne ==
  ASSUME NEW T, T \subseteq Nat, T # {}
  PROVE  \E x \in T : \A y \in T : x <= y
<1> DEFINE R == OpToRel(<, Nat)
<1>1. IsWellFoundedOn(R, Nat)
  BY NatLessThanWellFounded
<1>2. \A x, y \in Nat : <<x, y>> \in R <=> x < y
  BY DEF OpToRel
<1> HIDE DEF R
<1>3. PICK x \in T : \A y \in T : ~(<<y, x>> \in R)
  BY <1>1, WFMin
<1>4. \A y \in T : ~(y < x)
  BY <1>2, <1>3
<1>5. x \in Nat /\ \A y \in T : y \in Nat
  OBVIOUS
<1>6. \A y \in T : x <= y
  BY <1>4, <1>5
<1>7. QED
  BY <1>6

\* Induction, over a set in place of a predicate.
LEMMA Induction ==
  ASSUME NEW T, 0 \in T, \A n \in Nat : n \in T => n + 1 \in T
  PROVE  Nat \subseteq T
<1>1. SUFFICES ASSUME Nat \ T # {}
               PROVE  FALSE
  OBVIOUS
<1>2. PICK x \in Nat \ T : \A y \in Nat \ T : x <= y
  BY <1>1, LeastOne
<1>3. x # 0 /\ x - 1 \in Nat /\ (x - 1) + 1 = x
  BY <1>2
<1>4. x - 1 \notin T
  BY <1>2, <1>3
<1>5. QED
  BY <1>2, <1>3, <1>4

\* r holds the sums of the first 0, 1, ... n terms of s.
Running(s, n, r) ==
  /\ r \in [0..n -> Nat] /\ r[0] = 0
  /\ \A k \in 1..n : r[k] = r[k - 1] + s[k]

\* Every sequence has its running sums, and Sum is the last.
LEMMA SumRuns ==
  ASSUME NEW s \in Seq(Nat)
  PROVE  \E r : Running(s, Len(s), r) /\ Sum(s) = r[Len(s)]
<1> DEFINE N == Len(s)
           Step(g) == [n \in 0..N |-> IF n = 0 THEN 0 ELSE g[n - 1] + s[n]]
<1>1. N \in Nat /\ \A n \in 1..N : s[n] \in Nat
  OBVIOUS
<1>2. \E r : Running(s, N, r)
  <2> DEFINE T == {n \in Nat : n <= N => \E r : Running(s, n, r)}
  <2>1. 0 \in T
    <3>1. Running(s, 0, [k \in 0..0 |-> 0])
      BY DEF Running
    <3>2. QED
      BY <3>1
  <2>2. ASSUME NEW n \in Nat, n \in T
        PROVE  n + 1 \in T
    <3> SUFFICES ASSUME n + 1 <= N
                 PROVE  \E r : Running(s, n + 1, r)
      BY <2>2
    <3>1. PICK r : Running(s, n, r)
      BY <1>1, <2>2
    <3> DEFINE q == [k \in 0..(n + 1) |->
                       IF k = n + 1 THEN r[n] + s[n + 1] ELSE r[k]]
    <3>2. n + 1 \in 1..N /\ s[n + 1] \in Nat /\ r[n] \in Nat
      BY <1>1, <3>1 DEF Running
    <3>3. q \in [0..(n + 1) -> Nat] /\ q[0] = 0
      BY <3>1, <3>2 DEF Running
    <3>4. \A k \in 1..(n + 1) : q[k] = q[k - 1] + s[k]
      <4>1. TAKE k \in 1..(n + 1)
      <4>2. CASE k = n + 1
        BY <3>2, <4>2
      <4>3. CASE k # n + 1
        <5>1. k \in 1..n /\ q[k] = r[k] /\ q[k - 1] = r[k - 1]
          BY <4>3
        <5>2. QED
          BY <3>1, <5>1 DEF Running
      <4>4. QED
        BY <4>2, <4>3
    <3>5. QED
      BY <3>3, <3>4 DEF Running
  <2> HIDE DEF T
  <2>3. Nat \subseteq T
    BY <2>1, <2>2, Induction
  <2>4. QED
    BY <1>1, <2>3 DEF T
<1>3. PICK r : Running(s, N, r)
  BY <1>2
<1>4. r = Step(r)
  BY <1>1, <1>3 DEF Running
<1> DEFINE f == CHOOSE g : g = Step(g)
<1>5. f = Step(f)
  BY <1>4
<1>6. Sum(s) = f[N]
  BY DEF Sum
<1> HIDE DEF f, N
<1>7. \A n \in 0..N : f[n] \in Nat
  <2> DEFINE T == {n \in Nat : n <= N => f[n] \in Nat}
  <2>1. 0 \in T
    BY <1>1, <1>5
  <2>2. ASSUME NEW n \in Nat, n \in T
        PROVE  n + 1 \in T
    <3>1. ASSUME n + 1 <= N
          PROVE  f[n + 1] \in Nat
      <4>1. /\ n + 1 \in 0..N /\ n + 1 # 0 /\ (n + 1) - 1 = n
            /\ n <= N /\ s[n + 1] \in Nat
        BY <1>1, <3>1
      <4>2. f[n + 1] = f[n] + s[n + 1]
        BY <1>5, <4>1
      <4>3. QED
        BY <2>2, <4>1, <4>2
    <3>2. QED
      BY <3>1
  <2> HIDE DEF T
  <2>3. Nat \subseteq T
    BY <2>1, <2>2, Induction
  <2>4. QED
    BY <1>1, <2>3 DEF T
<1>8. Running(s, N, f)
  BY <1>1, <1>5, <1>7 DEF Running
<1>9. QED
  BY <1>6, <1>8 DEF N

\* One more term.
LEMMA RunningStep ==
  ASSUME NEW s, NEW N \in Nat, NEW r, Running(s, N, r),
         NEW n \in Nat, n + 1 <= N
  PROVE  r[n + 1] = r[n] + s[n + 1] /\ r[n] \in Nat
<1>1. n + 1 \in 1..N /\ n \in 0..N /\ (n + 1) - 1 = n
  OBVIOUS
<1>2. QED
  BY <1>1 DEF Running

\* A sum of bounded terms is bounded.
LEMMA SumBounded ==
  ASSUME NEW s \in Seq(Nat), NEW c \in Nat,
         \A k \in 1..Len(s) : s[k] <= c
  PROVE  Sum(s) \in Nat /\ Sum(s) <= c * Len(s)
<1> DEFINE N == Len(s)
<1>1. N \in Nat /\ \A n \in 1..N : s[n] \in Nat /\ s[n] <= c
  OBVIOUS
<1>2. PICK r : Running(s, N, r) /\ Sum(s) = r[N]
  BY SumRuns
<1> HIDE DEF N
<1> DEFINE T == {n \in Nat : n <= N => r[n] <= c * n}
<1>3. 0 \in T
  BY <1>2 DEF Running
<1>4. ASSUME NEW n \in Nat, n \in T
      PROVE  n + 1 \in T
  <2> SUFFICES ASSUME n + 1 <= N
               PROVE  r[n + 1] <= c * (n + 1)
    OBVIOUS
  <2>1. /\ r[n + 1] = r[n] + s[n + 1] /\ r[n] \in Nat
        /\ s[n + 1] \in Nat /\ s[n + 1] <= c
    BY <1>1, <1>2, RunningStep
  <2>2. r[n] <= c * n
    BY <1>1, <1>4
  <2>3. c * (n + 1) = (c * n) + c
    BY SMT
  <2>4. c * n \in Nat
    BY SMT
  <2>5. QED
    BY <2>1, <2>2, <2>3, <2>4
<1> HIDE DEF T
<1>5. Nat \subseteq T
  BY <1>3, <1>4, Induction
<1>6. r[N] <= c * N
  BY <1>1, <1>5 DEF T
<1>7. r[N] \in Nat
  BY <1>1, <1>2 DEF Running
<1>8. QED
  BY <1>2, <1>6, <1>7 DEF N

\* Another term in one place changes the sum by the difference.
LEMMA SumExcept ==
  ASSUME NEW s \in Seq(Nat), NEW i \in 1..Len(s), NEW v \in Nat
  PROVE  /\ [s EXCEPT ![i] = v] \in Seq(Nat)
         /\ Len([s EXCEPT ![i] = v]) = Len(s)
         /\ Sum([s EXCEPT ![i] = v]) + s[i] = Sum(s) + v
<1> DEFINE N == Len(s)
           t == [s EXCEPT ![i] = v]
<1>1. N \in Nat /\ i \in 1..N /\ \A n \in 1..N : s[n] \in Nat
  OBVIOUS
<1>2. /\ t \in Seq(Nat) /\ Len(t) = N
      /\ t[i] = v /\ \A n \in 1..N : n # i => t[n] = s[n]
  OBVIOUS
<1>3. PICK r : Running(s, N, r) /\ Sum(s) = r[N]
  BY SumRuns
<1> HIDE DEF t
<1>4. PICK q : Running(t, N, q) /\ Sum(t) = q[N]
  BY <1>2, SumRuns
<1> HIDE DEF N
<1> DEFINE T == {n \in Nat : n <= N => IF n < i THEN q[n] = r[n]
                                       ELSE q[n] + s[i] = r[n] + v}
<1>5. 0 \in T
  BY <1>1, <1>3, <1>4 DEF Running
<1>6. ASSUME NEW n \in Nat, n \in T
      PROVE  n + 1 \in T
  <2> SUFFICES ASSUME n + 1 <= N
               PROVE  IF n + 1 < i THEN q[n + 1] = r[n + 1]
                      ELSE q[n + 1] + s[i] = r[n + 1] + v
    OBVIOUS
  <2>1. r[n + 1] = r[n] + s[n + 1] /\ r[n] \in Nat
    BY <1>1, <1>3, RunningStep
  <2>2. q[n + 1] = q[n] + t[n + 1] /\ q[n] \in Nat
    BY <1>1, <1>4, RunningStep
  <2>3. s[n + 1] \in Nat /\ s[i] \in Nat
    BY <1>1
  <2>4. IF n < i THEN q[n] = r[n] ELSE q[n] + s[i] = r[n] + v
    BY <1>1, <1>6
  <2>5. CASE n + 1 < i
    <3>1. n < i /\ t[n + 1] = s[n + 1]
      BY <1>1, <1>2, <2>5
    <3>2. QED
      BY <2>1, <2>2, <2>4, <2>5, <3>1
  <2>6. CASE n + 1 = i
    <3>1. n < i /\ ~(n + 1 < i) /\ t[n + 1] = v /\ s[n + 1] = s[i]
      BY <1>1, <1>2, <2>6
    <3>2. q[n + 1] = r[n] + v /\ r[n + 1] = r[n] + s[i]
      BY <2>1, <2>2, <2>4, <3>1
    <3>3. PICK x \in Nat, u \in Nat : x = r[n] /\ u = s[i]
      BY <2>1, <2>3
    <3>4. (x + v) + u = (x + u) + v
      OBVIOUS
    <3>5. QED
      BY <3>1, <3>2, <3>3, <3>4, Zenon
  <2>7. CASE n + 1 > i
    <3>1. t[n + 1] = s[n + 1] /\ ~(n < i) /\ ~(n + 1 < i)
      BY <1>1, <1>2, <2>7
    <3>2. q[n] + s[i] = r[n] + v
      BY <2>4, <3>1
    <3>3. (q[n] + s[n + 1]) + s[i] = (r[n] + s[n + 1]) + v
      <4>1. PICK x \in Nat, y \in Nat, z \in Nat, u \in Nat :
              x = q[n] /\ y = r[n] /\ z = s[n + 1] /\ u = s[i]
        BY <2>1, <2>2, <2>3
      <4>2. x + u = y + v
        BY <3>2, <4>1
      <4>3. (x + z) + u = (y + z) + v
        BY <4>2
      <4>4. QED
        BY <4>1, <4>3
    <3>4. /\ q[n + 1] = q[n] + s[n + 1] /\ r[n + 1] = r[n] + s[n + 1]
          /\ ~(n + 1 < i)
      BY <2>1, <2>2, <3>1
    <3>5. QED
      BY <3>3, <3>4, Zenon
  <2>8. QED
    BY <1>1, <2>5, <2>6, <2>7
<1> HIDE DEF T
<1>7. Nat \subseteq T
  BY <1>5, <1>6, Induction
<1>8. q[N] + s[i] = r[N] + v
  BY <1>1, <1>7 DEF T
<1>9. QED
  BY <1>2, <1>3, <1>4, <1>8 DEF t, N

\* b with every byte weighted as in a word.
Weighted(b) == [i \in 1..Len(b) |-> IF i % 2 = 1 THEN b[i] ELSE 256 * b[i]]

\* Adding words is adding weighted bytes, and every word has 16 bits.
LEMMA WordsAreWeighted ==
  ASSUME NEW b \in Seq(Byte)
  PROVE  /\ Words(b) \in Seq(Nat) /\ Weighted(b) \in Seq(Nat)
         /\ \A k \in 1..Len(Words(b)) : Words(b)[k] <= 65535
         /\ Sum(Words(b)) = Sum(Weighted(b))
<1> DEFINE L == Len(b)
           N == (L + 1) \div 2
           w == Words(b)
           v == Weighted(b)
<1>1. L \in Nat /\ \A i \in 1..L : b[i] \in Nat /\ b[i] <= 255
  <2>1. \A i \in 1..Len(b) : b[i] \in Byte
    OBVIOUS
  <2>2. Len(b) \in Nat
    OBVIOUS
  <2>3. \A x \in Byte : x \in Nat /\ x <= 255
    BY SMT DEF Byte
  <2>4. QED
    BY <2>1, <2>2, <2>3, Zenon
<1>2. N \in Nat /\ (L = 2 * N \/ L + 1 = 2 * N)
  <2>1. ASSUME NEW x \in Nat
        PROVE  /\ (x + 1) \div 2 \in Nat
               /\ x = 2 * ((x + 1) \div 2) \/ x + 1 = 2 * ((x + 1) \div 2)
    BY SMT
  <2>2. QED
    BY <1>1, <2>1
<1>3. /\ v = [i \in 1..L |-> IF i % 2 = 1 THEN b[i] ELSE 256 * b[i]]
      /\ w = [n \in 1..N |-> IF 2 * n <= L THEN b[2 * n - 1] + 256 * b[2 * n]
                             ELSE b[2 * n - 1]]
  BY DEF Weighted, Words
<1> HIDE DEF w, v, N, L
<1>4. v \in Seq(Nat) /\ Len(v) = L
  BY <1>1, <1>3
<1>5. ASSUME NEW n \in 1..N
      PROVE  w[n] \in Nat /\ w[n] <= 65535
  <2>1. 2 * n - 1 \in 1..L /\ (2 * n <= L => 2 * n \in 1..L)
    BY SMT, <1>1, <1>2
  <2>2. /\ b[2 * n - 1] \in Nat /\ b[2 * n - 1] <= 255
        /\ 2 * n <= L => b[2 * n] \in Nat /\ b[2 * n] <= 255
    BY <1>1, <2>1
  <2>3. w[n] = IF 2 * n <= L THEN b[2 * n - 1] + 256 * b[2 * n]
               ELSE b[2 * n - 1]
    BY <1>3
  <2>4. \A x \in Nat : x <= 255 => x <= 65535
    BY SMT
  <2>5. CASE 2 * n <= L
    <3>1. PICK x \in Nat, y \in Nat :
            /\ x = b[2 * n - 1] /\ y = b[2 * n] /\ x <= 255 /\ y <= 255
      BY <2>2, <2>5
    <3>2. w[n] = x + 256 * y
      BY <2>3, <2>5, <3>1
    <3>3. PICK k \in Nat : k = x + 256 * y /\ k <= 65535
      BY SMT, <3>1
    <3>4. w[n] = k
      BY SMT, <3>2, <3>3
    <3>5. QED
      BY SMT, <3>3, <3>4
  <2>6. CASE ~(2 * n <= L)
    BY <2>2, <2>3, <2>4, <2>6
  <2>7. QED
    BY <2>5, <2>6
<1>6. w \in Seq(Nat) /\ Len(w) = N
  BY <1>2, <1>3, <1>5
<1>7. PICK r : Running(w, N, r) /\ Sum(w) = r[N]
  BY <1>6, SumRuns
<1>8. PICK q : Running(v, L, q) /\ Sum(v) = q[L]
  BY <1>4, SumRuns
<1> DEFINE T == {n \in Nat : 2 * n <= L => q[2 * n] = r[n]}
<1>9. 0 \in T
  BY <1>7, <1>8 DEF Running
<1>10. ASSUME NEW n \in Nat, n \in T
       PROVE  n + 1 \in T
  <2> SUFFICES ASSUME 2 * (n + 1) <= L
               PROVE  q[2 * (n + 1)] = r[n + 1]
    OBVIOUS
  <2> DEFINE m == 2 * n
  <2>1. /\ m \in Nat /\ 2 * (n + 1) = m + 2 /\ m + 1 \in Nat
        /\ (m + 1) + 1 = m + 2 /\ 2 * (n + 1) - 1 = m + 1
        /\ m + 2 <= L /\ m + 1 <= L /\ n + 1 <= N
        /\ (m + 1) % 2 = 1 /\ (m + 2) % 2 = 0
    BY SMT, <1>1, <1>2
  <2>2. q[m] = r[n]
    BY <1>1, <1>10, <2>1
  <2> HIDE DEF m
  <2>3. q[m + 1] = q[m] + v[m + 1] /\ q[m] \in Nat
    BY <1>1, <1>8, <2>1, RunningStep
  <2>4. q[m + 2] = q[m + 1] + v[m + 2]
    BY <1>1, <1>8, <2>1, RunningStep
  <2>5. r[n + 1] = r[n] + w[n + 1]
    BY <1>2, <1>7, <2>1, RunningStep
  <2>6. m + 1 \in 1..L /\ m + 2 \in 1..L /\ n + 1 \in 1..N
    BY <1>1, <1>2, <2>1
  <2>7. v[m + 1] = b[m + 1] /\ v[m + 2] = 256 * b[m + 2]
    BY <1>3, <2>1, <2>6
  <2>8. w[n + 1] = b[m + 1] + 256 * b[m + 2]
    BY <1>3, <2>1, <2>6
  <2>9. b[m + 1] \in Nat /\ b[m + 2] \in Nat
    BY <1>1, <2>6
  <2>10. q[m + 2] = (q[m] + b[m + 1]) + (256 * b[m + 2])
    BY <2>3, <2>4, <2>7
  <2>11. r[n + 1] = q[m] + (b[m + 1] + (256 * b[m + 2]))
    BY <2>2, <2>5, <2>8
  <2>12. 256 * b[m + 2] \in Nat
    BY <2>9
  <2>13. q[m + 2] = r[n + 1]
    <3>1. PICK x \in Nat, y \in Nat, z \in Nat :
            x = q[m] /\ y = b[m + 1] /\ z = 256 * b[m + 2]
      BY <2>3, <2>9, <2>12
    <3>2. q[m + 2] = (x + y) + z /\ r[n + 1] = x + (y + z)
      BY <2>10, <2>11, <3>1
    <3>3. (x + y) + z = x + (y + z)
      OBVIOUS
    <3>4. QED
      BY <3>2, <3>3
  <2>14. QED
    BY <2>1, <2>13
<1> HIDE DEF T
<1>11. Nat \subseteq T
  BY <1>9, <1>10, Induction
<1>12. ASSUME L = 2 * N
       PROVE  r[N] = q[L]
  BY <1>1, <1>2, <1>11, <1>12 DEF T
<1>13. ASSUME L + 1 = 2 * N
       PROVE  r[N] = q[L]
  <2> DEFINE K == N - 1
  <2>1. /\ K \in Nat /\ K + 1 = N /\ 2 * K <= L /\ 2 * K + 1 = L
        /\ 2 * K \in Nat /\ 2 * N - 1 = L /\ ~(2 * N <= L)
        /\ L % 2 = 1 /\ L \in 1..L /\ N \in 1..N
    BY SMT, <1>1, <1>2, <1>13
  <2> HIDE DEF K
  <2>2. q[2 * K] = r[K]
    BY <1>11, <2>1 DEF T
  <2>3. r[K + 1] = r[K] + w[K + 1]
    BY <1>2, <1>7, <2>1, RunningStep
  <2>4. q[2 * K + 1] = q[2 * K] + v[2 * K + 1]
    BY <1>1, <1>8, <2>1, RunningStep
  <2>5. v[L] = b[L] /\ w[N] = b[L]
    BY <1>3, <2>1
  <2>6. QED
    BY <2>1, <2>2, <2>3, <2>4, <2>5
<1>14. Sum(w) = Sum(v)
  BY <1>2, <1>7, <1>8, <1>12, <1>13
<1>15. \A k \in 1..Len(w) : w[k] <= 65535
  BY <1>5, <1>6
<1>16. QED
  BY <1>4, <1>6, <1>14, <1>15 DEF w, v

-----------------------------------------------------------------------------
(***************************************************************************)
(* Folding and complementing                                               *)
(***************************************************************************)
Uint16 == {s \in Nat : s <= 65535}
Carried == {s \in Nat : s <= 131070}
Uint32 == {s \in Nat : s <= 4294967295}

\* s exceeds t by a multiple of 0xFFFF.
Reduces(s, t) == \E k \in Nat : s = t + (k * 65535)

\* A fold takes away a multiple of 0xFFFF, and never gives 0 for more.
LEMMA FoldOnce ==
  ASSUME NEW s \in Uint32
  PROVE  /\ Fold(s) \in Carried /\ Reduces(s, Fold(s))
         /\ s > 0 => Fold(s) > 0
         /\ s \in Carried => Fold(s) \in Uint16
<1> DEFINE hi == s \div 65536
           lo == s % 65536
<1>1. /\ hi \in Nat /\ lo \in Nat /\ hi <= 65535 /\ lo <= 65535
      /\ s = (65536 * hi) + lo
  BY SMT DEF Uint32
<1>2. Fold(s) = hi + lo
  BY SMT DEF Fold, W
<1> HIDE DEF hi, lo
<1>3. Fold(s) \in Carried /\ (s > 0 => Fold(s) > 0)
  BY SMT, <1>1, <1>2 DEF Carried
<1>4. s = Fold(s) + (hi * 65535)
  BY SMT, <1>1, <1>2
<1>5. Reduces(s, Fold(s))
  BY SMT, <1>1, <1>4 DEF Reduces
<1>6. s \in Carried => Fold(s) \in Uint16
  BY SMT, <1>1, <1>2 DEF Carried, Uint16
<1>7. QED
  BY <1>3, <1>5, <1>6

\* Two folds bring every sum into 16 bits, so uint16_t(~sum) drops nothing.
THEOREM TwoFoldsSuffice ==
  ASSUME NEW s \in Uint32
  PROVE  /\ Fold(Fold(s)) \in Uint16 /\ Reduces(s, Fold(Fold(s)))
         /\ s > 0 => Fold(Fold(s)) > 0
<1> DEFINE t == Fold(s)
           u == Fold(t)
<1>1. t \in Carried /\ Reduces(s, t) /\ (s > 0 => t > 0)
  BY FoldOnce
<1>2. t \in Uint32
  BY SMT, <1>1 DEF Carried, Uint32
<1>3. u \in Uint16 /\ Reduces(t, u) /\ (t > 0 => u > 0)
  BY <1>1, <1>2, FoldOnce
<1> HIDE DEF t, u
<1>4. Reduces(s, u)
  <2>1. PICK k \in Nat : s = t + (k * 65535)
    BY <1>1 DEF Reduces
  <2>2. PICK m \in Nat : t = u + (m * 65535)
    BY <1>3 DEF Reduces
  <2> DEFINE n == k + m
  <2>3. n \in Nat /\ s = u + (n * 65535)
    BY SMT, <1>3, <2>1, <2>2 DEF Uint16
  <2> HIDE DEF n
  <2>4. QED
    BY <2>3 DEF Reduces
<1>5. QED
  BY <1>1, <1>3, <1>4 DEF t, u

\* A message is accepted if and only if its field and its words add up to a
\* positive multiple of 0xFFFF.
THEOREM AcceptedSums ==
  ASSUME NEW s \in Uint32
  PROVE  Folded(s) = 0 <=> s > 0 /\ Reduces(s, 0)
<1> DEFINE f == Fold(Fold(s))
<1>1. f \in Uint16 /\ Reduces(s, f) /\ (s > 0 => f > 0)
  BY TwoFoldsSuffice
<1>2. Folded(s) = 65535 - (f % 65536)
  BY SMT DEF Folded, Complement, W
<1> HIDE DEF f
<1>3. PICK k \in Nat : s = f + (k * 65535)
  BY <1>1 DEF Reduces
<1>4. Folded(s) = 0 <=> f = 65535
  BY SMT, <1>1, <1>2 DEF Uint16
<1>5. ASSUME f = 65535
      PROVE  s > 0 /\ Reduces(s, 0)
  <2>1. s > 0 /\ k + 1 \in Nat /\ s = 0 + ((k + 1) * 65535)
    BY SMT, <1>3, <1>5
  <2>2. QED
    BY <2>1 DEF Reduces
<1>6. ASSUME s > 0, Reduces(s, 0)
      PROVE  f = 65535
  <2>1. PICK m \in Nat : s = 0 + (m * 65535)
    BY <1>6 DEF Reduces
  <2>2. QED
    BY SMT, <1>1, <1>3, <1>6, <2>1 DEF Uint16
<1>7. QED
  BY <1>4, <1>5, <1>6

\* Whatever the words of a message add up to, the checksum computed over
\* them makes the message accepted.
THEOREM ComputedIsAccepted ==
  ASSUME NEW rest \in Nat, rest + 65535 \in Uint32
  PROVE  Folded(Folded(rest) + rest) = 0
<1> DEFINE f == Fold(Fold(rest))
           c == Folded(rest)
<1>1. rest \in Uint32
  BY SMT DEF Uint32
<1>2. f \in Uint16 /\ Reduces(rest, f)
  BY <1>1, TwoFoldsSuffice
<1>3. c = 65535 - (f % 65536)
  BY SMT DEF Folded, Complement, W
<1> HIDE DEF f, c
<1>4. PICK k \in Nat : rest = f + (k * 65535)
  BY <1>2 DEF Reduces
<1>5. c = 65535 - f
  BY SMT, <1>2, <1>3 DEF Uint16
<1>6. c + rest \in Uint32 /\ c + rest > 0
  BY SMT, <1>2, <1>4, <1>5 DEF Uint16, Uint32
<1> DEFINE n == k + 1
<1>7. n \in Nat /\ c + rest = 0 + (n * 65535)
  BY SMT, <1>2, <1>4, <1>5 DEF Uint16
<1> HIDE DEF n
<1>8. Reduces(c + rest, 0)
  BY <1>7 DEF Reduces
<1>9. Folded(c + rest) = 0
  BY <1>6, <1>8, AcceptedSums
<1>10. QED
  BY <1>9 DEF c

\* An accepted message in which one byte is then damaged, by d, is not
\* accepted: a byte counts d or 256 * d, and neither reaches 0xFFFF.
THEOREM DamagedByteIsCaught ==
  ASSUME NEW s \in Uint32, Folded(s) = 0,
         NEW d \in 1..255, NEW w \in {1, 256},
         NEW t \in Uint32, t = s + (w * d) \/ s = t + (w * d)
  PROVE  Folded(t) # 0
<1>1. PICK k \in Nat : s = 0 + (k * 65535)
  BY AcceptedSums DEF Reduces
<1>2. SUFFICES ASSUME Reduces(t, 0)
               PROVE  FALSE
  BY AcceptedSums
<1>3. PICK m \in Nat : t = 0 + (m * 65535)
  BY <1>2 DEF Reduces
<1>4. w * d \in Nat /\ 0 < w * d /\ w * d < 65535
  <2>1. CASE w = 1
    BY SMT, <2>1
  <2>2. CASE w = 256
    BY SMT, <2>2
  <2>3. QED
    BY <2>1, <2>2
<1> DEFINE e == w * d
<1>5. e \in Nat /\ 0 < e /\ e < 65535 /\ (t = s + e \/ s = t + e)
  BY <1>4
<1> HIDE DEF e
<1>6. QED
  BY SMT, <1>1, <1>3, <1>5

\* An accepted message computed again gets the field it came with, or 0 for
\* 0xFFFF.
THEOREM AcceptedFieldIsRestored ==
  ASSUME NEW field \in Uint16, NEW rest \in Nat, rest + 65535 \in Uint32,
         Folded(field + rest) = 0
  PROVE  Folded(rest) = field \/ (field = 65535 /\ Folded(rest) = 0)
<1> DEFINE f == Fold(Fold(rest))
           t == field + rest
<1>1. rest \in Uint32 /\ t \in Uint32
  BY SMT DEF Uint16, Uint32
<1>2. f \in Uint16 /\ Reduces(rest, f) /\ (rest > 0 => f > 0)
  BY <1>1, TwoFoldsSuffice
<1>3. Folded(rest) = 65535 - (f % 65536) /\ Folded(t) = 0
  BY SMT DEF Folded, Complement, W
<1>4. t = field + rest
  OBVIOUS
<1> HIDE DEF f, t
<1>5. t > 0 /\ Reduces(t, 0)
  BY <1>1, <1>3, AcceptedSums
<1>6. Folded(rest) = 65535 - f
  BY SMT, <1>2, <1>3 DEF Uint16
<1>7. PICK k \in Nat : rest = f + (k * 65535)
  BY <1>2 DEF Reduces
<1>8. PICK m \in Nat : t = 0 + (m * 65535)
  BY <1>5 DEF Reduces
<1>9. field + f = (m - k) * 65535 /\ field + f > 0
  BY SMT, <1>2, <1>4, <1>5, <1>7, <1>8 DEF Uint16
<1>10. m - k = 1 \/ m - k = 2
  BY SMT, <1>2, <1>9 DEF Uint16
<1>11. QED
  BY SMT, <1>2, <1>6, <1>9, <1>10 DEF Uint16

\* The result fits the field.
LEMMA FoldedFits ==
  ASSUME NEW s \in Uint32
  PROVE  Folded(s) \in Uint16
<1>1. Fold(Fold(s)) \in Uint16
  BY TwoFoldsSuffice
<1>2. QED
  BY SMT, <1>1 DEF Folded, Complement, W, Uint16

-----------------------------------------------------------------------------
(***************************************************************************)
(* Buffers                                                                 *)
(***************************************************************************)

\* What the function may be given: at least a header, at most what MsgLen
\* can say.
Buffer == {b \in Seq(Byte) : EncodedLength <= Len(b) /\ Len(b) <= MaxLength}

\* What a buffer is, in the bounds the provers read.
LEMMA BufferBytes ==
  ASSUME NEW b \in Buffer
  PROVE  /\ b \in Seq(Byte) /\ Len(b) \in Nat /\ DOMAIN b = 1..Len(b)
         /\ 13 <= Len(b) /\ Len(b) <= 65535
         /\ 12 \in 1..Len(b) /\ 13 \in 1..Len(b)
         /\ \A i \in 1..Len(b) : b[i] \in Byte
         /\ \A x \in Byte : x \in Nat /\ x <= 255
<1>1. b \in Seq(Byte) /\ 13 <= Len(b) /\ Len(b) <= 65535
  BY SMT DEF Buffer, EncodedLength, MaxLength
<1>2. /\ Len(b) \in Nat /\ DOMAIN b = 1..Len(b)
      /\ \A i \in 1..Len(b) : b[i] \in Byte
  BY <1>1
<1>3. 12 \in 1..Len(b) /\ 13 \in 1..Len(b)
  BY <1>1, <1>2
<1>4. \A x \in Byte : x \in Nat /\ x <= 255
  BY SMT DEF Byte
<1>5. QED
  BY <1>1, <1>2, <1>3, <1>4

\* A buffer stays one when a byte in it becomes another.
LEMMA ByteExcept ==
  ASSUME NEW b \in Seq(Byte), NEW i \in 1..Len(b), NEW v \in Byte
  PROVE  /\ [b EXCEPT ![i] = v] \in Seq(Byte)
         /\ Len([b EXCEPT ![i] = v]) = Len(b) /\ [b EXCEPT ![i] = v][i] = v
         /\ \A j \in 1..Len(b) : j # i => [b EXCEPT ![i] = v][j] = b[j]
OBVIOUS

\* Writing the field writes its two bytes and no other.
LEMMA FieldOfSet ==
  ASSUME NEW b \in Buffer, NEW c \in Uint16
  PROVE  /\ SetField(b, c) \in Buffer /\ Len(SetField(b, c)) = Len(b)
         /\ Field(SetField(b, c)) = c
         /\ SetField(b, c)[12] = c % 256 /\ SetField(b, c)[13] = c \div 256
         /\ \A i \in 1..Len(b) :
              i # 12 /\ i # 13 => SetField(b, c)[i] = b[i]
<1> DEFINE x == c % 256
           y == c \div 256
           s == SetField(b, c)
<1>1. /\ x \in Byte /\ y \in Byte /\ c = x + 256 * y
  BY SMT DEF Uint16, Byte
<1>2. s = [[b EXCEPT ![12] = x] EXCEPT ![13] = y]
  BY SMT DEF SetField, ChecksumAt
<1> HIDE DEF x, y, s
<1>3. /\ s \in Seq(Byte) /\ Len(s) = Len(b)
      /\ s[12] = x /\ s[13] = y
      /\ \A i \in 1..Len(b) : i # 12 /\ i # 13 => s[i] = b[i]
  <2>1. b \in Seq(Byte) /\ 12 \in 1..Len(b) /\ 13 \in 1..Len(b)
    BY BufferBytes
  <2>2. PICK p \in Seq(Byte) :
          /\ p = [b EXCEPT ![12] = x] /\ Len(p) = Len(b) /\ p[12] = x
          /\ \A i \in 1..Len(b) : i # 12 => p[i] = b[i]
    <3>1. PICK i \in 1..Len(b), v \in Byte : i = 12 /\ v = x
      BY <1>1, <2>1
    <3>2. /\ [b EXCEPT ![i] = v] \in Seq(Byte)
          /\ Len([b EXCEPT ![i] = v]) = Len(b) /\ [b EXCEPT ![i] = v][i] = v
          /\ \A j \in 1..Len(b) : j # i => [b EXCEPT ![i] = v][j] = b[j]
      BY <2>1, ByteExcept
    <3>3. QED
      BY <3>1, <3>2, Zenon
  <2>3. s = [p EXCEPT ![13] = y]
    BY <1>2, <2>2
  <2>4. /\ s \in Seq(Byte) /\ Len(s) = Len(p) /\ s[13] = y
        /\ \A i \in 1..Len(p) : i # 13 => s[i] = p[i]
    <3>1. PICK i \in 1..Len(p), v \in Byte : i = 13 /\ v = y
      BY <1>1, <2>1, <2>2
    <3>2. /\ [p EXCEPT ![i] = v] \in Seq(Byte)
          /\ Len([p EXCEPT ![i] = v]) = Len(p) /\ [p EXCEPT ![i] = v][i] = v
          /\ \A j \in 1..Len(p) : j # i => [p EXCEPT ![i] = v][j] = p[j]
      BY ByteExcept
    <3>3. QED
      BY <2>3, <3>1, <3>2, Zenon
  <2>5. s[12] = p[12]
    BY <2>1, <2>2, <2>4
  <2>6. QED
    BY <2>2, <2>4, <2>5
<1>4. s \in Buffer
  BY <1>3 DEF Buffer
<1>5. Field(s) = c
  <2>1. ChecksumAt = 12 /\ ChecksumAt + 1 = 13
    BY DEF ChecksumAt
  <2>2. QED
    BY <1>1, <1>3, <2>1, Zenon DEF Field
<1>6. QED
  BY <1>3, <1>4, <1>5, Zenon DEF x, y, s

\* Two buffers of one length with the same bytes are one.
LEMMA SameBytes ==
  ASSUME NEW a \in Buffer, NEW b \in Buffer, Len(a) = Len(b),
         \A i \in 1..Len(a) : a[i] = b[i]
  PROVE  a = b
<1>1. /\ a = [i \in 1..Len(a) |-> a[i]]
      /\ b = [i \in 1..Len(b) |-> b[i]]
  BY DEF Buffer
<1>2. QED
  BY <1>1, Zenon

\* Setting the field to what it holds changes nothing, and only what was set
\* last counts.
LEMMA FieldIsSet ==
  ASSUME NEW b \in Buffer
  PROVE  /\ Field(b) \in Uint16 /\ SetField(b, Field(b)) = b
         /\ \A c, d \in Uint16 : SetField(SetField(b, c), d) = SetField(b, d)
<1>1. /\ b[12] \in Nat /\ b[12] <= 255 /\ b[13] \in Nat /\ b[13] <= 255
  BY BufferBytes
<1>2. Field(b) = b[12] + 256 * b[13]
  <2>1. ChecksumAt = 12 /\ ChecksumAt + 1 = 13
    BY DEF ChecksumAt
  <2>2. QED
    BY <2>1 DEF Field
<1>3. ASSUME NEW x \in Nat, NEW y \in Nat, x <= 255, y <= 255
      PROVE  /\ x + 256 * y \in Uint16
             /\ (x + 256 * y) % 256 = x /\ (x + 256 * y) \div 256 = y
  BY SMT, <1>3 DEF Uint16
<1>4. /\ Field(b) \in Uint16
      /\ Field(b) % 256 = b[12] /\ Field(b) \div 256 = b[13]
  BY <1>1, <1>2, <1>3
<1>5. SetField(b, Field(b)) = b
  <2>1. PICK s \in Buffer :
          /\ s = SetField(b, Field(b)) /\ Len(s) = Len(b)
          /\ s[12] = b[12] /\ s[13] = b[13]
          /\ \A i \in 1..Len(b) : i # 12 /\ i # 13 => s[i] = b[i]
    BY <1>4, FieldOfSet
  <2>2. \A i \in 1..Len(s) : s[i] = b[i]
    BY <2>1
  <2>3. s = b
    BY <2>1, <2>2, SameBytes
  <2>4. QED
    BY <2>1, <2>3
<1>6. ASSUME NEW c \in Uint16, NEW d \in Uint16
      PROVE  SetField(SetField(b, c), d) = SetField(b, d)
  <2>1. PICK p \in Buffer :
          /\ p = SetField(b, c) /\ Len(p) = Len(b)
          /\ \A i \in 1..Len(b) : i # 12 /\ i # 13 => p[i] = b[i]
    BY FieldOfSet
  <2>2. PICK q \in Buffer :
          /\ q = SetField(p, d) /\ Len(q) = Len(p)
          /\ q[12] = d % 256 /\ q[13] = d \div 256
          /\ \A i \in 1..Len(p) : i # 12 /\ i # 13 => q[i] = p[i]
    BY FieldOfSet
  <2>3. PICK r \in Buffer :
          /\ r = SetField(b, d) /\ Len(r) = Len(b)
          /\ r[12] = d % 256 /\ r[13] = d \div 256
          /\ \A i \in 1..Len(b) : i # 12 /\ i # 13 => r[i] = b[i]
    BY FieldOfSet
  <2>4. Len(q) = Len(r) /\ \A i \in 1..Len(q) : q[i] = r[i]
    BY <2>1, <2>2, <2>3
  <2>5. q = r
    BY <2>4, SameBytes
  <2>6. QED
    BY <2>1, <2>2, <2>3, <2>5
<1>7. QED
  BY <1>4, <1>5, <1>6

\* What the code adds up is the reference total, and fits uint32_t.
THEOREM TotalIsSummed ==
  ASSUME NEW b \in Buffer
  PROVE  /\ WordSum(SetField(b, 0)) \in Nat
         /\ WordSum(SetField(b, 0)) <= 2147450880
         /\ Total(b) = Field(b) + WordSum(SetField(b, 0))
         /\ Total(b) \in Uint32
<1> DEFINE z == SetField(b, 0)
           v == Weighted(z)
           u == [v EXCEPT ![12] = b[12]]
           t == [u EXCEPT ![13] = 256 * b[13]]
<1>1. 0 \in Uint16 /\ 0 % 256 = 0 /\ 0 \div 256 = 0
  BY SMT DEF Uint16
<1>2. /\ z \in Buffer /\ Len(z) = Len(b) /\ z[12] = 0 /\ z[13] = 0
      /\ \A i \in 1..Len(b) : i # 12 /\ i # 13 => z[i] = b[i]
  <2>1. /\ z \in Buffer /\ Len(z) = Len(b)
        /\ z[12] = 0 % 256 /\ z[13] = 0 \div 256
        /\ \A i \in 1..Len(b) : i # 12 /\ i # 13 => z[i] = b[i]
    BY <1>1, FieldOfSet
  <2>2. QED
    BY <1>1, <2>1
<1> HIDE DEF z
<1>3. /\ Words(z) \in Seq(Nat) /\ v \in Seq(Nat)
      /\ \A k \in 1..Len(Words(z)) : Words(z)[k] <= 65535
      /\ WordSum(z) = Sum(v)
  BY <1>2, BufferBytes, WordsAreWeighted DEF WordSum
<1>4. /\ Len(v) = Len(b) /\ v[12] = 0 /\ v[13] = 0
      /\ \A i \in 1..Len(b) : i # 12 /\ i # 13 =>
           v[i] = IF i % 2 = 1 THEN b[i] ELSE 256 * b[i]
  <2>1. Len(b) \in Nat /\ 12 \in 1..Len(b) /\ 13 \in 1..Len(b)
    BY BufferBytes
  <2>2. v = [i \in 1..Len(b) |-> IF i % 2 = 1 THEN z[i] ELSE 256 * z[i]]
    BY <1>2 DEF Weighted
  <2>3. v[12] = 0 /\ v[13] = 0
    BY <1>2, <2>1, <2>2
  <2>4. QED
    BY <1>2, <2>1, <2>2, <2>3
<1> HIDE DEF v
<1>5. /\ 12 \in 1..Len(v) /\ 13 \in 1..Len(v)
      /\ b[12] \in Nat /\ 256 * b[13] \in Nat
  <2>1. b[12] \in Nat /\ b[13] \in Nat
    BY BufferBytes
  <2>2. \A x \in Nat : 256 * x \in Nat
    BY SMT
  <2>3. 12 \in 1..Len(v) /\ 13 \in 1..Len(v)
    BY <1>4, BufferBytes
  <2>4. QED
    BY <2>1, <2>2, <2>3
<1>6. /\ u \in Seq(Nat) /\ Len(u) = Len(v)
      /\ Sum(u) + v[12] = Sum(v) + b[12]
  <2>1. PICK s \in Seq(Nat), x \in Nat : s = v /\ x = b[12]
    BY <1>3, <1>5
  <2>2. 12 \in 1..Len(s)
    BY <1>5, <2>1
  <2>3. /\ [s EXCEPT ![12] = x] \in Seq(Nat)
        /\ Len([s EXCEPT ![12] = x]) = Len(s)
        /\ Sum([s EXCEPT ![12] = x]) + s[12] = Sum(s) + x
    BY <2>2, SumExcept
  <2>4. QED
    BY <2>1, <2>3, Zenon
<1>7. u[13] = 0 /\ u[12] = b[12] /\ \A i \in 1..Len(b) : i # 12 => u[i] = v[i]
  BY <1>3, <1>4, <1>5
<1> HIDE DEF u
<1>8. /\ t \in Seq(Nat) /\ Len(t) = Len(v)
      /\ Sum(t) + u[13] = Sum(u) + 256 * b[13]
  <2>1. PICK s \in Seq(Nat), x \in Nat : s = u /\ x = 256 * b[13]
    BY <1>5, <1>6
  <2>2. 13 \in 1..Len(s)
    BY <1>5, <1>6, <2>1
  <2>3. /\ [s EXCEPT ![13] = x] \in Seq(Nat)
        /\ Len([s EXCEPT ![13] = x]) = Len(s)
        /\ Sum([s EXCEPT ![13] = x]) + s[13] = Sum(s) + x
    BY <2>2, SumExcept
  <2>4. [s EXCEPT ![13] = x] = t /\ s[13] = u[13]
    BY <2>1
  <2>5. QED
    BY <1>6, <2>1, <2>3, <2>4, Zenon
<1>9. \A i \in 1..Len(b) : t[i] = Weight(i) * b[i]
  <2>1. \A i \in 1..Len(b) : i # 13 => t[i] = u[i]
    BY <1>4, <1>6
  <2>2. t[12] = b[12] /\ t[13] = 256 * b[13]
    BY <1>4, <1>5, <1>6, <1>7
  <2>3. \A i \in 1..Len(b) : b[i] \in Nat /\ i \in Nat
    BY BufferBytes
  <2>4. TAKE i \in 1..Len(b)
  <2>5. 1 * b[i] = b[i]
    BY <2>3
  <2>6. CASE i = 12
    BY <2>2, <2>5, <2>6 DEF Weight, ChecksumAt
  <2>7. CASE i = 13
    BY <2>2, <2>7 DEF Weight, ChecksumAt
  <2>8. CASE i # 12 /\ i # 13
    <3>1. t[i] = IF i % 2 = 1 THEN b[i] ELSE 256 * b[i]
      BY <1>4, <1>7, <2>1, <2>8
    <3>2. Weight(i) = IF i % 2 = 1 THEN 1 ELSE 256
      BY <2>3, <2>8 DEF Weight, ChecksumAt
    <3>3. QED
      BY <2>5, <3>1, <3>2
  <2>9. QED
    BY <2>6, <2>7, <2>8
<1> HIDE DEF t
<1>10. Total(b) = Sum(t)
  <2>1. t = [i \in 1..Len(b) |-> t[i]]
    <3>1. PICK s \in Seq(Nat) : s = t
      BY <1>8
    <3>2. s = [i \in 1..Len(s) |-> s[i]]
      OBVIOUS
    <3>3. QED
      BY <1>4, <1>8, <3>1, <3>2
  <2>2. QED
    BY <1>9, <2>1, Zenon DEF Total
<1>11. WordSum(z) \in Nat /\ WordSum(z) <= 2147450880
  <2> DEFINE n == Len(Words(z))
  <2>1. 65535 \in Nat
    BY SMT
  <2>2. Sum(Words(z)) \in Nat /\ Sum(Words(z)) <= 65535 * n
    <3>1. PICK s \in Seq(Nat) : s = Words(z)
      BY <1>3
    <3>2. PICK c \in Nat : c = 65535
      BY <2>1
    <3>3. \A k \in 1..Len(s) : s[k] <= c
      BY <1>3, <3>1, <3>2
    <3>4. Sum(s) \in Nat /\ Sum(s) <= c * Len(s)
      BY <3>3, SumBounded
    <3>5. QED
      BY <3>1, <3>2, <3>4
  <2>3. n \in Nat /\ n <= 32768
    <3>1. \A x \in Nat : x <= 65535 =>
            (x + 1) \div 2 \in Nat /\ (x + 1) \div 2 <= 32768
      BY SMT
    <3>2. Len(b) \in Nat /\ Len(b) <= 65535
      BY BufferBytes
    <3>3. (Len(z) + 1) \div 2 \in Nat /\ (Len(z) + 1) \div 2 <= 32768
      BY <1>2, <3>1, <3>2
    <3>4. n = (Len(z) + 1) \div 2
      BY <3>3 DEF Words
    <3>5. QED
      BY <3>3, <3>4
  <2> HIDE DEF n
  <2>4. 65535 * n <= 2147450880 /\ 65535 * n \in Nat
    BY SMT, <2>3
  <2>5. QED
    BY SMT, <2>2, <2>4 DEF WordSum
<1>12. Total(b) = Field(b) + WordSum(z)
  <2>1. Field(b) = b[12] + 256 * b[13]
    <3>1. ChecksumAt = 12 /\ ChecksumAt + 1 = 13
      BY DEF ChecksumAt
    <3>2. QED
      BY <3>1 DEF Field
  <2>2. PICK x \in Nat, y \in Nat, w \in Nat :
          x = b[12] /\ y = 256 * b[13] /\ w = Sum(v)
    BY <1>3, <1>5, <1>11
  <2>3. \A s \in Seq(Nat) : Sum(s) \in Nat
    <3>1. TAKE s \in Seq(Nat)
    <3>2. PICK r : Running(s, Len(s), r) /\ Sum(s) = r[Len(s)]
      BY SumRuns
    <3>3. QED
      BY <3>2 DEF Running
  <2>4. Sum(u) \in Nat /\ Sum(t) \in Nat
    BY <1>6, <1>8, <2>3
  <2>5. Sum(u) = w + x
    BY <1>4, <1>6, <2>2, <2>4
  <2>6. Sum(t) = Sum(u) + y
    BY <1>7, <1>8, <2>2, <2>4
  <2>7. Sum(t) = (x + y) + w
    BY <2>5, <2>6
  <2>8. QED
    BY <1>3, <1>10, <2>1, <2>2, <2>7
<1>13. Total(b) \in Uint32
  BY SMT, <1>11, <1>12, FieldIsSet DEF Uint16, Uint32
<1>14. QED
  BY <1>11, <1>12, <1>13 DEF z

\* The function, in terms of the reference total.
LEMMA ChecksumIs ==
  ASSUME NEW b \in Buffer
  PROVE  /\ Folded(Total(b)) \in Uint16
         /\ Checksum(b) = SetField(b, Folded(Total(b)))
         /\ Checksum(b) \in Buffer /\ Len(Checksum(b)) = Len(b)
         /\ Field(Checksum(b)) = Folded(Total(b))
<1>1. Total(b) \in Uint32 /\ Total(b) = Field(b) + WordSum(SetField(b, 0))
  BY TotalIsSummed
<1>2. Folded(Total(b)) \in Uint16
  BY <1>1, FoldedFits
<1>3. Checksum(b) = SetField(b, Folded(Total(b)))
  BY <1>1 DEF Checksum
<1>4. QED
  BY <1>2, <1>3, FieldOfSet

\* A buffer is accepted if and only if its total is a positive multiple of
\* 0xFFFF.
LEMMA AcceptedTotal ==
  ASSUME NEW b \in Buffer
  PROVE  Field(Checksum(b)) = 0 <=> Total(b) > 0 /\ Total(b) % 65535 = 0
<1>1. Total(b) \in Uint32
  BY TotalIsSummed
<1>2. Field(Checksum(b)) = 0 <=> Total(b) > 0 /\ Reduces(Total(b), 0)
  BY <1>1, AcceptedSums, ChecksumIs
<1>3. ASSUME NEW n \in Uint32
      PROVE  Reduces(n, 0) <=> n % 65535 = 0
  <2>1. ASSUME Reduces(n, 0)
        PROVE  n % 65535 = 0
    <3>1. PICK k \in Nat : n = 0 + (k * 65535)
      BY <2>1 DEF Reduces
    <3>2. QED
      BY SMT, <3>1
  <2>2. ASSUME n % 65535 = 0
        PROVE  Reduces(n, 0)
    <3> DEFINE k == n \div 65535
    <3>1. k \in Nat /\ n = 0 + (k * 65535)
      BY SMT, <2>2 DEF Uint32
    <3> HIDE DEF k
    <3>2. QED
      BY <3>1 DEF Reduces
  <2>3. QED
    BY <2>1, <2>2
<1>4. QED
  BY <1>1, <1>2, <1>3

\* What is computed over a message with no field is accepted.
LEMMA ChecksumTwice ==
  ASSUME NEW b \in Buffer, Field(b) = 0
  PROVE  Field(Checksum(Checksum(b))) = 0
<1>1. PICK rest \in Nat :
        /\ rest = WordSum(SetField(b, 0)) /\ rest <= 2147450880
        /\ Total(b) = 0 + rest
  BY TotalIsSummed
<1>2. rest + 65535 \in Uint32 /\ Total(b) = rest
  BY SMT, <1>1 DEF Uint32
<1>3. PICK c \in Uint16 :
        c = Folded(rest) /\ Checksum(b) = SetField(b, c)
  BY <1>2, ChecksumIs
<1>4. PICK d \in Buffer : d = Checksum(b)
  BY ChecksumIs
<1>5. Field(d) = c /\ SetField(d, 0) = SetField(b, 0)
  <2>1. 0 \in Uint16
    BY SMT DEF Uint16
  <2>2. QED
    BY <1>3, <1>4, <2>1, FieldOfSet, FieldIsSet
<1>6. Total(d) = c + rest
  BY <1>1, <1>5, TotalIsSummed
<1>7. Folded(c + rest) = 0
  BY <1>2, <1>3, ComputedIsAccepted
<1>8. QED
  BY <1>4, <1>6, <1>7, ChecksumIs

\* Another byte in one place changes the total by the difference, with the
\* weight of the place.
LEMMA TotalExcept ==
  ASSUME NEW a \in Buffer, NEW b \in Buffer, Len(a) = Len(b),
         NEW i \in 1..Len(a), \A j \in 1..Len(a) : j # i => a[j] = b[j]
  PROVE  Total(a) + Weight(i) * b[i] = Total(b) + Weight(i) * a[i]
<1> DEFINE s == [j \in 1..Len(a) |-> Weight(j) * a[j]]
           t == [j \in 1..Len(b) |-> Weight(j) * b[j]]
<1>1. Total(a) = Sum(s) /\ Total(b) = Sum(t)
  BY DEF Total
<1>2. /\ Len(a) \in Nat /\ Len(b) \in Nat
      /\ \A j \in 1..Len(a) : a[j] \in Nat /\ b[j] \in Nat
  <2>1. ASSUME NEW c \in Buffer, NEW j \in 1..Len(c)
        PROVE  Len(c) \in Nat /\ c[j] \in Nat
    BY BufferBytes
  <2>2. QED
    BY <2>1, BufferBytes
<1>3. \A j \in 1..Len(a) : Weight(j) * a[j] \in Nat /\ Weight(j) * b[j] \in Nat
  <2>1. TAKE j \in 1..Len(a)
  <2>2. Weight(j) \in Nat
    BY DEF Weight
  <2>3. \A x, y \in Nat : x * y \in Nat
    BY SMT
  <2>4. QED
    BY <1>2, <2>2, <2>3
<1>4. s \in Seq(Nat) /\ Len(s) = Len(a) /\ t \in Seq(Nat) /\ Len(t) = Len(a)
  BY <1>2, <1>3
<1>5. t = [s EXCEPT ![i] = Weight(i) * b[i]]
  OBVIOUS
<1>6. s[i] = Weight(i) * a[i]
  OBVIOUS
<1> HIDE DEF s, t
<1>7. PICK x \in Nat : x = Weight(i) * b[i]
  BY <1>3
<1>8. Sum([s EXCEPT ![i] = x]) + s[i] = Sum(s) + x
  BY <1>4, SumExcept
<1>9. Sum(t) + s[i] = Sum(s) + x
  BY <1>5, <1>7, <1>8
<1>10. QED
  BY <1>1, <1>6, <1>7, <1>9

-----------------------------------------------------------------------------
(***************************************************************************)
(* The life of a message                                                   *)
(***************************************************************************)

\* What is known of the buffer at each stage: it is one the field of which
\* is 0, then one as long as what was sent, then the function's result about
\* as many bytes as its header says; and what was sent says its length and
\* would be accepted.
Life ==
  /\ stage \in {"composed", "travelling", "verified", "thrown"}
  /\ buf \in Buffer
  /\ stage = "composed" => Field(buf) = 0 /\ MsgLen(buf) = Len(buf)
  /\ stage # "composed" =>
       /\ sent \in Buffer /\ Field(Checksum(sent)) = 0
       /\ MsgLen(sent) = Len(sent)
  /\ stage = "travelling" => Len(buf) = Len(sent)
  /\ stage = "verified" =>
       /\ received \in Buffer /\ MsgLen(received) = Len(received)
       /\ buf = Checksum(received)

\* A damaged byte leaves a buffer of the same length.
LEMMA DamageKeepsBuffer ==
  ASSUME NEW b \in Buffer, NEW i \in DOMAIN b, NEW v \in Noise
  PROVE  [b EXCEPT ![i] = v] \in Buffer /\ Len([b EXCEPT ![i] = v]) = Len(b)
<1>1. v \in Byte
  BY ChecksumAssumption
<1>2. b \in Seq(Byte) /\ i \in 1..Len(b)
  BY BufferBytes
<1>3. /\ [b EXCEPT ![i] = v] \in Seq(Byte)
      /\ Len([b EXCEPT ![i] = v]) = Len(b)
  BY <1>1, <1>2, ByteExcept
<1>4. QED
  BY <1>3 DEF Buffer

\* The function leaves the length in the header alone.
LEMMA LengthIsKept ==
  ASSUME NEW b \in Buffer
  PROVE  MsgLen(Checksum(b)) = MsgLen(b)
<1>1. PICK c \in Uint16 : Checksum(b) = SetField(b, c)
  BY ChecksumIs
<1>2. /\ 2 \in 1..Len(b) /\ 2 # 12 /\ 2 # 13
      /\ 3 \in 1..Len(b) /\ 3 # 12 /\ 3 # 13
  BY BufferBytes
<1>3. SetField(b, c)[2] = b[2] /\ SetField(b, c)[3] = b[3]
  BY <1>2, FieldOfSet
<1>4. QED
  BY <1>1, <1>3 DEF MsgLen

\* As many bytes as the header says are a message that says its length,
\* whatever has followed on the connection.
LEMMA TakenIsBuffer ==
  ASSUME NEW b \in Buffer, NEW rest \in Behind,
         MsgLen(b) \in EncodedLength..Len(b \o rest)
  PROVE  /\ SubSeq(b \o rest, 1, MsgLen(b)) \in Buffer
         /\ MsgLen(SubSeq(b \o rest, 1, MsgLen(b)))
              = Len(SubSeq(b \o rest, 1, MsgLen(b)))
<1>1. /\ b \in Seq(Byte) /\ Len(b) \in Nat /\ 13 <= Len(b)
      /\ b[2] \in Nat /\ b[2] <= 255 /\ b[3] \in Nat /\ b[3] <= 255
  BY BufferBytes
<1>2. PICK s \in Seq(Byte) : s = b \o rest
  <2>1. rest \in Seq(Byte)
    BY ChecksumAssumption
  <2>2. b \o rest \in Seq(Byte)
    BY <1>1, <2>1
  <2>3. QED
    BY <2>2
<1>3. s[2] = b[2] /\ s[3] = b[3]
  <2>1. rest \in Seq(Byte)
    BY ChecksumAssumption
  <2>2. 2 \in 1..Len(b) /\ 3 \in 1..Len(b)
    BY <1>1
  <2>3. \A i \in 1..Len(b) : (b \o rest)[i] = b[i]
    BY <1>1, <2>1
  <2>4. QED
    BY <1>2, <2>2, <2>3
<1>4. PICK n \in Nat :
        n = MsgLen(b) /\ 13 <= n /\ n <= 65535 /\ n <= Len(s)
  <2>1. MsgLen(b) \in Nat /\ MsgLen(b) <= 65535
    BY <1>1 DEF MsgLen
  <2>2. EncodedLength = 13 /\ Len(s) \in Nat
    BY <1>2 DEF EncodedLength
  <2>3. QED
    BY <1>2, <2>1, <2>2
<1>5. PICK t \in Seq(Byte) :
        t = SubSeq(s, 1, n) /\ Len(t) = n /\ t[2] = s[2] /\ t[3] = s[3]
  <2>1. 1 \in 1..Len(s) /\ n \in 1..Len(s) /\ 1 <= n
    BY <1>2, <1>4
  <2>2. /\ SubSeq(s, 1, n) \in Seq(Byte) /\ Len(SubSeq(s, 1, n)) = n
        /\ \A i \in 1..n : SubSeq(s, 1, n)[i] = s[i]
    BY <1>2, <2>1
  <2>3. 2 \in 1..n /\ 3 \in 1..n
    BY <1>4
  <2>4. QED
    BY <2>2, <2>3
<1>6. t \in Buffer
  BY SMT, <1>4, <1>5 DEF Buffer, EncodedLength, MaxLength
<1>7. MsgLen(t) = MsgLen(b)
  BY <1>3, <1>5 DEF MsgLen
<1>8. QED
  BY <1>2, <1>4, <1>5, <1>6, <1>7

\* Every message that may be composed is a buffer without a checksum.
LEMMA LifeInit == Init => Life
<1>1. ASSUME NEW m \in Messages
      PROVE  m \in Buffer /\ Field(m) = 0 /\ MsgLen(m) = Len(m)
  <2>1. /\ m \in Seq(Byte) /\ Len(m) \in EncodedLength..MaxLength
        /\ m[ChecksumAt] = 0 /\ m[ChecksumAt + 1] = 0
        /\ MsgLen(m) = Len(m)
    BY ChecksumAssumption
  <2>2. EncodedLength \in Nat /\ MaxLength \in Nat
    BY SMT DEF EncodedLength, MaxLength
  <2>3. m \in Buffer
    BY <2>1, <2>2 DEF Buffer
  <2>4. QED
    BY <2>1, <2>3 DEF Field
<1>2. QED
  BY <1>1 DEF Init, Life

\* No step of the sender, the network or the receiver breaks it.
LEMMA LifeNext == Life /\ [Next]_vars => Life'
<1> SUFFICES ASSUME Life, [Next]_vars
             PROVE  Life'
  OBVIOUS
<1>1. CASE Compute
  BY <1>1, ChecksumIs, ChecksumTwice, LengthIsKept DEF Life, Compute
<1>2. CASE Damage
  <2>1. PICK i \in DOMAIN buf, v \in Noise : buf' = [buf EXCEPT ![i] = v]
    BY <1>2 DEF Damage
  <2>2. buf' \in Buffer /\ Len(buf') = Len(buf)
    BY <2>1, DamageKeepsBuffer DEF Life
  <2>3. QED
    BY <1>2, <2>2 DEF Life, Damage
<1>3. CASE Verify
  <2>1. received' \in Buffer /\ MsgLen(received') = Len(received')
    BY <1>3, TakenIsBuffer DEF Life, Verify
  <2>2. buf' = Checksum(received') /\ buf' \in Buffer
    BY <1>3, <2>1, ChecksumIs DEF Verify
  <2>3. QED
    BY <1>3, <2>1, <2>2 DEF Life, Verify
<1>4. CASE Throw
  BY <1>4 DEF Life, Throw
<1>5. CASE UNCHANGED vars
  BY <1>5 DEF Life, vars
<1>6. QED
  BY <1>1, <1>2, <1>3, <1>4, <1>5 DEF Next

\* Life is an invariant.
THEOREM LifeHolds == Spec => []Life
  BY LifeInit, LifeNext, PTL DEF Spec

\* Every byte the function stores is a byte, in either place.
THEOREM ChecksumTyped == Spec => []TypeOK
<1>1. Life => TypeOK
  BY BufferBytes DEF Life, TypeOK, EncodedLength
<1>2. QED
  BY LifeHolds, <1>1, PTL

\* What was sent is accepted if it arrives as it is: for every set of
\* messages, of every content and length.
THEOREM SentIsAccepted == Spec => []ComputedVerifies
<1>1. Life => ComputedVerifies
  BY DEF Life, ComputedVerifies, Accepted
<1>2. QED
  BY LifeHolds, <1>1, PTL

\* A message with one damaged byte is refused if its length has arrived as
\* it was sent: for every message, whichever other byte it is and whatever
\* it becomes, and whatever follows on the connection.
THEOREM DamageIsRefused == Spec => []OneByteCaught
<1>1. ASSUME Life, stage = "verified", MsgLen(received) = MsgLen(sent),
             Cardinality({i \in DOMAIN sent : received[i] # sent[i]}) = 1
      PROVE  Field(buf) # 0
  <2> DEFINE D == {i \in DOMAIN sent : received[i] # sent[i]}
  <2>1. /\ sent \in Buffer /\ received \in Buffer
        /\ Len(received) = Len(sent)
        /\ Field(Checksum(sent)) = 0 /\ buf = Checksum(received)
    BY <1>1 DEF Life
  <2>2. DOMAIN sent = 1..Len(sent) /\ Len(sent) \in Nat
    BY <2>1, BufferBytes
  <2>3. IsFiniteSet(D)
    <3>1. IsFiniteSet(1..Len(sent))
      BY <2>2, FS_Interval
    <3>2. QED
      BY <2>2, <3>1, FS_Subset
  <2>4. PICK i : D = {i}
    BY <1>1, <2>3, FS_Singleton
  <2> HIDE DEF D
  <2>5. /\ i \in 1..Len(sent) /\ received[i] # sent[i]
        /\ \A j \in 1..Len(sent) : j # i => sent[j] = received[j]
    BY <2>2, <2>4 DEF D
  <2>6. PICK w \in {1, 256} : w = Weight(i)
    BY DEF Weight
  <2>7. /\ sent[i] \in Nat /\ sent[i] <= 255
        /\ received[i] \in Nat /\ received[i] <= 255
    BY <2>1, <2>5, BufferBytes
  <2>8. PICK x \in Nat, y \in Nat : x = sent[i] /\ y = received[i]
    BY <2>7
  <2>9. /\ Total(sent) \in Uint32 /\ Total(received) \in Uint32
        /\ Folded(Total(sent)) = 0
    BY <2>1, TotalIsSummed, ChecksumIs
  <2>10. PICK s \in Uint32, t \in Uint32 :
           s = Total(sent) /\ t = Total(received)
    BY <2>9
  <2>11. s + w * y = t + w * x
    BY <2>1, <2>5, <2>6, <2>8, <2>10, TotalExcept
  <2>12. PICK d \in 1..255 : t = s + w * d \/ s = t + w * d
    <3>1. x # y /\ x <= 255 /\ y <= 255 /\ s \in Nat /\ t \in Nat
      BY <2>5, <2>7, <2>8 DEF Uint32
    <3>2. CASE x < y
      <4>1. y - x \in 1..255 /\ t = s + w * (y - x)
        BY SMT, <2>11, <3>1, <3>2
      <4>2. QED
        BY <4>1
    <3>3. CASE y < x
      <4>1. x - y \in 1..255 /\ s = t + w * (x - y)
        BY SMT, <2>11, <3>1, <3>3
      <4>2. QED
        BY <4>1
    <3>4. QED
      BY <3>1, <3>2, <3>3
  <2>13. Folded(t) # 0
    BY <2>9, <2>10, <2>12, DamagedByteIsCaught
  <2>14. QED
    BY <2>1, <2>10, <2>13, ChecksumIs
<1>2. Life => OneByteCaught
  BY <1>1 DEF OneByteCaught, Accepted
<1>3. QED
  BY LifeHolds, <1>2, PTL

\* The function agrees with the reference total about every buffer.
THEOREM AcceptedIsFull == Spec => []AcceptedIffTotalIsFull
<1>1. Life => AcceptedIffTotalIsFull
  <2>1. W - 1 = 65535
    BY SMT DEF W
  <2>2. QED
    BY <2>1, AcceptedTotal DEF Life, AcceptedIffTotalIsFull, Accepted
<1>2. QED
  BY LifeHolds, <1>1, PTL

\* Verifying loses nothing.
THEOREM RestoredWhenAccepted == Spec => []AcceptedIsRestored
<1>1. ASSUME NEW b \in Buffer, Field(Checksum(b)) = 0
      PROVE  \/ Checksum(Checksum(b)) = b
             \/ Field(b) = 65535 /\ Field(Checksum(Checksum(b))) = 0
  <2>1. PICK f \in Uint16, rest \in Nat :
          /\ f = Field(b) /\ rest = WordSum(SetField(b, 0))
          /\ rest <= 2147450880 /\ Total(b) = f + rest
    BY TotalIsSummed, FieldIsSet
  <2>2. 0 \in Uint16 /\ rest + 65535 \in Uint32 /\ 0 + rest = rest
    BY SMT, <2>1 DEF Uint16, Uint32
  <2>3. Folded(f + rest) = 0
    BY <1>1, <2>1, ChecksumIs
  <2>4. PICK d \in Buffer : d = Checksum(b) /\ d = SetField(b, 0)
    BY <2>1, <2>3, ChecksumIs
  <2>5. Field(d) = 0 /\ SetField(d, 0) = SetField(b, 0)
    BY <2>2, <2>4, FieldOfSet, FieldIsSet
  <2>6. Total(d) = rest
    BY <2>1, <2>2, <2>5, TotalIsSummed
  <2>7. /\ Folded(rest) \in Uint16 /\ Checksum(d) = SetField(d, Folded(rest))
        /\ Field(Checksum(d)) = Folded(rest)
    BY <2>6, ChecksumIs
  <2>8. Checksum(d) = SetField(b, Folded(rest))
    BY <2>2, <2>4, <2>7, FieldIsSet
  <2>9. Folded(rest) = f \/ (f = 65535 /\ Folded(rest) = 0)
    BY <2>2, <2>3, AcceptedFieldIsRestored
  <2>10. QED
    BY <2>1, <2>4, <2>7, <2>8, <2>9, FieldIsSet
<1>2. Life => AcceptedIsRestored
  <2>1. W - 1 = 65535
    BY SMT DEF W
  <2>2. ASSUME Life, Accepted
        PROVE  /\ received \in Buffer /\ Field(Checksum(received)) = 0
               /\ buf = Checksum(received)
    BY <2>2 DEF Life, Accepted
  <2>3. QED
    BY <1>1, <2>1, <2>2 DEF AcceptedIsRestored
<1>3. QED
  BY LifeHolds, <1>2, PTL
=============================================================================
