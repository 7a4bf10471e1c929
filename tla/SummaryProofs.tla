--------------------------- MODULE SummaryProofs ----------------------------
(***************************************************************************)
(* Theorems of Summary, for every width of U256, every number of decimals  *)
(* and every text.                                                         *)
(*                                                                         *)
(* The operators of Amount are recursive functions.  What they compute is  *)
(* proved by induction, over sets rather than operators: a set with 0 that *)
(* holds n + 1 wherever it holds n holds every natural number.             *)
(***************************************************************************)
EXTENDS Summary, FiniteSetTheorems, WellFoundedInduction, TLAPS

-----------------------------------------------------------------------------
(* Induction and recursive functions.                                      *)

Less == OpToRel(<, Nat)

\* The naturals are well founded, so that a nonempty set has a least one.
LEMMA LessWF == IsWellFoundedOn(Less, Nat)
BY NatLessThanWellFounded DEF Less

LEMMA LessDef == \A m, n \in Nat : <<m, n>> \in Less <=> m < n
BY DEF Less, OpToRel

\* A set with 0 that holds n + 1 wherever it holds n holds every natural.
LEMMA SetInduction ==
  ASSUME NEW S, 0 \in S, \A n \in Nat : n \in S => n + 1 \in S
  PROVE  \A n \in Nat : n \in S
<1> SUFFICES ASSUME NEW n \in Nat, n \notin S PROVE FALSE
  OBVIOUS
<1> DEFINE T == {m \in Nat : m \notin S}
<1>1. T # {} /\ T \subseteq Nat
  OBVIOUS
<1>2. PICK x \in T : \A y \in T : ~ (<<y, x>> \in Less)
  <2> HIDE DEF T
  <2> QED
    BY <1>1, LessWF, WFMin
<1>3. x \in Nat /\ x # 0 /\ x - 1 \in Nat /\ x - 1 < x
  OBVIOUS
<1>4. x - 1 \in S
  BY <1>2, <1>3, LessDef
<1>5. x - 1 + 1 = x
  BY <1>3
<1> QED
  BY <1>3, <1>4, <1>5

\* f starts at a and takes one step per number, up to n.
Recursive(f, n, a, step) ==
  f[0] = a /\ \A i \in 1 .. n : f[i] = step[i][f[i - 1]]

\* There is such a function on 0 .. n, ...
LEMMA RecExists ==
  ASSUME NEW V, NEW a \in V, NEW n \in Nat, NEW step \in [1 .. n -> [V -> V]]
  PROVE  \E f \in [0 .. n -> V] : Recursive(f, n, a, step)
<1> DEFINE S == {m \in Nat : m <= n =>
                   \E f \in [0 .. m -> V] : Recursive(f, m, a, step)}
<1>1. 0 \in S
  <2> DEFINE f == [i \in 0 .. 0 |-> a]
  <2>1. f \in [0 .. 0 -> V] /\ Recursive(f, 0, a, step)
    BY DEF Recursive
  <2> QED
    BY <2>1
<1>2. ASSUME NEW m \in Nat, m \in S PROVE m + 1 \in S
  <2> SUFFICES ASSUME m + 1 <= n
               PROVE  \E f \in [0 .. m + 1 -> V] : Recursive(f, m + 1, a, step)
    OBVIOUS
  <2>1. PICK f \in [0 .. m -> V] : Recursive(f, m, a, step)
    BY <1>2
  <2> DEFINE g == [i \in 0 .. m + 1 |-> IF i = m + 1 THEN step[m + 1][f[m]] ELSE f[i]]
  <2>2. step[m + 1] \in [V -> V] /\ f[m] \in V
    OBVIOUS
  <2>3. g \in [0 .. m + 1 -> V]
    BY <2>2
  <2>4. /\ g[0] = f[0] /\ g[m + 1] = step[m + 1][f[m]]
        /\ \A i \in 0 .. m : g[i] = f[i]
    OBVIOUS
  <2>5. Recursive(g, m + 1, a, step)
    BY <2>1, <2>4 DEF Recursive
  <2> QED
    BY <2>3, <2>5
<1>3. n \in S
  <2> HIDE DEF S
  <2> QED
    BY <1>1, <1>2, SetInduction
<1> QED
  BY <1>3

\* ... only one, ...
LEMMA RecUnique ==
  ASSUME NEW n \in Nat, NEW a, NEW step, NEW f, NEW g,
         Recursive(f, n, a, step), Recursive(g, n, a, step)
  PROVE  \A i \in 0 .. n : f[i] = g[i]
<1> DEFINE S == {i \in Nat : i <= n => f[i] = g[i]}
<1>1. 0 \in S
  BY DEF Recursive
<1>2. ASSUME NEW i \in Nat, i \in S PROVE i + 1 \in S
  <2> SUFFICES ASSUME i + 1 <= n PROVE f[i + 1] = g[i + 1]
    OBVIOUS
  <2>1. f[i] = g[i] /\ i + 1 \in 1 .. n /\ (i + 1) - 1 = i
    BY <1>2
  <2> QED
    BY <2>1 DEF Recursive
<1>3. \A i \in Nat : i \in S
  <2> HIDE DEF S
  <2> QED
    BY <1>1, <1>2, SetInduction
<1> QED
  BY <1>3

\* ... and one on all the naturals.
RecursiveOnNat(f, a, step) ==
  f[0] = a /\ \A i \in Nat \ {0} : f[i] = step[i][f[i - 1]]

LEMMA RecNat ==
  ASSUME NEW V, NEW a \in V, NEW step \in [Nat -> [V -> V]]
  PROVE  \E f \in [Nat -> V] : RecursiveOnNat(f, a, step)
<1> DEFINE Part(n) == CHOOSE f \in [0 .. n -> V] : Recursive(f, n, a, step)
           f == [n \in Nat |-> Part(n)[n]]
<1>1. ASSUME NEW n \in Nat
      PROVE  Part(n) \in [0 .. n -> V] /\ Recursive(Part(n), n, a, step)
  <2> DEFINE st == [i \in 1 .. n |-> step[i]]
  <2>1. st \in [1 .. n -> [V -> V]]
    OBVIOUS
  <2>2. PICK g \in [0 .. n -> V] : Recursive(g, n, a, st)
    <3> HIDE DEF st
    <3> QED
      BY <2>1, RecExists
  <2>3. Recursive(g, n, a, step)
    BY <2>2 DEF Recursive
  <2> QED
    BY <2>3
<1>2. f \in [Nat -> V]
  <2> HIDE DEF Part
  <2> QED
    BY <1>1
<1>3. f[0] = a
  <2> HIDE DEF Part
  <2> QED
    BY <1>1 DEF Recursive
<1>4. ASSUME NEW i \in Nat \ {0} PROVE f[i] = step[i][f[i - 1]]
  <2> HIDE DEF Part
  <2>1. i - 1 \in Nat /\ i \in Nat /\ i \in 1 .. i /\ i - 1 \in 0 .. i - 1
    OBVIOUS
  <2>2. Recursive(Part(i), i - 1, a, step)
    BY <1>1, <2>1 DEF Recursive
  <2>3. Part(i)[i - 1] = Part(i - 1)[i - 1]
    BY <1>1, <2>1, <2>2, RecUnique
  <2>4. Part(i)[i] = step[i][Part(i)[i - 1]]
    BY <1>1, <2>1 DEF Recursive
  <2> QED
    BY <2>1, <2>3, <2>4
<1> HIDE DEF f
<1> QED
  BY <1>2, <1>3, <1>4 DEF RecursiveOnNat

-----------------------------------------------------------------------------
(* Powers of ten.                                                          *)

\* The function Pow exists, and is what its equation says.
LEMMA PowIs == Pow \in [Nat -> Nat] /\ Pow[0] = 1 /\ \A n \in Nat \ {0} : Pow[n] = 10 * Pow[n - 1]
<1> DEFINE step == [i \in Nat |-> [v \in Nat |-> 10 * v]]
<1>1. step \in [Nat -> [Nat -> Nat]]
  OBVIOUS
<1>2. PICK f \in [Nat -> Nat] : RecursiveOnNat(f, 1, step)
  <2> HIDE DEF step
  <2> QED
    BY <1>1, RecNat
<1>3. ASSUME NEW i \in Nat \ {0} PROVE f[i] = 10 * f[i - 1]
  <2>1. f[i - 1] \in Nat /\ i \in Nat
    OBVIOUS
  <2>2. step[i][f[i - 1]] = 10 * f[i - 1]
    BY <2>1
  <2> QED
    BY <1>2, <2>2 DEF RecursiveOnNat
<1>4. f = [n \in Nat |-> IF n = 0 THEN 1 ELSE 10 * f[n - 1]]
  BY <1>2, <1>3 DEF RecursiveOnNat
<1>5. Pow = [n \in Nat |-> IF n = 0 THEN 1 ELSE 10 * Pow[n - 1]]
  BY <1>4, Zenon DEF Pow
<1> DEFINE S == {n \in Nat : Pow[n] \in Nat}
<1>6. Pow[0] = 1 /\ \A n \in Nat \ {0} : Pow[n] = 10 * Pow[n - 1]
  BY <1>5
<1>7. 0 \in S /\ \A n \in Nat : n \in S => n + 1 \in S
  BY <1>6
<1>8. \A n \in Nat : n \in S
  <2> HIDE DEF S
  <2> QED
    BY <1>7, SetInduction
<1> QED
  BY <1>5, <1>6, <1>8

LEMMA PowPositive == \A n \in Nat : Pow[n] \in Nat \ {0}
<1> DEFINE S == {n \in Nat : Pow[n] > 0}
<1>1. 0 \in S /\ \A n \in Nat : n \in S => n + 1 \in S
  BY PowIs
<1>2. \A n \in Nat : n \in S
  <2> HIDE DEF S
  <2> QED
    BY <1>1, SetInduction
<1> QED
  BY <1>2, PowIs

LEMMA PowAdds == \A m, n \in Nat : Pow[m + n] = Pow[m] * Pow[n]
<1> SUFFICES ASSUME NEW m \in Nat
             PROVE  \A n \in Nat : Pow[m + n] = Pow[m] * Pow[n]
  OBVIOUS
<1> DEFINE S == {n \in Nat : Pow[m + n] = Pow[m] * Pow[n]}
<1>1. 0 \in S
  BY PowIs
<1>2. ASSUME NEW n \in Nat, n \in S PROVE n + 1 \in S
  <2>1. Pow[m + (n + 1)] = 10 * Pow[m + n] /\ Pow[n + 1] = 10 * Pow[n]
    BY PowIs
  <2>2. Pow[m] \in Nat /\ Pow[n] \in Nat /\ Pow[m + n] = Pow[m] * Pow[n]
    BY <1>2, PowIs
  <2>3. 10 * (Pow[m] * Pow[n]) = Pow[m] * (10 * Pow[n])
    BY <2>2
  <2> QED
    BY <2>1, <2>2, <2>3
<1>3. \A n \in Nat : n \in S
  <2> HIDE DEF S
  <2> QED
    BY <1>1, <1>2, SetInduction
<1> QED
  BY <1>3

\* More zeros, more.
LEMMA PowGrows ==
  ASSUME NEW m \in Nat, NEW n \in Nat, m <= n
  PROVE  Pow[m] <= Pow[n]
<1>1. Pow[m + (n - m)] = Pow[m] * Pow[n - m]
  BY PowAdds
<1>2. m + (n - m) = n /\ Pow[m] \in Nat /\ Pow[n - m] \in Nat \ {0}
  BY PowPositive
<1>3. \A a \in Nat, b \in Nat \ {0} : a <= a * b
  OBVIOUS
<1> QED
  BY <1>1, <1>2, <1>3

-----------------------------------------------------------------------------
(* What the parser reads, and what is meant.                               *)

Characters == Digits \cup {Skip}

\* u reads the characters of s one by one, as from_str_radix does.
Reads(u, s) ==
  /\ u \in [0 .. Len(s) -> Nat]
  /\ u[0] = 0
  /\ \A i \in 1 .. Len(s) :
        u[i] = IF s[i] = Skip THEN u[i - 1] ELSE 10 * u[i - 1] + s[i]

LEMMA NumberReads ==
  ASSUME NEW s \in Seq(Characters)
  PROVE  \E u : Reads(u, s) /\ Number(s) = u[Len(s)]
<1> DEFINE n == Len(s)
           step == [i \in 1 .. n |-> [v \in Nat |->
                      IF s[i] = Skip THEN v ELSE 10 * v + s[i]]]
<1>1. n \in Nat /\ \A i \in 1 .. n : s[i] # Skip => s[i] \in Nat
  BY DEF Characters, Digits
<1>2. step \in [1 .. n -> [Nat -> Nat]]
  BY <1>1
<1>3. PICK u \in [0 .. n -> Nat] : Recursive(u, n, 0, step)
  <2> HIDE DEF step, n
  <2> QED
    BY <1>1, <1>2, RecExists
<1>4. ASSUME NEW i \in 1 .. n
      PROVE  u[i] = IF s[i] = Skip THEN u[i - 1] ELSE 10 * u[i - 1] + s[i]
  <2>1. i - 1 \in 0 .. n
    BY <1>1
  <2>2. u[i] = step[i][u[i - 1]]
    <3> HIDE DEF step, n
    <3> QED
      BY <1>3 DEF Recursive
  <2> QED
    BY <1>3, <2>1, <2>2
<1>5. u = [i \in 0 .. Len(s) |->
             IF i = 0 THEN 0
             ELSE IF s[i] = Skip THEN u[i - 1] ELSE 10 * u[i - 1] + s[i]]
  BY <1>1, <1>3, <1>4 DEF Recursive
<1> DEFINE U == CHOOSE w : w = [i \in 0 .. Len(s) |->
             IF i = 0 THEN 0
             ELSE IF s[i] = Skip THEN w[i - 1] ELSE 10 * w[i - 1] + s[i]]
<1>6. U = [i \in 0 .. Len(s) |->
             IF i = 0 THEN 0
             ELSE IF s[i] = Skip THEN U[i - 1] ELSE 10 * U[i - 1] + s[i]]
  BY <1>5, Zenon
<1>7. Number(s) = U[Len(s)]
  BY Zenon DEF Number
<1> HIDE DEF U
<1>8. U[0] = 0 /\ \A i \in 1 .. n :
        U[i] = IF s[i] = Skip THEN U[i - 1] ELSE 10 * U[i - 1] + s[i]
  BY <1>1, <1>6
<1>9. \A i \in 0 .. n : U[i] \in Nat
  <2> DEFINE S == {i \in Nat : i <= n => U[i] \in Nat}
  <2>1. 0 \in S
    BY <1>8
  <2>2. ASSUME NEW i \in Nat, i \in S PROVE i + 1 \in S
    <3> SUFFICES ASSUME i + 1 <= n PROVE U[i + 1] \in Nat
      OBVIOUS
    <3>1. i + 1 \in 1 .. n /\ (i + 1) - 1 = i /\ U[i] \in Nat
      BY <1>1, <2>2
    <3>2. U[i + 1] = IF s[i + 1] = Skip THEN U[i] ELSE 10 * U[i] + s[i + 1]
      BY <1>8, <3>1
    <3>3. s[i + 1] # Skip => s[i + 1] \in Nat
      BY <1>1, <3>1
    <3> QED
      BY <3>1, <3>2, <3>3
  <2>3. \A i \in Nat : i \in S
    <3> HIDE DEF S
    <3> QED
      BY <2>1, <2>2, SetInduction
  <2> QED
    BY <1>1, <2>3
<1>10. Reads(U, s)
  BY <1>1, <1>6, <1>8, <1>9 DEF Reads
<1> QED
  BY <1>7, <1>10

\* A digit is at most as far behind the point as its character, and as far
\* if no character before it is skipped.
LEMMA PlaceBounds ==
  ASSUME NEW s, NEW i \in Nat
  PROVE  /\ Place(s, i) \in 0 .. i
         /\ (\A j \in 1 .. i : s[j] # Skip) => Place(s, i) = i
<1> DEFINE T == {j \in 1 .. i : s[j] # Skip}
<1>1. IsFiniteSet(1 .. i) /\ Cardinality(1 .. i) = i
  BY FS_Interval
<1>2. T \in SUBSET (1 .. i)
  OBVIOUS
<1>3. IsFiniteSet(T) /\ Cardinality(T) <= Cardinality(1 .. i)
  <2> HIDE DEF T
  <2> QED
    BY <1>1, <1>2, FS_Subset
<1>4. Cardinality(T) \in Nat
  <2> HIDE DEF T
  <2> QED
    BY <1>3, FS_CardinalityType
<1>5. (\A j \in 1 .. i : s[j] # Skip) => T = 1 .. i
  OBVIOUS
<1>6. Place(s, i) = Cardinality(T)
  BY DEF Place
<1> HIDE DEF T
<1> QED
  BY <1>1, <1>3, <1>4, <1>5, <1>6

\* u counts the digits of the fraction one by one, each for its place.
Counts(u, int, s, d) ==
  /\ u \in [0 .. Len(s) -> Nat]
  /\ u[0] = int * Pow[d]
  /\ \A i \in 1 .. Len(s) :
        u[i] = IF s[i] = Skip THEN u[i - 1]
               ELSE u[i - 1] + s[i] * Pow[d - Place(s, i)]

LEMMA MeantCounts ==
  ASSUME NEW text, text.int \in Nat, text.frac \in Seq(Characters),
         NEW d \in Nat, Len(text.frac) <= d
  PROVE  \E u : Counts(u, text.int, text.frac, d)
                 /\ Meant(text, d) = u[Len(text.frac)]
<1> DEFINE s == text.frac
           n == Len(s)
           a == text.int * Pow[d]
           worth(i) == s[i] * Pow[d - Place(s, i)]
           step == [i \in 1 .. n |-> [v \in Nat |->
                      IF s[i] = Skip THEN v ELSE v + worth(i)]]
           U == CHOOSE w : w = [i \in 0 .. n |->
                  IF i = 0 THEN a
                  ELSE IF s[i] = Skip THEN w[i - 1] ELSE w[i - 1] + worth(i)]
<1>1. n \in Nat /\ a \in Nat
  <2>1. Pow[d] \in Nat
    BY PowIs
  <2> HIDE DEF U, step
  <2> QED
    BY <2>1
<1>2. ASSUME NEW i \in 1 .. n, s[i] # Skip PROVE worth(i) \in Nat
  <2>1. s[i] \in Nat /\ i \in Nat /\ i <= d
    BY <1>2 DEF Characters, Digits
  <2>2. d - Place(s, i) \in Nat
    BY <2>1, PlaceBounds
  <2>3. Pow[d - Place(s, i)] \in Nat
    BY <2>2, PowIs
  <2> QED
    BY <2>1, <2>3
<1>3. Meant(text, d) = U[n]
  BY Zenon DEF Meant
<1> HIDE DEF worth, s, n, a
<1>4. step \in [1 .. n -> [Nat -> Nat]]
  BY <1>2
<1>5. PICK u \in [0 .. n -> Nat] : Recursive(u, n, a, step)
  <2> HIDE DEF step
  <2> QED
    BY <1>1, <1>4, RecExists
<1>6. ASSUME NEW i \in 1 .. n
      PROVE  u[i] = IF s[i] = Skip THEN u[i - 1] ELSE u[i - 1] + worth(i)
  <2>1. i - 1 \in 0 .. n
    BY <1>1
  <2>2. u[i] = step[i][u[i - 1]]
    <3> HIDE DEF step
    <3> QED
      BY <1>5 DEF Recursive
  <2> QED
    BY <1>5, <2>1, <2>2
<1>7. u = [i \in 0 .. n |->
             IF i = 0 THEN a
             ELSE IF s[i] = Skip THEN u[i - 1] ELSE u[i - 1] + worth(i)]
  BY <1>1, <1>5, <1>6 DEF Recursive
<1>8. U = [i \in 0 .. n |->
             IF i = 0 THEN a
             ELSE IF s[i] = Skip THEN U[i - 1] ELSE U[i - 1] + worth(i)]
  BY <1>7, Zenon
<1> HIDE DEF U
<1>9. U[0] = a /\ \A i \in 1 .. n :
        U[i] = IF s[i] = Skip THEN U[i - 1] ELSE U[i - 1] + worth(i)
  BY <1>1, <1>8
<1>10. \A i \in 0 .. n : U[i] \in Nat
  <2> DEFINE S == {i \in Nat : i <= n => U[i] \in Nat}
  <2>1. 0 \in S
    BY <1>1, <1>9
  <2>2. ASSUME NEW i \in Nat, i \in S PROVE i + 1 \in S
    <3> SUFFICES ASSUME i + 1 <= n PROVE U[i + 1] \in Nat
      OBVIOUS
    <3>1. i + 1 \in 1 .. n /\ (i + 1) - 1 = i /\ U[i] \in Nat
      BY <1>1, <2>2
    <3>2. U[i + 1] = IF s[i + 1] = Skip THEN U[i] ELSE U[i] + worth(i + 1)
      BY <1>9, <3>1
    <3> QED
      BY <1>2, <3>1, <3>2
  <2>3. \A i \in Nat : i \in S
    <3> HIDE DEF S
    <3> QED
      BY <2>1, <2>2, SetInduction
  <2> QED
    BY <1>1, <2>3
<1>11. U \in [0 .. n -> Nat]
  BY <1>8, <1>10
<1>12. Counts(U, text.int, text.frac, d)
  BY <1>9, <1>11 DEF Counts, s, n, a, worth
<1> QED
  BY <1>3, <1>12 DEF n, s

\* Arithmetic of one character: r is read so far, m is meant so far, q is
\* worth a digit of the padded number and w one of the text.
LEMMA SkipStep ==
  ASSUME NEW a \in Nat, NEW r \in Nat, NEW m \in Nat, NEW q \in Nat,
         a + r * (10 * q) <= m
  PROVE  a + r * q <= m
<1>1. r * (10 * q) = 10 * (r * q) /\ r * q \in Nat
  OBVIOUS
<1> DEFINE x == r * q
<1>2. x \in Nat /\ a + 10 * x <= m
  BY <1>1
<1> HIDE DEF x
<1>3. a + x <= m
  BY <1>2
<1> QED
  BY <1>3 DEF x

LEMMA DigitStep ==
  ASSUME NEW a \in Nat, NEW r \in Nat, NEW m \in Nat, NEW q \in Nat,
         NEW c \in Nat, NEW w \in Nat, q <= w, a + r * (10 * q) <= m
  PROVE  /\ a + (10 * r + c) * q <= m + c * w
         /\ a + r * (10 * q) = m /\ q = w =>
               a + (10 * r + c) * q = m + c * w
<1> DEFINE x == r * (10 * q)
           y == c * q
           z == c * w
<1>1. (10 * r + c) * q = x + y
  OBVIOUS
<1>2. x \in Nat /\ y \in Nat /\ z \in Nat /\ y <= z /\ (q = w => y = z)
  OBVIOUS
<1>3. a + x <= m
  OBVIOUS
<1> HIDE DEF x, y, z
<1>4. a + (x + y) <= m + z /\ (a + x = m /\ y = z => a + (x + y) = m + z)
  BY <1>2, <1>3
<1>5. a + (10 * r + c) * q <= m + z
  BY <1>1, <1>4
<1>6. a + x = m /\ q = w => a + (10 * r + c) * q = m + z
  BY <1>1, <1>2, <1>4
<1> QED
  BY <1>5, <1>6 DEF x, z

\* The parser's number is never more than what is meant, and is what is meant
\* if no character of the fraction is skipped.
LEMMA ReadIsMeant ==
  ASSUME NEW s \in Seq(Characters), NEW int \in Nat, NEW d \in Nat,
         Len(s) <= d, NEW r, NEW m, Reads(r, s), Counts(m, int, s, d)
  PROVE  LET v == int * Pow[d] + r[Len(s)] * Pow[d - Len(s)]
         IN  /\ v <= m[Len(s)]
             /\ (\A i \in 1 .. Len(s) : s[i] # Skip) => v = m[Len(s)]
<1> DEFINE n == Len(s)
           a == int * Pow[d]
           plain == \A i \in 1 .. n : s[i] # Skip
           S == {i \in Nat : i <= n =>
                  /\ a + r[i] * Pow[d - i] <= m[i]
                  /\ plain => a + r[i] * Pow[d - i] = m[i]}
<1>1. Pow[d] \in Nat
  BY PowIs
<1>2. /\ n \in Nat /\ n <= d /\ a \in Nat
      /\ r \in [0 .. n -> Nat] /\ m \in [0 .. n -> Nat]
  <2>1. a \in Nat
    BY <1>1
  <2> HIDE DEF S, plain, a
  <2> QED
    BY <2>1 DEF Reads, Counts
<1>3. /\ r[0] = 0 /\ m[0] = a
      /\ \A i \in 1 .. n :
           /\ r[i] = IF s[i] = Skip THEN r[i - 1] ELSE 10 * r[i - 1] + s[i]
           /\ m[i] = IF s[i] = Skip THEN m[i - 1]
                     ELSE m[i - 1] + s[i] * Pow[d - Place(s, i)]
  <2> HIDE DEF S, plain
  <2> QED
    BY DEF Reads, Counts
<1>4. \A i \in 1 .. n : s[i] # Skip => s[i] \in Nat
  BY DEF Characters, Digits
<1> HIDE DEF n, a
<1>5. 0 \in S
  <2>1. a + r[0] * Pow[d - 0] = m[0] /\ m[0] \in Nat
    BY <1>1, <1>2, <1>3
  <2> QED
    BY <1>2, <2>1
<1>6. ASSUME NEW j \in Nat, j \in S, j + 1 <= n, NEW i, i = j + 1
      PROVE  /\ a + r[i] * Pow[d - i] <= m[i]
             /\ plain => a + r[i] * Pow[d - i] = m[i]
  <2> DEFINE q == Pow[d - i]
             rj == r[j]
             mj == m[j]
  <2>1. /\ i \in 1 .. n /\ i - 1 = j /\ j \in 0 .. n
        /\ d - i \in Nat /\ d - j \in Nat \ {0} /\ (d - j) - 1 = d - i
    BY <1>2, <1>6
  <2>2. Pow[d - j] = 10 * q /\ q \in Nat
    BY <2>1, PowIs
  <2>3. rj \in Nat /\ mj \in Nat
    BY <1>2, <2>1
  <2>4. /\ a + rj * (10 * q) <= mj
        /\ plain => a + rj * (10 * q) = mj
    <3> HIDE DEF plain
    <3>1. j <= n
      BY <2>1
    <3> QED
      BY <1>6, <2>2, <3>1
  <2>5. CASE s[i] = Skip
    <3>1. ~ plain
      BY <2>1, <2>5
    <3>2. r[i] = rj /\ m[i] = mj
      BY <1>3, <2>1, <2>5
    <3> HIDE DEF q, rj, mj, plain
    <3>3. a + rj * q <= mj
      BY <1>2, <2>2, <2>3, <2>4, SkipStep
    <3> QED
      BY <3>1, <3>2, <3>3 DEF q
  <2>6. CASE s[i] # Skip
    <3> DEFINE w == Pow[d - Place(s, i)]
               c == s[i]
    <3>1. Place(s, i) \in 0 .. i /\ (plain => Place(s, i) = i)
      <4>1. i \in Nat /\ 1 .. i \subseteq 1 .. n
        BY <1>2, <2>1
      <4> QED
        BY <4>1, PlaceBounds
    <3>2. w \in Nat /\ q <= w /\ (plain => q = w)
      <4>1. d - Place(s, i) \in Nat /\ d - i <= d - Place(s, i)
        BY <2>1, <3>1
      <4> QED
        BY <2>1, <3>1, <4>1, PowGrows, PowIs
    <3>3. c \in Nat /\ r[i] = 10 * rj + c /\ m[i] = mj + c * w
      BY <1>3, <1>4, <2>1, <2>6
    <3> HIDE DEF q, rj, mj, w, c, plain
    <3>4. /\ a + (10 * rj + c) * q <= mj + c * w
          /\ a + rj * (10 * q) = mj /\ q = w =>
                a + (10 * rj + c) * q = mj + c * w
      <4>1. /\ a \in Nat /\ rj \in Nat /\ mj \in Nat /\ q \in Nat
            /\ c \in Nat /\ w \in Nat /\ q <= w
            /\ a + rj * (10 * q) <= mj
        BY <1>2, <2>2, <2>3, <2>4, <3>2, <3>3
      <4> QED
        BY <4>1, DigitStep, SMTT(30)
    <3>5. a + r[i] * q <= m[i] /\ (plain => a + r[i] * q = m[i])
      BY <2>4, <3>2, <3>3, <3>4
    <3> QED
      BY <3>5 DEF q
  <2> QED
    BY <2>5, <2>6
<1>7. \A j \in Nat : j \in S => j + 1 \in S
  <2> HIDE DEF plain
  <2> QED
    BY <1>6
<1>8. n \in S
  <2> HIDE DEF S
  <2> QED
    BY <1>2, <1>5, <1>7, SetInduction
<1> QED
  BY <1>2, <1>8 DEF n, a

LEMMA PaddedIsMeant ==
  ASSUME NEW text, text.int \in Nat, text.frac \in Seq(Characters),
         NEW d \in Nat, Len(text.frac) <= d
  PROVE  /\ Padded(text.frac, d) \in Nat /\ Meant(text, d) \in Nat
         /\ text.int * Pow[d] + Padded(text.frac, d) <= Meant(text, d)
         /\ (\A i \in DOMAIN text.frac : text.frac[i] # Skip) =>
               text.int * Pow[d] + Padded(text.frac, d) = Meant(text, d)
<1> DEFINE n == Len(text.frac)
<1>1. PICK r : Reads(r, text.frac) /\ Number(text.frac) = r[n]
  BY NumberReads
<1>2. PICK m : Counts(m, text.int, text.frac, d) /\ Meant(text, d) = m[n]
  BY MeantCounts
<1>3. /\ n \in Nat /\ DOMAIN text.frac = 1 .. n
      /\ r[n] \in Nat /\ m[n] \in Nat
  BY <1>1, <1>2 DEF Reads, Counts
<1>4. Padded(text.frac, d) = r[n] * Pow[d - n]
  BY <1>1 DEF Padded
<1>5. Pow[d - n] \in Nat
  <2>1. d - n \in Nat
    BY <1>3
  <2> QED
    BY <2>1, PowIs
<1>6. Padded(text.frac, d) \in Nat
  BY <1>3, <1>4, <1>5
<1>7. LET v == text.int * Pow[d] + r[n] * Pow[d - n]
      IN  /\ v <= m[n]
          /\ (\A i \in 1 .. n : text.frac[i] # Skip) => v = m[n]
  BY <1>1, <1>2, ReadIsMeant
<1> QED
  BY <1>2, <1>3, <1>4, <1>6, <1>7

\* What comes out of the parser.
LEMMA ParseIsMeant ==
  ASSUME NEW text \in DecimalTexts, NEW d \in Nat
  PROVE  /\ Parse(text, d) \in Values \cup {Error}
         /\ Pow[d] < Modulus /\ WellFormed(text, d) =>
              /\ Parse(text, d) # Error => Parse(text, d) <= Meant(text, d)
              /\ (\A i \in DOMAIN text.frac : text.frac[i] # Skip) =>
                    Parse(text, d) = IF Meant(text, d) < Modulus
                                     THEN Meant(text, d) ELSE Error
<1> DEFINE a == text.int
           x == Multiplier(d)
           y == Padded(text.frac, d)
           m == Meant(text, d)
<1>1. CASE ~ WellFormed(text, d)
  BY <1>1 DEF Parse
<1>2. CASE WellFormed(text, d)
  <2>1. /\ a \in Nat /\ text.frac \in Seq(Characters) /\ Len(text.frac) <= d
    BY <1>2 DEF WellFormed, DecimalTexts, Characters
  <2>2. /\ y \in Nat /\ m \in Nat
        /\ a * Pow[d] + y <= m
        /\ (\A i \in DOMAIN text.frac : text.frac[i] # Skip) =>
              a * Pow[d] + y = m
    BY <2>1, PaddedIsMeant
  <2>3. Pow[d] \in Nat \ {0} /\ Modulus \in Nat \ {0} /\ Error \notin Nat
    BY PowPositive, AmountAssumption
  <2>4. x \in Nat /\ (Pow[d] < Modulus => x = Pow[d])
    <3> DEFINE q == Pow[d]
    <3> HIDE DEF q
    <3>1. \A b \in Nat, c \in Nat \ {0} : b % c \in Nat /\ (b < c => b % c = b)
      OBVIOUS
    <3> QED
      BY <2>3, <3>1 DEF Multiplier, q
  <2>5. Parse(text, d) = IF a < Modulus /\ y < Modulus /\ a * x + y < Modulus
                         THEN a * x + y ELSE Error
    BY <1>2 DEF Parse
  <2> HIDE DEF a, x, y, m
  <2>6. a * x + y \in Nat
    BY <2>1, <2>2, <2>4
  <2>7. Parse(text, d) \in Values \cup {Error}
    BY <2>3, <2>5, <2>6 DEF Values
  <2>8. ASSUME Pow[d] < Modulus
        PROVE  /\ Parse(text, d) # Error => Parse(text, d) <= m
               /\ a * Pow[d] + y = m =>
                     Parse(text, d) = IF m < Modulus THEN m ELSE Error
    <3> DEFINE v == a * x + y
    <3>1. v \in Nat /\ v <= m /\ v = a * Pow[d] + y
      BY <2>2, <2>4, <2>6, <2>8
    <3>2. a <= a * Pow[d]
      BY <2>1, <2>3
    <3>3. a * Pow[d] \in Nat
      BY <2>1, <2>3
    <3>4. a <= v /\ y <= v
      BY <2>1, <2>2, <3>1, <3>2, <3>3
    <3>5. Parse(text, d) = IF a < Modulus /\ y < Modulus /\ v < Modulus
                           THEN v ELSE Error
      BY <2>5
    <3> HIDE DEF v
    <3>6. Parse(text, d) = IF v < Modulus THEN v ELSE Error
      BY <2>1, <2>2, <2>3, <3>1, <3>4, <3>5
    <3> QED
      BY <2>2, <3>1, <3>6
  <2> QED
    BY <2>2, <2>7, <2>8 DEF m
<1> QED
  BY <1>1, <1>2

-----------------------------------------------------------------------------
(* What the screen shows.                                                  *)

LEMMA Division ==
  ASSUME NEW a \in Nat, NEW b \in Nat \ {0}
  PROVE  /\ a \div b \in Nat /\ a % b \in 0 .. b - 1
         /\ a = (a \div b) * b + (a % b)
OBVIOUS

LEMMA QuotientBelow ==
  ASSUME NEW a \in Nat, NEW b \in Nat \ {0}, NEW c \in Nat, a < c * b
  PROVE  a \div b < c
<1> DEFINE x == a \div b
<1>1. x \in Nat /\ x * b <= a
  BY Division
<1> HIDE DEF x
<1>2. ASSUME c <= x PROVE FALSE
  <2>1. c * b <= x * b
    BY <1>1, <1>2
  <2>2. c * b \in Nat /\ x * b \in Nat
    BY <1>1
  <2> QED
    BY <1>1, <2>1, <2>2
<1> QED
  BY <1>1, <1>2 DEF x

\* Division by ten times b is one by b and one by ten.
LEMMA DivideTwice ==
  ASSUME NEW a \in Nat, NEW b \in Nat \ {0}
  PROVE  (a \div b) \div 10 = a \div (10 * b)
<1> DEFINE x == a \div b
           y == x \div 10
           z == a \div (10 * b)
<1>1. x \in Nat /\ x * b <= a /\ a < x * b + b
  BY Division
<1>2. y \in Nat /\ y * 10 <= x /\ x < y * 10 + 10
  BY <1>1
<1>3. 10 * b \in Nat \ {0}
  OBVIOUS
<1>4. z \in Nat /\ z * (10 * b) <= a /\ a < z * (10 * b) + 10 * b
  <2> DEFINE c == 10 * b
  <2>1. c \in Nat \ {0}
    BY <1>3
  <2> HIDE DEF c
  <2>2. /\ a \div c \in Nat /\ (a \div c) * c <= a
        /\ a < (a \div c) * c + c
    BY <2>1, Division
  <2> QED
    BY <2>2 DEF c
<1> HIDE DEF x, y, z
<1>5. y * (10 * b) <= a
  <2>1. (y * 10) * b <= x * b
    BY <1>1, <1>2
  <2>2. (y * 10) * b = y * (10 * b) /\ x * b \in Nat /\ y * (10 * b) \in Nat
    BY <1>1, <1>2
  <2> QED
    BY <1>1, <2>1, <2>2
<1>6. a < y * (10 * b) + 10 * b
  <2>1. (x + 1) * b <= (y * 10 + 10) * b
    BY <1>1, <1>2
  <2>2. (y * 10 + 10) * b = y * (10 * b) + 10 * b /\ (x + 1) * b = x * b + b
    BY <1>1, <1>2
  <2>3. y * (10 * b) \in Nat /\ x * b \in Nat
    BY <1>1, <1>2
  <2> QED
    BY <1>1, <2>1, <2>2, <2>3
<1>7. \A m, n, c \in Nat :
         m * c <= a /\ a < n * c + c => m <= n
  <2> SUFFICES ASSUME NEW m \in Nat, NEW n \in Nat, NEW c \in Nat,
                      m * c <= a, a < n * c + c, n + 1 <= m
               PROVE  FALSE
    OBVIOUS
  <2>1. (n + 1) * c <= m * c /\ (n + 1) * c = n * c + c
    OBVIOUS
  <2>2. n * c \in Nat /\ m * c \in Nat
    OBVIOUS
  <2> QED
    BY <2>1, <2>2
<1>8. y <= z /\ z <= y
  BY <1>2, <1>3, <1>4, <1>5, <1>6, <1>7
<1> QED
  BY <1>2, <1>4, <1>8 DEF x, y, z

\* A number below 10^k, written with k digits behind the point, means what
\* it is: each prefix of its digits means the number without the rest.
LEMMA DigitsCount ==
  ASSUME NEW int \in Nat, NEW d \in Nat, NEW k \in 0 .. d, NEW n \in Nat,
         n < Pow[k], NEW m, Counts(m, int, Fraction(n, k), d)
  PROVE  m[k] = int * Pow[d] + n * Pow[d - k]
<1> DEFINE s == Fraction(n, k)
           a == int * Pow[d]
           S == {i \in Nat : i <= k =>
                   m[i] = a + (n \div Pow[k - i]) * Pow[d - i]}
<1>1. /\ k \in Nat /\ k <= d /\ Len(s) = k /\ a \in Nat
      /\ \A i \in 1 .. k : s[i] = (n \div Pow[k - i]) % 10
  <2>1. Pow[d] \in Nat
    BY PowIs
  <2> QED
    BY <2>1 DEF Fraction
<1>2. \A i \in 1 .. k : s[i] \in Nat /\ s[i] # Skip
  <2>1. ASSUME NEW i \in 1 .. k PROVE s[i] \in Nat
    <3>1. n \div Pow[k - i] \in Nat
      <4>1. k - i \in Nat
        OBVIOUS
      <4> QED
        BY <4>1, PowPositive, Division
    <3> QED
      BY <1>1, <3>1
  <2> HIDE DEF s
  <2> QED
    BY <2>1, AmountAssumption
<1>3. /\ m[0] = a
      /\ \A i \in 1 .. k : m[i] = m[i - 1] + s[i] * Pow[d - i]
  <2>1. \A i \in 1 .. k : Place(s, i) = i
    <3> HIDE DEF s
    <3> QED
      BY <1>1, <1>2, PlaceBounds
  <2> HIDE DEF S
  <2> QED
    BY <1>1, <1>2, <2>1 DEF Counts
<1> HIDE DEF s, a
<1>4. 0 \in S
  <2>1. n \div Pow[k] = 0
    <3>1. Pow[k] \in Nat \ {0} /\ n < 1 * Pow[k]
      BY <1>1, PowPositive
    <3>2. n \div Pow[k] \in Nat /\ n \div Pow[k] < 1
      BY <3>1, Division, QuotientBelow
    <3> QED
      BY <3>2
  <2>2. Pow[d] \in Nat /\ k - 0 = k /\ d - 0 = d
    BY <1>1, PowIs
  <2>3. m[0] = a + (n \div Pow[k - 0]) * Pow[d - 0]
    BY <1>1, <1>3, <2>1, <2>2
  <2> QED
    BY <2>3
<1>5. ASSUME NEW j \in Nat, j \in S, j + 1 <= k, NEW i, i = j + 1
      PROVE  m[i] = a + (n \div Pow[k - i]) * Pow[d - i]
  <2> DEFINE x == n \div Pow[k - i]
             y == n \div Pow[k - j]
             q == Pow[d - i]
  <2>1. /\ i \in 1 .. k /\ i - 1 = j
        /\ k - i \in Nat /\ k - j \in Nat \ {0} /\ (k - j) - 1 = k - i
        /\ d - i \in Nat /\ d - j \in Nat \ {0} /\ (d - j) - 1 = d - i
    BY <1>1, <1>5
  <2>2. Pow[k - j] = 10 * Pow[k - i] /\ Pow[d - j] = 10 * q
    BY <2>1, PowIs
  <2>3. x \in Nat /\ q \in Nat /\ Pow[k - i] \in Nat \ {0}
    BY <2>1, PowPositive, Division
  <2>4. y = x \div 10
    BY <2>2, <2>3, DivideTwice
  <2>5. m[j] = a + y * (10 * q)
    <3>1. j <= k
      BY <2>1
    <3> QED
      BY <1>5, <2>2, <3>1
  <2>6. m[i] = m[j] + (x % 10) * q
    BY <1>1, <1>3, <2>1 DEF s
  <2> HIDE DEF x, y, q
  <2> DEFINE c == x % 10
  <2>7. y \in Nat /\ c \in Nat /\ x = 10 * y + c
    BY <2>3, <2>4
  <2> HIDE DEF c
  <2>8. (10 * y + c) * q = y * (10 * q) + c * q
    BY <2>3, <2>7
  <2>9. y * (10 * q) \in Nat /\ c * q \in Nat
    BY <2>3, <2>7
  <2>10. m[i] = a + x * q
    BY <1>1, <2>5, <2>6, <2>7, <2>8, <2>9 DEF c
  <2> QED
    BY <2>10 DEF x, q
<1>6. \A j \in Nat : j \in S => j + 1 \in S
  BY <1>5
<1>7. k \in S
  <2> HIDE DEF S
  <2> QED
    BY <1>1, <1>4, <1>6, SetInduction
<1>8. m[k] = a + (n \div Pow[k - k]) * Pow[d - k]
  BY <1>1, <1>7
<1>9. n \div Pow[k - k] = n
  <2>1. k - k = 0 /\ Pow[0] = 1
    BY <1>1, PowIs
  <2> QED
    BY <2>1
<1> QED
  BY <1>8, <1>9 DEF a

\* An amount on the screen means the amount, cut off after k digits.
LEMMA FormatReads ==
  ASSUME NEW wei \in Nat, NEW d \in Nat, NEW k \in 1 .. d
  PROVE  /\ Meant(Format(wei, d, k), d) \in Nat
         /\ ReadsAs(Format(wei, d, k), wei, d, k)
<1> DEFINE p == Pow[d]
           u == Pow[d - k]
           h == wei \div p
           r == wei % p
           n == r \div u
           text == Format(wei, d, k)
<1>1. p \in Nat \ {0} /\ u \in Nat \ {0} /\ p = Pow[k] * u
  <2>1. d - k \in Nat /\ k \in Nat /\ k + (d - k) = d
    OBVIOUS
  <2>2. Pow[k + (d - k)] = Pow[k] * Pow[d - k]
    BY <2>1, PowAdds
  <2> QED
    BY <2>1, <2>2, PowPositive
<1>2. text.int = h /\ text.frac = Fraction(n, k)
  BY DEF Format
<1> HIDE DEF text, p, u
<1>3. h \in Nat /\ r \in Nat /\ r < p /\ wei = h * p + r
  <2> HIDE DEF n
  <2>1. h \in Nat /\ r \in 0 .. p - 1 /\ wei = h * p + r
    BY <1>1, Division
  <2> HIDE DEF h, r
  <2> QED
    BY <1>1, <2>1
<1> HIDE DEF h, r
<1>4. /\ n \in Nat /\ n < Pow[k]
      /\ n * u <= r /\ r < n * u + u
  <2>1. Pow[k] \in Nat
    BY PowIs
  <2>2. n < Pow[k]
    BY <1>1, <1>3, <2>1, QuotientBelow
  <2> QED
    BY <1>1, <1>3, <2>2, Division
<1> HIDE DEF n
<1>5. Fraction(n, k) \in Seq(Characters) /\ Len(Fraction(n, k)) = k
  <2>1. ASSUME NEW i \in 1 .. k PROVE (n \div Pow[k - i]) % 10 \in Characters
    <3>1. k - i \in Nat
      OBVIOUS
    <3>2. n \div Pow[k - i] \in Nat
      BY <1>4, <3>1, PowPositive, Division
    <3> QED
      BY <3>2 DEF Characters, Digits
  <2> QED
    BY <2>1 DEF Fraction
<1>6. PICK m : Counts(m, text.int, text.frac, d)
               /\ Meant(text, d) = m[Len(text.frac)]
  <2>1. Len(text.frac) <= d
    BY <1>2, <1>5
  <2> QED
    BY <1>2, <1>3, <1>5, <2>1, MeantCounts
<1>7. Meant(text, d) = h * p + n * u
  <2>1. k \in 0 .. d
    OBVIOUS
  <2>2. Counts(m, h, Fraction(n, k), d) /\ Meant(text, d) = m[k]
    BY <1>2, <1>5, <1>6
  <2> QED
    BY <1>3, <1>4, <2>1, <2>2, DigitsCount DEF p, u
<1>8. h * p \in Nat /\ n * u \in Nat
  BY <1>1, <1>3, <1>4
<1>9. Meant(text, d) \in Nat /\ Meant(text, d) <= wei /\ wei < Meant(text, d) + u
  BY <1>1, <1>3, <1>4, <1>7, <1>8
<1> QED
  BY <1>9 DEF ReadsAs, text, u

-----------------------------------------------------------------------------
(* The command.                                                            *)

\* The value is what the parser made of the text, the fee comes with the
\* estimate, and the screen shows both.
Carried ==
  /\ value = None \/ value = Parse(typed, decimals)
  /\ at # "typed" /\ value = None => Parse(typed, decimals) = Error
  /\ at \in {"estimated", "shown", "approved"} => fee # None
  /\ fee # None => value # None
  /\ at \in {"shown", "approved"} =>
       shown = [amount |-> FormatEth(value), raw |-> value,
                fee |-> FormatGwei(fee),
                total |-> FormatEth(Total(value, Gas, fee))]

IInv == TypeInv /\ Carried

LEMMA InitInv == Init => IInv
BY SummaryAssumption DEF Init, IInv, TypeInv, Carried

LEMMA NextInv == IInv /\ [Next]_vars => IInv'
<1> SUFFICES ASSUME TypeInv, Carried, [Next]_vars PROVE TypeInv' /\ Carried'
  BY DEF IInv
<1> USE SummaryAssumption DEF TypeInv
<1>1. CASE ParseFails
  BY <1>1 DEF ParseFails, Carried
<1>2. CASE ParseOk
  <2>1. typed \in DecimalTexts /\ decimals \in Nat
    OBVIOUS
  <2>2. Parse(typed, decimals) \in Values
    BY <1>2, <2>1, ParseIsMeant DEF ParseOk
  <2>3. Values \subseteq Nat
    BY AmountAssumption DEF Values
  <2> QED
    BY <1>2, <2>2, <2>3 DEF ParseOk, Carried
<1>3. ASSUME NEW f \in 0 .. MaxFee, EstimateFees(f) PROVE TypeInv' /\ Carried'
  BY <1>3 DEF EstimateFees, Carried
<1>4. CASE Show
  BY <1>4 DEF Show, Carried, Gas
<1>5. ASSUME NEW answer, Answer(answer) PROVE TypeInv' /\ Carried'
  BY <1>5 DEF Answer, Carried, Gas
<1>6. CASE UNCHANGED vars
  BY <1>6 DEF vars, Carried, Gas
<1> QED
  BY <1>1, <1>2, <1>3, <1>4, <1>5, <1>6 DEF Next

\* Every reachable state of the command is well typed: an amount is one of
\* U256, and there is one exactly from the parser on.
THEOREM SummaryTypes == Spec => []TypeInv
<1>1. IInv => TypeInv
  BY DEF IInv
<1> QED
  BY InitInv, NextInv, <1>1, PTL DEF Spec

\* An amount that is taken is never more than what was typed, exactly that
\* if no "_" stands behind the point, and none that fits U256 is refused
\* (amount.rs, try_from_decimal_str).
THEOREM AmountIsTyped == Spec => []ParsedIsTyped
<1>1. IInv => ParsedIsTyped
  <2> SUFFICES ASSUME IInv, at # "typed", Fits, WellFormed(typed, decimals)
               PROVE  /\ value # None => value <= Meant(typed, decimals)
                      /\ (\A i \in DOMAIN typed.frac : typed.frac[i] # Skip) =>
                           value = IF Meant(typed, decimals) < Modulus
                                   THEN Meant(typed, decimals) ELSE None
    BY DEF ParsedIsTyped
  <2> DEFINE m == Meant(typed, decimals)
             x == Parse(typed, decimals)
  <2>1. typed \in DecimalTexts /\ decimals \in Nat
    BY SummaryAssumption DEF IInv, TypeInv
  <2>2. /\ x # Error => x <= m
        /\ (\A i \in DOMAIN typed.frac : typed.frac[i] # Skip) =>
              x = IF m < Modulus THEN m ELSE Error
    BY <2>1, ParseIsMeant DEF Fits
  <2>3. /\ value # None => value = x /\ x # Error
        /\ value = None => x = Error
    BY AmountAssumption, SummaryAssumption
       DEF IInv, TypeInv, Carried, Values
  <2>4. m \in Nat /\ Error \notin Nat
    BY <2>1, PaddedIsMeant, AmountAssumption
       DEF WellFormed, DecimalTexts, Characters
  <2> HIDE DEF m, x
  <2> QED
    BY <2>2, <2>3, <2>4 DEF m
<1> QED
  BY InitInv, NextInv, <1>1, PTL DEF Spec

\* The amount and the fee of a summary are the true ones, cut off after the
\* digits that are shown, and the raw amount is exact (pure.rs,
\* format_send_summary).
THEOREM ShowsTheTruth == Spec => []ShownIsRounded
<1>1. IInv => ShownIsRounded
  <2> SUFFICES ASSUME IInv, at \in {"shown", "approved"}
               PROVE  /\ ReadsAs(shown.amount, value, EthDecimals, EthDigits)
                      /\ ReadsAs(shown.fee, fee, GweiDecimals, GweiDigits)
                      /\ shown.raw = value
    BY DEF ShownIsRounded
  <2>1. value \in Nat /\ fee \in Nat
    BY AmountAssumption, SummaryAssumption DEF IInv, TypeInv, Carried, Values
  <2>2. /\ shown.amount = Format(value, EthDecimals, EthDigits)
        /\ shown.fee = Format(fee, GweiDecimals, GweiDigits)
        /\ shown.raw = value
    BY DEF IInv, Carried, FormatEth, FormatGwei
  <2>3. /\ EthDecimals \in Nat /\ EthDigits \in 1 .. EthDecimals
        /\ GweiDecimals \in Nat /\ GweiDigits \in 1 .. GweiDecimals
    BY SummaryAssumption
  <2> QED
    BY <2>1, <2>2, <2>3, FormatReads
<1> QED
  BY InitInv, NextInv, <1>1, PTL DEF Spec

\* An ETH transfer that is approved costs less than one displayed unit more
\* than the total that was shown, while amount and gas fit U256 together
\* (commands.rs, P0-9).
THEOREM CostIsApproved == Spec => []ApprovedIsCovered
<1>1. IInv => ApprovedIsCovered
  <2> SUFFICES ASSUME IInv, at = "approved", kind = "eth",
                      value + GasLimit * fee < Modulus
               PROVE  value + GasLimit * fee
                        < Meant(shown.total, EthDecimals)
                            + Pow[EthDecimals - EthDigits]
    BY DEF ApprovedIsCovered
  <2> DEFINE g == GasLimit * fee
             cost == value + g
  <2>1. value \in Nat /\ fee \in Nat /\ GasLimit \in Nat
    BY AmountAssumption, SummaryAssumption DEF IInv, TypeInv, Carried, Values
  <2>2. g \in Nat
    BY <2>1
  <2>3. /\ cost \in Nat /\ g < Modulus /\ cost < Modulus
        /\ Modulus \in Nat \ {0}
    BY <2>1, <2>2, AmountAssumption
  <2>4. Total(value, GasLimit, fee) = cost
    <3>1. \A b \in Nat, c \in Nat \ {0} : b < c => b % c = b
      OBVIOUS
    <3>2. Total(value, GasLimit, fee) = (value + (g % Modulus)) % Modulus
      BY DEF Total
    <3> HIDE DEF g
    <3> QED
      BY <2>1, <2>2, <2>3, <3>1, <3>2
  <2>5. shown.total = Format(cost, EthDecimals, EthDigits)
    BY <2>4 DEF IInv, Carried, FormatEth, Gas
  <2>6. EthDecimals \in Nat /\ EthDigits \in 1 .. EthDecimals
    BY SummaryAssumption
  <2> HIDE DEF cost
  <2>7. cost < Meant(shown.total, EthDecimals) + Pow[EthDecimals - EthDigits]
    BY <2>3, <2>5, <2>6, FormatReads DEF ReadsAs
  <2> QED
    BY <2>7 DEF cost
<1> QED
  BY InitInv, NextInv, <1>1, PTL DEF Spec

=============================================================================
