------------------------ MODULE SessionManagerProofs ------------------------
(***************************************************************************)
(* Theorems about SessionManager for any kinds, labels, files and bounds.  *)
(* Lines are picked and branches are climbed by recursive functions, so    *)
(* the first sections are about them: induction on the naturals, and that  *)
(* such a function is defined by its equations.  StoreInv is the invariant *)
(* with crashes, CleanInv what it gains when none has happened, TiedInv    *)
(* what it gains again when nobody has set a bookmark.  The last section   *)
(* takes them over for the sessions of MCSessionScenarios.                 *)
(***************************************************************************)
EXTENDS MCSessionScenarios, FiniteSetTheorems, SequenceTheorems, TLAPS

----------------------------------------------------------------------------
(* Induction *)

\* Induction on the naturals, for a set: were k not in T, adding one would map the elements
\* of T up to k one to one into those that are not 0, which are fewer.
LEMMA Induct ==
  ASSUME NEW T, 0 \in T, \A n \in Nat : n \in T => n + 1 \in T
  PROVE  \A n \in Nat : n \in T
<1> SUFFICES ASSUME NEW k \in Nat, k \notin T PROVE FALSE
  OBVIOUS
<1> DEFINE S == {n \in 0 .. k : n \in T}
           f == [n \in S |-> n + 1]
<1>1. IsFiniteSet(S) /\ 0 \in S
  <2>1. IsFiniteSet(0 .. k) /\ S \in SUBSET (0 .. k)
    BY FS_Interval
  <2>2. IsFiniteSet(S)
    BY <2>1, FS_Subset
  <2> QED BY <2>2
<1>2. IsFiniteSet(S \ {0}) /\ Cardinality(S \ {0}) = Cardinality(S) - 1
  BY <1>1, FS_RemoveElement
<1>3. Cardinality(S) \in Nat
  BY <1>1, FS_CardinalityType
<1>4. f \in [S -> S \ {0}]
  OBVIOUS
<1>5. \E x, y \in S : x # y /\ f[x] = f[y]
  <2> HIDE DEF S, f
  <2> QED BY <1>1, <1>2, <1>3, <1>4, FS_PigeonHole
<1> QED BY <1>5

\* The same up to a bound.
LEMMA Upwards ==
  ASSUME NEW N \in Nat, NEW T, 0 \in T, \A n \in 0 .. N - 1 : n \in T => n + 1 \in T
  PROVE  \A n \in 0 .. N : n \in T
<1> DEFINE R == {n \in Nat : n <= N => n \in T}
<1>1. 0 \in R
  OBVIOUS
<1>2. ASSUME NEW n \in Nat, n \in R PROVE n + 1 \in R
  BY <1>2
<1>3. \A n \in Nat : n \in R
  <2> HIDE DEF R
  <2> QED BY <1>1, <1>2, Induct
<1> QED BY <1>3

\* A set of positions has a last one.
LEMMA HasMax ==
  ASSUME NEW n \in Nat, NEW S \in SUBSET (1 .. n), S # {}
  PROVE  Max(S) \in S /\ \A y \in S : Max(S) >= y
<1> DEFINE T == {k \in Nat : \A R \in SUBSET (1 .. k) : R # {} => \E x \in R : \A y \in R : x >= y}
<1>1. 0 \in T
  <2>1. \A R \in SUBSET (1 .. 0) : R = {}
    OBVIOUS
  <2> QED BY <2>1
<1>2. ASSUME NEW k \in Nat, k \in T PROVE k + 1 \in T
  <2> SUFFICES ASSUME NEW R \in SUBSET (1 .. k + 1), R # {} PROVE \E x \in R : \A y \in R : x >= y
    OBVIOUS
  <2>1. CASE k + 1 \in R
    BY <2>1
  <2>2. CASE k + 1 \notin R
    <3>1. R \in SUBSET (1 .. k)
      BY <2>2
    <3> QED BY <1>2, <3>1
  <2> QED BY <2>1, <2>2
<1>3. n \in T
  <2> HIDE DEF T
  <2> QED BY <1>1, <1>2, Induct
<1> QED BY <1>3 DEF Max

\* A sequence of values, each made of the one before it by the step of its number.
Steps(S) == [Nat -> [S -> S]]
Iterates(g, S, a, F, N) ==
  g \in [0 .. N -> S] /\ g[0] = a /\ \A i \in 1 .. N : g[i] = F[i][g[i - 1]]

\* There is one, whatever the steps.
LEMMA Recursion ==
  ASSUME NEW S, NEW a \in S, NEW F \in Steps(S), NEW N \in Nat
  PROVE  \E g : Iterates(g, S, a, F, N)
<1> DEFINE T == {n \in Nat : \E g : Iterates(g, S, a, F, n)}
<1>1. 0 \in T
  <2>1. Iterates([i \in 0 .. 0 |-> a], S, a, F, 0)
    BY DEF Iterates
  <2> QED BY <2>1
<1>2. ASSUME NEW n \in Nat, n \in T PROVE n + 1 \in T
  <2>1. PICK g : Iterates(g, S, a, F, n)
    BY <1>2
  <2> DEFINE h == [i \in 0 .. n + 1 |-> IF i <= n THEN g[i] ELSE F[i][g[i - 1]]]
  <2>2. F[n + 1][g[n]] \in S
    BY <2>1 DEF Steps, Iterates
  <2>3. Iterates(h, S, a, F, n + 1)
    BY <2>1, <2>2 DEF Iterates
  <2> QED BY <2>3
<1>3. N \in T
  <2> HIDE DEF T
  <2> QED BY <1>1, <1>2, Induct
<1> QED BY <1>3

----------------------------------------------------------------------------
(* The lines of some kinds *)

\* One line, if it is of these kinds.
If(l, kinds) == IF l.kind \in kinds THEN <<l>> ELSE <<>>

\* What OfKinds finds in the first lines.
IsFirst(g, lines, kinds) ==
  g = [n \in 0 .. Len(lines) |-> IF n = 0 THEN <<>> ELSE g[n - 1] \o If(lines[n], kinds)]
First(lines, kinds) == CHOOSE g : IsFirst(g, lines, kinds)

\* There is such a function, of sequences of the same elements.
LEMMA FirstIs ==
  ASSUME NEW X, NEW lines \in Seq(X), NEW kinds
  PROVE  /\ First(lines, kinds) \in [0 .. Len(lines) -> Seq(X)]
         /\ First(lines, kinds)[0] = <<>>
         /\ \A n \in 1 .. Len(lines) :
              First(lines, kinds)[n] = First(lines, kinds)[n - 1] \o If(lines[n], kinds)
<1> DEFINE F == [n \in Nat |-> [p \in Seq(X) |-> IF n \in 1 .. Len(lines) THEN p \o If(lines[n], kinds) ELSE p]]
<1>1. Len(lines) \in Nat /\ \A n \in 1 .. Len(lines) : If(lines[n], kinds) \in Seq(X)
  BY DEF If
<1>2. F \in Steps(Seq(X))
  BY <1>1 DEF Steps
<1>3. <<>> \in Seq(X)
  OBVIOUS
<1>4. PICK g : Iterates(g, Seq(X), <<>>, F, Len(lines))
  <2> HIDE DEF F
  <2> QED BY <1>1, <1>2, <1>3, Recursion
<1>4a. /\ g \in [0 .. Len(lines) -> Seq(X)] /\ g[0] = <<>>
       /\ \A i \in 1 .. Len(lines) : g[i] = F[i][g[i - 1]]
  <2> HIDE DEF F
  <2> QED BY <1>4 DEF Iterates
<1>5. \A i \in 1 .. Len(lines) : g[i] = g[i - 1] \o If(lines[i], kinds)
  <2> SUFFICES ASSUME NEW i \in 1 .. Len(lines) PROVE g[i] = g[i - 1] \o If(lines[i], kinds)
    OBVIOUS
  <2>1. i \in Nat /\ g[i - 1] \in Seq(X) /\ g[i] = F[i][g[i - 1]]
    <3> HIDE DEF F
    <3>1. i \in Nat /\ i - 1 \in 0 .. Len(lines)
      BY <1>1
    <3>2. g[i - 1] \in Seq(X)
      BY <1>4a, <3>1, Zenon
    <3> QED BY <1>4a, <3>1, <3>2, Zenon
  <2> QED BY <2>1
<1>6. IsFirst(g, lines, kinds)
  <2> DEFINE r == [n \in 0 .. Len(lines) |-> IF n = 0 THEN <<>> ELSE g[n - 1] \o If(lines[n], kinds)]
  <2>1. \A n \in 0 .. Len(lines) : r[n] = g[n]
    <3> SUFFICES ASSUME NEW n \in 0 .. Len(lines) PROVE r[n] = g[n]
      OBVIOUS
    <3> HIDE DEF F
    <3>1. CASE n = 0
      BY <1>4a, <3>1
    <3>2. CASE n # 0
      <4>1. n \in 1 .. Len(lines)
        BY <1>1, <3>2
      <4> QED BY <1>1, <1>5, <3>2, <4>1
    <3> QED BY <3>1, <3>2
  <2>2. r \in [0 .. Len(lines) -> Seq(X)]
    <3>1. \A n \in 0 .. Len(lines) : r[n] \in Seq(X)
      <4> HIDE DEF r, F
      <4> QED BY <1>4a, <2>1
    <3> QED BY <3>1
  <2> HIDE DEF r, F
  <2>3. r = g
    BY <2>1, <2>2
  <2> QED BY <2>3 DEF r, IsFirst
<1>7. IsFirst(First(lines, kinds), lines, kinds)
  BY <1>6 DEF First
<1> DEFINE f == First(lines, kinds)
<1>8. /\ f = [n \in 0 .. Len(lines) |-> f[n]] /\ f[0] = <<>>
      /\ \A n \in 1 .. Len(lines) : f[n] = f[n - 1] \o If(lines[n], kinds)
  <2> HIDE DEF f, F
  <2>1. f = [n \in 0 .. Len(lines) |-> IF n = 0 THEN <<>> ELSE f[n - 1] \o If(lines[n], kinds)]
    BY <1>7 DEF IsFirst, f
  <2>2. \A n \in 0 .. Len(lines) : f[n] = IF n = 0 THEN <<>> ELSE f[n - 1] \o If(lines[n], kinds)
    BY <2>1
  <2>3. f = [n \in 0 .. Len(lines) |-> f[n]]
    BY <2>1
  <2>4. f[0] = <<>>
    BY <1>1, <2>2
  <2>5. \A n \in 1 .. Len(lines) : f[n] = f[n - 1] \o If(lines[n], kinds)
    <3> SUFFICES ASSUME NEW n \in 1 .. Len(lines) PROVE f[n] = f[n - 1] \o If(lines[n], kinds)
      OBVIOUS
    <3>1. n \in 0 .. Len(lines) /\ n # 0
      BY <1>1
    <3> QED BY <2>2, <3>1, Zenon
  <2> QED BY <2>3, <2>4, <2>5, Zenon
<1>9. \A n \in 0 .. Len(lines) : f[n] \in Seq(X)
  <2> DEFINE T == {n \in Nat : n <= Len(lines) => f[n] \in Seq(X)}
  <2> HIDE DEF f, F
  <2>1. 0 \in T
    BY <1>3, <1>8
  <2>2. ASSUME NEW n \in Nat, n \in T PROVE n + 1 \in T
    <3> SUFFICES ASSUME n + 1 <= Len(lines) PROVE f[n + 1] \in Seq(X)
      OBVIOUS
    <3>1. n + 1 \in 1 .. Len(lines) /\ f[n] \in Seq(X) /\ (n + 1) - 1 = n
      BY <1>1, <2>2
    <3>2. f[n + 1] = f[n] \o If(lines[n + 1], kinds)
      BY <1>8, <3>1
    <3> QED BY <1>1, <3>1, <3>2
  <2>3. \A n \in Nat : n \in T
    <3> HIDE DEF T
    <3> QED BY <2>1, <2>2, Induct
  <2> QED BY <2>3
<1> QED
  <2> HIDE DEF f, F
  <2>1. f \in [0 .. Len(lines) -> Seq(X)]
    BY <1>8, <1>9
  <2> QED BY <1>8, <2>1 DEF f

\* Sequences are joined one at a time.
LEMMA Joined ==
  ASSUME NEW X, NEW p \in Seq(X), NEW q \in Seq(X), NEW r \in Seq(X)
  PROVE  /\ p \o q \in Seq(X) /\ p \o (q \o r) = (p \o q) \o r
         /\ p \o <<>> = p /\ <<>> \o p = p
  BY ConcatAssociative, ConcatProperties, ConcatEmptySeq

\* The same, value by value.
LEMMA Firsts ==
  ASSUME NEW X, NEW lines \in Seq(X), NEW kinds
  PROVE  /\ Len(lines) \in Nat /\ DOMAIN lines = 1 .. Len(lines)
         /\ First(lines, kinds)[0] = <<>>
         /\ \A n \in 0 .. Len(lines) - 1 :
              First(lines, kinds)[n + 1] = First(lines, kinds)[n] \o If(lines[n + 1], kinds)
         /\ \A n \in 0 .. Len(lines) : First(lines, kinds)[n] \in Seq(X)
         /\ \A n \in 1 .. Len(lines) : lines[n] \in X /\ If(lines[n], kinds) \in Seq(X)
<1>1. Len(lines) \in Nat /\ DOMAIN lines = 1 .. Len(lines)
  OBVIOUS
<1>2. First(lines, kinds)[0] = <<>>
  BY FirstIs
<1>3. ASSUME NEW n \in 0 .. Len(lines) - 1
      PROVE  First(lines, kinds)[n + 1] = First(lines, kinds)[n] \o If(lines[n + 1], kinds)
  <2>1. n + 1 \in 1 .. Len(lines) /\ (n + 1) - 1 = n
    BY <1>1
  <2> QED BY <2>1, FirstIs
<1>4. \A n \in 0 .. Len(lines) : First(lines, kinds)[n] \in Seq(X)
  <2>1. First(lines, kinds) \in [0 .. Len(lines) -> Seq(X)]
    BY FirstIs
  <2> QED BY <2>1
<1>5. \A n \in 1 .. Len(lines) : lines[n] \in X /\ If(lines[n], kinds) \in Seq(X)
  <2> SUFFICES ASSUME NEW n \in 1 .. Len(lines)
               PROVE  lines[n] \in X /\ If(lines[n], kinds) \in Seq(X)
    OBVIOUS
  <2>1. lines[n] \in X
    BY ElementOfSeq
  <2> QED BY <2>1 DEF If
<1> QED BY <1>1, <1>2, <1>3, <1>4, <1>5

\* OfKinds is the last of what it finds, also when it finds all.
LEMMA KindsAre ==
  ASSUME NEW X, NEW lines \in Seq(X), NEW kinds
  PROVE  /\ OfKinds(lines, kinds) = First(lines, kinds)[Len(lines)]
         /\ OfKinds(lines, kinds) \in Seq(X)
<1> DEFINE f == First(lines, kinds)
           All == \A i \in DOMAIN lines : lines[i].kind \in kinds
           N == Len(lines)
<1>1. OfKinds(lines, kinds) = IF All THEN lines ELSE f[N]
  BY Zenon DEF OfKinds, First, IsFirst, If
<1>2. /\ N \in Nat /\ DOMAIN lines = 1 .. N /\ f[0] = <<>>
      /\ \A n \in 0 .. N - 1 : f[n + 1] = f[n] \o If(lines[n + 1], kinds)
      /\ \A n \in 0 .. N : f[n] \in Seq(X)
  BY Firsts, Zenon
<1>3. ASSUME All PROVE f[N] = lines
  <2> DEFINE P(n) == f[n] = SubSeq(lines, 1, n)
             T == {n \in 0 .. N : P(n)}
  <2> HIDE DEF f, N
  <2>1. P(0)
    BY <1>2, SubSeqEmpty
  <2>2. ASSUME NEW n \in 0 .. N - 1, P(n) PROVE P(n + 1)
    <3>1. n + 1 \in 1 .. N /\ (n + 1) - 1 = n
      BY <1>2
    <3>2. f[n + 1] = f[n] \o If(lines[n + 1], kinds)
      BY <1>2
    <3>3. If(lines[n + 1], kinds) = <<lines[n + 1]>>
      BY <1>2, <1>3, <3>1 DEF If
    <3>4. SubSeq(lines, 1, n + 1) = SubSeq(lines, 1, (n + 1) - 1) \o <<lines[n + 1]>>
      <4>1. 1 \in 1 .. Len(lines) /\ n + 1 \in 1 .. Len(lines)
        BY <1>2, <3>1 DEF N
      <4> QED BY <4>1, SubSeqRecursiveSecond
    <3> QED BY <2>2, <3>1, <3>2, <3>3, <3>4
  <2>3. \A n \in 0 .. N : n \in T
    <3> HIDE DEF P
    <3>1. 0 \in T /\ \A n \in 0 .. N - 1 : n \in T => n + 1 \in T
      BY <1>2, <2>1, <2>2
    <3> HIDE DEF T
    <3> QED BY <1>2, <3>1, Upwards
  <2>4. f[N] = SubSeq(lines, 1, N)
    BY <1>2, <2>3
  <2> QED BY <2>4, SubSeqFull DEF N
<1>4. f[N] \in Seq(X)
  <2> HIDE DEF f, N
  <2> QED BY <1>2
<1> HIDE DEF f, All
<1> QED BY <1>1, <1>3, <1>4 DEF f

\* What is found in one sequence and another is found in both together.
LEMMA KindsOfBoth ==
  ASSUME NEW X, NEW s \in Seq(X), NEW t \in Seq(X), NEW kinds
  PROVE  OfKinds(s \o t, kinds) = OfKinds(s, kinds) \o OfKinds(t, kinds)
<1> DEFINE u == s \o t
           f == First(s, kinds)
           g == First(t, kinds)
           h == First(u, kinds)
           M == Len(s)
           N == Len(t)
<1>1. /\ M \in Nat /\ N \in Nat /\ u \in Seq(X) /\ Len(u) = M + N
      /\ \A n \in 1 .. M : u[n] = s[n]
      /\ \A n \in 1 .. N : u[M + n] = t[n]
  <2>1. Len(s) \in Nat /\ Len(t) \in Nat
    BY LenProperties
  <2> QED BY <2>1, ConcatProperties
<1>2. /\ f[0] = <<>> /\ \A n \in 0 .. M - 1 : f[n + 1] = f[n] \o If(s[n + 1], kinds)
      /\ \A n \in 0 .. M : f[n] \in Seq(X)
  BY Firsts, Zenon
<1>3. /\ g[0] = <<>> /\ \A n \in 0 .. N - 1 : g[n + 1] = g[n] \o If(t[n + 1], kinds)
      /\ \A n \in 0 .. N : g[n] \in Seq(X)
      /\ \A n \in 1 .. N : If(t[n], kinds) \in Seq(X)
  BY Firsts, Zenon
<1>4. h[0] = <<>> /\ \A n \in 0 .. M + N - 1 : h[n + 1] = h[n] \o If(u[n + 1], kinds)
  <2> HIDE DEF u, M, N
  <2>1. /\ h[0] = <<>>
        /\ \A n \in 0 .. Len(u) - 1 : h[n + 1] = h[n] \o If(u[n + 1], kinds)
    BY <1>1, Firsts, Zenon
  <2>2. ASSUME NEW n \in 0 .. M + N - 1 PROVE h[n + 1] = h[n] \o If(u[n + 1], kinds)
    <3>1. n \in 0 .. Len(u) - 1
      BY <1>1
    <3> QED BY <2>1, <3>1, Zenon
  <2> QED BY <2>1, <2>2, Zenon
<1> HIDE DEF u, f, g, h, M, N
<1>5. h[M] = f[M]
  <2> DEFINE P(n) == h[n] = f[n]
             T == {n \in 0 .. M : P(n)}
  <2>1. P(0)
    BY <1>2, <1>4
  <2>2. ASSUME NEW n \in 0 .. M - 1, P(n) PROVE P(n + 1)
    <3>1. n + 1 \in 1 .. M /\ n \in 0 .. M + N - 1
      BY <1>1
    <3>2. u[n + 1] = s[n + 1]
      BY <1>1, <3>1
    <3> QED BY <1>2, <1>4, <2>2, <3>1, <3>2
  <2> HIDE DEF P
  <2>3. 0 \in T /\ \A n \in 0 .. M - 1 : n \in T => n + 1 \in T
    BY <1>1, <2>1, <2>2
  <2>4. \A n \in 0 .. M : n \in T
    <3> HIDE DEF T
    <3> QED BY <1>1, <2>3, Upwards
  <2> QED BY <1>1, <2>4 DEF P
<1>6. h[M + N] = f[M] \o g[N]
  <2> DEFINE P(n) == h[M + n] = f[M] \o g[n]
             T == {n \in 0 .. N : P(n)}
  <2>0. f[M] \in Seq(X)
    BY <1>1, <1>2
  <2>1. P(0)
    <3>1. M + 0 = M
      BY <1>1
    <3> QED BY <1>3, <1>5, <2>0, <3>1, Joined
  <2>2. ASSUME NEW n \in 0 .. N - 1, P(n) PROVE P(n + 1)
    <3>1. /\ n + 1 \in 1 .. N /\ n \in 0 .. N /\ M + n \in 0 .. M + N - 1
          /\ M + (n + 1) = (M + n) + 1
      BY <1>1
    <3>2. h[M + (n + 1)] = h[M + n] \o If(u[M + (n + 1)], kinds)
      BY <1>4, <3>1
    <3>3. u[M + (n + 1)] = t[n + 1]
      BY <1>1, <3>1
    <3>4. g[n + 1] = g[n] \o If(t[n + 1], kinds)
      BY <1>3
    <3>5. g[n] \in Seq(X) /\ If(t[n + 1], kinds) \in Seq(X)
      BY <1>3, <3>1
    <3>6. h[M + n] = f[M] \o g[n]
      BY <2>2
    <3>7. f[M] \o g[n + 1] = (f[M] \o g[n]) \o If(t[n + 1], kinds)
      <4>1. f[M] \o (g[n] \o If(t[n + 1], kinds)) = (f[M] \o g[n]) \o If(t[n + 1], kinds)
        <5> DEFINE a == f[M]
                   b == g[n]
                   c == If(t[n + 1], kinds)
        <5>1. a \in Seq(X) /\ b \in Seq(X) /\ c \in Seq(X)
          BY <2>0, <3>5
        <5> HIDE DEF a, b, c
        <5>2. a \o (b \o c) = (a \o b) \o c
          BY <5>1, Joined
        <5> QED BY <5>2 DEF a, b, c
      <4> QED BY <3>4, <4>1, Zenon
    <3> QED BY <3>2, <3>3, <3>6, <3>7
  <2> HIDE DEF P
  <2>3. 0 \in T /\ \A n \in 0 .. N - 1 : n \in T => n + 1 \in T
    BY <1>1, <2>1, <2>2
  <2>4. \A n \in 0 .. N : n \in T
    <3> HIDE DEF T
    <3> QED BY <1>1, <2>3, Upwards
  <2>5. P(N)
    BY <1>1, <2>4
  <2> QED BY <2>5 DEF P
<1>7. /\ OfKinds(s, kinds) = f[M] /\ OfKinds(t, kinds) = g[N]
      /\ OfKinds(u, kinds) = h[M + N]
  <2>1. OfKinds(u, kinds) = h[Len(u)]
    BY <1>1, KindsAre DEF h
  <2> QED BY <1>1, <2>1, KindsAre DEF f, g, M, N
<1> QED BY <1>6, <1>7 DEF u

\* It finds lines, of these kinds, and every one.
LEMMA KindsMembers ==
  ASSUME NEW X, NEW lines \in Seq(X), NEW kinds
  PROVE  /\ \A j \in DOMAIN OfKinds(lines, kinds) :
              /\ OfKinds(lines, kinds)[j].kind \in kinds
              /\ \E i \in DOMAIN lines : lines[i] = OfKinds(lines, kinds)[j]
         /\ \A i \in DOMAIN lines : lines[i].kind \in kinds =>
              \E j \in DOMAIN OfKinds(lines, kinds) : OfKinds(lines, kinds)[j] = lines[i]
<1> DEFINE f == First(lines, kinds)
           N == Len(lines)
           Found(p, n) ==
             /\ \A j \in DOMAIN p : p[j].kind \in kinds /\ \E i \in 1 .. n : lines[i] = p[j]
             /\ \A i \in 1 .. n : lines[i].kind \in kinds => \E j \in DOMAIN p : p[j] = lines[i]
           T == {n \in 0 .. N : Found(f[n], n)}
<1>1. /\ N \in Nat /\ DOMAIN lines = 1 .. N /\ f[0] = <<>>
      /\ \A n \in 0 .. N - 1 : f[n + 1] = f[n] \o If(lines[n + 1], kinds)
      /\ \A n \in 0 .. N : f[n] \in Seq(X)
      /\ \A n \in 1 .. N : lines[n] \in X
  BY Firsts, Zenon
<1> HIDE DEF f, N
<1>2. Found(f[0], 0)
  BY <1>1
<1>3. ASSUME NEW n \in 0 .. N - 1, Found(f[n], n) PROVE Found(f[n + 1], n + 1)
  <2>1. n + 1 \in 1 .. N /\ n \in 0 .. N
    BY <1>1
  <2> DEFINE p == f[n]
             q == f[n + 1]
             l == lines[n + 1]
  <2>2. q = p \o If(l, kinds) /\ p \in Seq(X) /\ l \in X /\ Found(p, n)
    BY <1>1, <1>3, <2>1
  <2> HIDE DEF p, q
  <2>4. Len(p) \in Nat /\ DOMAIN p = 1 .. Len(p)
    BY <2>2, LenProperties
  <2>5. CASE l.kind \in kinds
    <3>1. q = p \o <<l>>
      BY <2>2, <2>5 DEF If
    <3>2. /\ DOMAIN q = 1 .. Len(p) + 1 /\ q[Len(p) + 1] = l
          /\ \A j \in 1 .. Len(p) : q[j] = p[j]
      <4> HIDE DEF l
      <4>1. <<l>> \in Seq(X) /\ Len(<<l>>) = 1 /\ <<l>>[1] = l
        BY <2>2
      <4>2. q \in Seq(X) /\ Len(q) = Len(p) + 1 /\ \A j \in 1 .. Len(p) + 1 :
              q[j] = IF j <= Len(p) THEN p[j] ELSE <<l>>[j - Len(p)]
        BY <2>2, <3>1, <4>1, ConcatProperties
      <4>3. DOMAIN q = 1 .. Len(q)
        BY <4>2, LenProperties
      <4> QED BY <2>4, <4>1, <4>2, <4>3
    <3>3. ASSUME NEW j \in DOMAIN q
          PROVE  q[j].kind \in kinds /\ \E i \in 1 .. n + 1 : lines[i] = q[j]
      <4>1. CASE j = Len(p) + 1
        BY <2>1, <2>5, <3>2, <4>1
      <4>2. CASE j # Len(p) + 1
        <5>1. j \in DOMAIN p /\ q[j] = p[j]
          BY <2>4, <3>2, <4>2
        <5> QED BY <2>2, <5>1
      <4> QED BY <4>1, <4>2
    <3>4. ASSUME NEW i \in 1 .. n + 1, lines[i].kind \in kinds
          PROVE  \E j \in DOMAIN q : q[j] = lines[i]
      <4>1. CASE i = n + 1
        BY <2>4, <3>2, <4>1
      <4>2. CASE i # n + 1
        <5>1. i \in 1 .. n
          BY <4>2
        <5>2. PICK j \in DOMAIN p : p[j] = lines[i]
          BY <2>2, <3>4, <5>1
        <5> QED BY <2>4, <3>2, <5>2
      <4> QED BY <4>1, <4>2
    <3>5. Found(q, n + 1)
      BY <3>3, <3>4
    <3> QED BY <3>5 DEF q
  <2>6. CASE l.kind \notin kinds
    <3>1. q = p
      BY <2>2, <2>6, Joined DEF If
    <3>2. \A i \in 1 .. n + 1 : i \in 1 .. n \/ lines[i] = l
      OBVIOUS
    <3>3. Found(p, n + 1)
      BY <2>2, <2>6, <3>2
    <3> QED BY <3>1, <3>3 DEF q
  <2> QED BY <2>5, <2>6
<1> HIDE DEF Found
<1>4. \A n \in 0 .. N : n \in T
  <2>1. 0 \in T /\ \A n \in 0 .. N - 1 : n \in T => n + 1 \in T
    BY <1>1, <1>2, <1>3
  <2> HIDE DEF T
  <2> QED BY <1>1, <2>1, Upwards
<1>5. Found(f[N], N)
  BY <1>1, <1>4
<1>6. OfKinds(lines, kinds) = f[N]
  BY KindsAre DEF f, N
<1> QED BY <1>1, <1>5, <1>6 DEF Found

----------------------------------------------------------------------------
(* Lines and files *)

\* Of lines that are all of these kinds nothing is left out, of others everything.
LEMMA KindsAllOrNone ==
  ASSUME NEW X, NEW lines \in Seq(X), NEW kinds
  PROVE  /\ (\A i \in DOMAIN lines : lines[i].kind \in kinds) => OfKinds(lines, kinds) = lines
         /\ (\A i \in DOMAIN lines : lines[i].kind \notin kinds) => OfKinds(lines, kinds) = <<>>
<1>1. (\A i \in DOMAIN lines : lines[i].kind \in kinds) => OfKinds(lines, kinds) = lines
  BY DEF OfKinds
<1>2. ASSUME \A i \in DOMAIN lines : lines[i].kind \notin kinds PROVE OfKinds(lines, kinds) = <<>>
  <2> DEFINE q == OfKinds(lines, kinds)
  <2>1. DOMAIN q = {}
    <3> SUFFICES ASSUME NEW j \in DOMAIN q PROVE FALSE
      OBVIOUS
    <3>1. q[j].kind \in kinds /\ \E i \in DOMAIN lines : lines[i] = q[j]
      BY KindsMembers
    <3> QED BY <1>2, <3>1
  <2>2. q \in Seq(X)
    BY KindsAre
  <2> HIDE DEF q
  <2>3. Len(q) = 0
    BY <2>1, <2>2, LenProperties
  <2>4. q = <<>>
    BY <2>2, <2>3, EmptySeq
  <2> QED BY <2>4 DEF q
<1> QED BY <1>1, <1>2

\* A prefix, value by value; it is one of any continuation and of what that is a prefix of.
LEMMA PrefixIs ==
  ASSUME NEW X, NEW p \in Seq(X), NEW q \in Seq(X)
  PROVE  /\ IsPrefix(p, q) <=> Len(p) <= Len(q) /\ \A i \in 1 .. Len(p) : p[i] = q[i]
         /\ IsPrefix(p, p \o q) /\ IsPrefix(<<>>, p) /\ IsPrefix(p, p)
<1>1. ASSUME NEW r \in Seq(X), NEW s \in Seq(X)
      PROVE  IsPrefix(r, s) <=> Len(r) <= Len(s) /\ \A i \in 1 .. Len(r) : r[i] = s[i]
  <2>1. Len(r) \in Nat /\ Len(s) \in Nat
    BY LenProperties
  <2> SUFFICES ASSUME Len(r) <= Len(s)
               PROVE  SubSeq(r, 1, Len(r)) = SubSeq(s, 1, Len(r)) <=> \A i \in 1 .. Len(r) : r[i] = s[i]
    BY DEF IsPrefix
  <2>2. SubSeq(r, 1, Len(r)) = r
    BY SubSeqFull
  <2>3. /\ SubSeq(s, 1, Len(r)) \in Seq(X) /\ Len(SubSeq(s, 1, Len(r))) = Len(r)
        /\ \A i \in 1 .. Len(r) : SubSeq(s, 1, Len(r))[i] = s[i]
    <3>1. \A i \in 1 .. Len(r) : s[i] \in X
      BY <2>1, ElementOfSeq
    <3>2. /\ SubSeq(s, 1, Len(r)) \in Seq(X)
          /\ Len(SubSeq(s, 1, Len(r))) = IF 1 <= Len(r) THEN Len(r) - 1 + 1 ELSE 0
          /\ \A i \in 1 .. Len(r) - 1 + 1 : SubSeq(s, 1, Len(r))[i] = s[1 + i - 1]
      BY <2>1, <3>1, SubSeqProperties
    <3> QED BY <2>1, <3>2
  <2> QED BY <2>2, <2>3, SeqEqual
<1>2. Len(p) \in Nat /\ Len(q) \in Nat
  BY LenProperties
<1>3. IsPrefix(p, p \o q)
  <2>1. /\ p \o q \in Seq(X) /\ Len(p \o q) = Len(p) + Len(q)
        /\ \A i \in 1 .. Len(p) + Len(q) : (p \o q)[i] = IF i <= Len(p) THEN p[i] ELSE q[i - Len(p)]
    BY ConcatProperties
  <2>2. Len(p) <= Len(p \o q) /\ \A i \in 1 .. Len(p) : p[i] = (p \o q)[i]
    BY <1>2, <2>1
  <2> QED BY <1>1, <2>1, <2>2
<1>4. IsPrefix(<<>>, p)
  <2>1. <<>> \in Seq(X) /\ Len(<<>>) = 0
    BY EmptySeq
  <2>2. Len(<<>>) <= Len(p) /\ \A i \in 1 .. Len(<<>>) : <<>>[i] = p[i]
    BY <1>2, <2>1
  <2> QED BY <1>1, <2>1, <2>2, Zenon
<1>5. IsPrefix(p, p)
  BY <1>1, <1>2
<1> QED BY <1>1, <1>3, <1>4, <1>5

\* Being a prefix is transitive.
LEMMA PrefixOfPrefix ==
  ASSUME NEW X, NEW p \in Seq(X), NEW q \in Seq(X), NEW r \in Seq(X), IsPrefix(p, q), IsPrefix(q, r)
  PROVE  IsPrefix(p, r)
<1>1. Len(p) \in Nat /\ Len(q) \in Nat /\ Len(r) \in Nat
  BY LenProperties
<1>2. Len(p) <= Len(q) /\ \A i \in 1 .. Len(p) : p[i] = q[i]
  BY PrefixIs
<1>3. Len(q) <= Len(r) /\ \A i \in 1 .. Len(q) : q[i] = r[i]
  BY PrefixIs
<1>4. Len(p) <= Len(r) /\ \A i \in 1 .. Len(p) : p[i] = r[i]
  BY <1>1, <1>2, <1>3
<1> QED BY <1>4, PrefixIs

Contents == Seq(Line) \union {Absent}

\* What is loaded of a file: nothing if it has no header, or its readable lines.
LEMMA LoadedIs ==
  ASSUME NEW c \in Contents
  PROVE  /\ Loaded(c) \in Seq(Line)
         /\ HasHeader(c) => c \in Seq(Line) /\ Loaded(c) = Readable(c) /\ Loaded(c) # <<>>
         /\ ~HasHeader(c) => Loaded(c) = <<>>
<1>1. CASE ~HasHeader(c)
  BY <1>1 DEF Loaded
<1>2. CASE HasHeader(c)
  <2>1. c \in Seq(Line)
    BY <1>2 DEF HasHeader, Contents
  <2>2. Loaded(c) = Readable(c) /\ Readable(c) \in Seq(Line)
    BY <1>2, <2>1, KindsAre DEF Loaded, Readable
  <2>3. PICK i \in DOMAIN c : c[i].kind = "session"
    BY <1>2 DEF HasHeader
  <2>4. \E j \in DOMAIN Readable(c) : Readable(c)[j] = c[i]
    <3>1. c[i].kind \in ReadableKinds
      BY <2>3 DEF ReadableKinds, LineKinds
    <3> QED BY <2>1, <3>1, KindsMembers DEF Readable
  <2>5. Readable(c) # <<>>
    BY <2>4
  <2> QED BY <1>2, <2>1, <2>2, <2>5
<1> QED BY <1>1, <1>2

\* A file keeps its header when its first lines stay and the rest cannot be read.
LEMMA HeaderStays ==
  ASSUME NEW c \in Seq(Line), NEW w \in Seq(Line), NEW n \in 0 .. Len(c), n <= Len(w),
         \A i \in 1 .. n : w[i] = c[i], \A i \in n + 1 .. Len(c) : c[i].kind \notin ReadableKinds,
         HasHeader(c)
  PROVE  HasHeader(w)
<1>1. /\ Len(c) \in Nat /\ DOMAIN c = 1 .. Len(c)
      /\ Len(w) \in Nat /\ DOMAIN w = 1 .. Len(w)
  BY LenProperties
<1>2. PICK i \in DOMAIN c :
        c[i].kind = "session" /\ \A j \in 1 .. i - 1 : c[j].kind \notin ReadableKinds
  BY DEF HasHeader
<1>3. "session" \in ReadableKinds
  BY DEF ReadableKinds, LineKinds
<1>4. i \in 1 .. n
  BY <1>1, <1>2, <1>3
<1>5. i \in DOMAIN w /\ w[i].kind = "session" /\ \A j \in 1 .. i - 1 : w[j].kind \notin ReadableKinds
  BY <1>1, <1>2, <1>4
<1>6. w # Absent
  BY AbsentAssumption
<1> QED BY <1>5, <1>6 DEF HasHeader

\* What is readable of two lists, one after the other, is what is readable of each.
LEMMA ReadableBoth ==
  ASSUME NEW p \in Seq(Line), NEW q \in Seq(Line)
  PROVE  Readable(p \o q) = Readable(p) \o Readable(q)
BY KindsOfBoth DEF Readable

\* More lines take nothing from what is loaded.
LEMMA MoreLines ==
  ASSUME NEW c \in Seq(Line), NEW q \in Seq(Line)
  PROVE  c \o q \in Seq(Line) /\ IsPrefix(Loaded(c), Loaded(c \o q))
<1>1. c \o q \in Seq(Line) /\ c \in Contents /\ c \o q \in Contents
  BY Joined DEF Contents
<1>2. CASE ~HasHeader(c)
  BY <1>1, <1>2, LoadedIs, PrefixIs
<1>3. CASE HasHeader(c)
  <2>1. Len(c) \in Nat /\ Len(q) \in Nat
    BY LenProperties
  <2>2. Len(c) <= Len(c \o q) /\ \A i \in 1 .. Len(c) : (c \o q)[i] = c[i]
    BY <1>1, PrefixIs
  <2>3. HasHeader(c \o q)
    <3> DEFINE n == Len(c)
    <3>1. \A i \in n + 1 .. Len(c) : c[i].kind \notin ReadableKinds
      BY <2>1
    <3>2. n \in 0 .. Len(c) /\ n <= Len(c \o q) /\ \A i \in 1 .. n : (c \o q)[i] = c[i]
      BY <2>1, <2>2
    <3> HIDE DEF n
    <3> QED BY <1>1, <1>3, <3>1, <3>2, HeaderStays
  <2>4. Loaded(c) = Readable(c) /\ Loaded(c \o q) = Readable(c) \o Readable(q)
    <3>1. Readable(c \o q) = Readable(c) \o Readable(q)
      BY KindsOfBoth DEF Readable
    <3> QED BY <1>1, <1>3, <2>3, <3>1, LoadedIs
  <2>5. Readable(c) \in Seq(Line) /\ Readable(q) \in Seq(Line)
    BY KindsAre DEF Readable
  <2> QED BY <1>1, <2>4, <2>5, PrefixIs
<1> QED BY <1>2, <1>3

\* The lines nobody can read.
LEMMA Unreadable ==
  /\ Garbage \in Line /\ Torn \in Line
  /\ Garbage.kind \notin ReadableKinds /\ Torn.kind \notin ReadableKinds /\ Torn.kind = "torn"
BY DEF Garbage, Torn, Entry, Line, LineKinds, ReadableKinds, Null

\* Neither does an appended line that ends up on a torn one.
LEMMA WrittenKeeps ==
  ASSUME NEW c \in Contents, NEW lines \in Seq(Line)
  PROVE  Written(c, lines) \in Seq(Line) /\ IsPrefix(Loaded(c), Loaded(Written(c, lines)))
<1>1. CASE c = Absent
  <2>1. ~HasHeader(c) /\ Written(c, lines) = lines /\ lines \in Contents
    BY <1>1 DEF HasHeader, Written, Contents
  <2> QED BY <2>1, LoadedIs, PrefixIs
<1>2. CASE c # Absent /\ lines # <<>> /\ c # <<>> /\ c[Len(c)].kind = "torn"
  <2> DEFINE n == Len(c) - 1
             front == SubSeq(c, 1, n)
             w == (front \o <<Garbage>>) \o Tail(lines)
  <2>1. c \in Seq(Line) /\ Written(c, lines) = w
    BY <1>2 DEF Written, Contents
  <2>2. Len(c) \in Nat \ {0} /\ n \in Nat /\ Len(c) = n + 1
    BY <1>2, <2>1, EmptySeq
  <2>3. c[Len(c)] \in Line /\ Tail(lines) \in Seq(Line)
    <3>1. Len(c) \in 1 .. Len(c)
      BY <2>2
    <3> QED BY <1>2, <2>1, <3>1, ElementOfSeq, HeadTailProperties
  <2>4. /\ front \in Seq(Line) /\ c = front \o <<c[Len(c)]>> /\ Len(front) = n
        /\ \A i \in 1 .. n : front[i] = c[i]
    <3>1. \A i \in 1 .. n : c[i] \in Line
      BY <2>1, <2>2, ElementOfSeq
    <3>2. /\ front \in Seq(Line) /\ Len(front) = (IF 1 <= n THEN n - 1 + 1 ELSE 0)
          /\ \A i \in 1 .. n - 1 + 1 : front[i] = c[1 + i - 1]
      <4> HIDE DEF n
      <4> QED BY <2>2, <3>1, SubSeqProperties
    <3>3. SubSeq(c, 1, Len(c)) = SubSeq(c, 1, Len(c) - 1) \o <<c[Len(c)]>>
      <4>1. 1 \in 1 .. Len(c) /\ Len(c) \in 1 .. Len(c)
        BY <2>2
      <4> QED BY <2>1, <4>1, SubSeqRecursiveSecond
    <3>4. SubSeq(c, 1, Len(c)) = c
      BY <2>1, SubSeqFull
    <3>5. Len(front) = n /\ \A i \in 1 .. n : front[i] = c[i]
      <4> HIDE DEF n, front
      <4> QED BY <2>2, <3>2
    <3>6. c = front \o <<c[Len(c)]>>
      BY <3>3, <3>4, Zenon
    <3> QED BY <3>2, <3>5, <3>6
  <2> HIDE DEF n, front
  <2>5. <<Garbage>> \in Seq(Line) /\ front \o <<Garbage>> \in Seq(Line) /\ w \in Seq(Line)
    <3>1. <<Garbage>> \in Seq(Line)
      BY Unreadable
    <3>2. front \o <<Garbage>> \in Seq(Line)
      BY <2>4, <3>1, Joined
    <3> QED BY <2>3, <3>1, <3>2, Joined
  <2>6. Readable(c) = Readable(front) /\ Readable(w) = Readable(front) \o Readable(Tail(lines))
    <3>1. Readable(<<c[Len(c)]>>) = <<>> /\ Readable(<<Garbage>>) = <<>> /\ <<c[Len(c)]>> \in Seq(Line)
      <4>1. ASSUME NEW l \in Line, l.kind \notin ReadableKinds
            PROVE  <<l>> \in Seq(Line) /\ Readable(<<l>>) = <<>>
        <5>1. <<l>> \in Seq(Line) /\ \A i \in DOMAIN <<l>> : <<l>>[i].kind \notin ReadableKinds
          BY <4>1
        <5> QED BY <5>1, KindsAllOrNone DEF Readable
      <4>2. c[Len(c)].kind \notin ReadableKinds
        BY <1>2 DEF ReadableKinds
      <4> QED BY <2>3, <4>1, <4>2, Unreadable
    <3>2. Readable(front) \in Seq(Line)
      BY <2>4, KindsAre DEF Readable
    <3>3. Readable(c) = Readable(front) \o Readable(<<c[Len(c)]>>)
      BY <2>4, <3>1, ReadableBoth, Zenon
    <3>4. Readable(w) = Readable(front \o <<Garbage>>) \o Readable(Tail(lines))
      BY <2>3, <2>5, ReadableBoth, Zenon
    <3>5. Readable(front \o <<Garbage>>) = Readable(front) \o Readable(<<Garbage>>)
      BY <2>4, <2>5, ReadableBoth, Zenon
    <3>6. Readable(front) \o <<>> = Readable(front)
      BY <3>2, Joined
    <3> QED BY <3>1, <3>3, <3>4, <3>5, <3>6, Zenon
  <2>7. /\ Len(front \o <<Garbage>>) = n + 1 /\ n <= Len(w)
        /\ \A i \in 1 .. n : w[i] = c[i]
    <3>1. /\ Len(front \o <<Garbage>>) = n + 1
          /\ \A i \in 1 .. n : (front \o <<Garbage>>)[i] = c[i]
      <4>1. Len(<<Garbage>>) = 1
        OBVIOUS
      <4>2. /\ Len(front \o <<Garbage>>) = Len(front) + Len(<<Garbage>>)
            /\ \A i \in 1 .. Len(front) + Len(<<Garbage>>) :
                 (front \o <<Garbage>>)[i] = IF i <= Len(front) THEN front[i] ELSE <<Garbage>>[i - Len(front)]
        BY <2>4, <2>5, ConcatProperties
      <4> QED BY <2>2, <2>4, <4>1, <4>2
    <3>2. Len(front \o <<Garbage>>) <= Len(w) /\ \A i \in 1 .. n + 1 : (front \o <<Garbage>>)[i] = w[i]
      <4>1. IsPrefix(front \o <<Garbage>>, w)
        BY <2>3, <2>5, PrefixIs
      <4> QED BY <2>5, <3>1, <4>1, PrefixIs
    <3> HIDE DEF w
    <3>3. Len(w) \in Nat
      BY <2>5, LenProperties
    <3> QED BY <2>2, <3>1, <3>2, <3>3
  <2> HIDE DEF w
  <2>8. CASE ~HasHeader(c)
    BY <2>1, <2>5, <2>8, LoadedIs, PrefixIs DEF Contents
  <2>9. CASE HasHeader(c)
    <3>1. HasHeader(w)
      <4>1. \A i \in n + 1 .. Len(c) : c[i].kind \notin ReadableKinds
        BY <1>2, <2>2 DEF ReadableKinds
      <4>2. n \in 0 .. Len(c)
        BY <2>2
      <4> QED BY <2>1, <2>5, <2>7, <2>9, <4>1, <4>2, HeaderStays
    <3>2. Loaded(c) = Readable(front) /\ Loaded(w) = Readable(front) \o Readable(Tail(lines))
      BY <2>1, <2>5, <2>6, <2>9, <3>1, LoadedIs DEF Contents
    <3>3. Readable(front) \in Seq(Line) /\ Readable(Tail(lines)) \in Seq(Line)
      BY <2>3, <2>4, KindsAre DEF Readable
    <3> QED BY <2>1, <2>5, <3>2, <3>3, PrefixIs
  <2> QED BY <2>8, <2>9
<1>3. CASE c # Absent /\ ~(lines # <<>> /\ c # <<>> /\ c[Len(c)].kind = "torn")
  <2>1. c \in Seq(Line) /\ Written(c, lines) = c \o lines
    BY <1>3 DEF Written, Contents
  <2> QED BY <2>1, MoreLines
<1> QED BY <1>1, <1>2, <1>3

\* Nor does a write that is cut short.
LEMMA InterruptedKeeps ==
  ASSUME NEW c \in Contents, NEW lines \in Seq(Line), NEW n \in 0 .. Len(lines) - 1, NEW torn \in BOOLEAN
  PROVE  /\ Interrupted(c, lines, n, torn) \in Seq(Line)
         /\ IsPrefix(Loaded(c), Loaded(Interrupted(c, lines, n, torn)))
<1> DEFINE part == SubSeq(lines, 1, n)
           whole == Written(c, part)
<1>1. Len(lines) \in Nat /\ n \in Nat
  BY LenProperties
<1>2. part \in Seq(Line)
  <2>1. \A i \in 1 .. n : lines[i] \in Line
    BY <1>1, ElementOfSeq
  <2> QED BY <1>1, <2>1, SubSeqProperties
<1>3. whole \in Seq(Line) /\ IsPrefix(Loaded(c), Loaded(whole))
  <2> HIDE DEF part
  <2> QED BY <1>2, WrittenKeeps
<1> HIDE DEF whole
<1>4. Append(whole, Torn) = whole \o <<Torn>> /\ <<Torn>> \in Seq(Line)
  BY <1>3, Unreadable, AppendIsConcat
<1>5. Append(whole, Torn) \in Seq(Line) /\ IsPrefix(Loaded(whole), Loaded(Append(whole, Torn)))
  BY <1>3, <1>4, MoreLines
<1>6. IsPrefix(Loaded(c), Loaded(Append(whole, Torn)))
  <2>1. Loaded(c) \in Seq(Line) /\ Loaded(whole) \in Seq(Line) /\ Loaded(Append(whole, Torn)) \in Seq(Line)
    BY <1>3, <1>5, LoadedIs DEF Contents
  <2> QED BY <1>3, <1>5, <2>1, PrefixOfPrefix
<1>7. Interrupted(c, lines, n, torn) \in {whole, Append(whole, Torn)}
  BY DEF Interrupted, whole
<1> QED BY <1>3, <1>5, <1>6, <1>7

----------------------------------------------------------------------------
(* Branches, labels and forks *)

\* A finite set as a sequence: each element once.
LEMMA Listed ==
  ASSUME NEW S, IsFiniteSet(S)
  PROVE  LET t == SetToSeq(S)
         IN  /\ t \in Seq(S) /\ Len(t) = Cardinality(S) /\ Len(t) \in Nat /\ DOMAIN t = 1 .. Len(t)
             /\ \A a, b \in DOMAIN t : t[a] = t[b] => a = b
             /\ \A x \in S : \E k \in DOMAIN t : t[k] = x
<1> DEFINE n == Cardinality(S)
           t == SetToSeq(S)
<1>1. n \in Nat /\ ExistsBijection(1 .. n, S)
  BY FS_CardinalityType
<1>2. \E f \in [1 .. n -> S] : IsInjective(f)
  BY <1>1 DEF ExistsBijection, Bijection, Injection
<1>3. t \in [1 .. n -> S] /\ IsInjective(t)
  BY <1>2 DEF SetToSeq
<1> HIDE DEF n, t
<1>4. t \in Seq(S) /\ Len(t) = n /\ DOMAIN t = 1 .. n
  BY <1>1, <1>3
<1>5. \A a, b \in DOMAIN t : t[a] = t[b] => a = b
  BY <1>3 DEF IsInjective
<1>6. \A x \in S : \E k \in DOMAIN t : t[k] = x
  <2>1. IsFiniteSet(1 .. n) /\ Cardinality(1 .. n) = n
    BY <1>1, FS_Interval
  <2>2. t \in Injection(1 .. n, S)
    BY <1>3 DEF Injection
  <2>3. t \in Surjection(1 .. n, S)
    BY <2>1, <2>2, FS_Injection DEF n
  <2> QED BY <1>4, <2>3 DEF Surjection
<1> QED BY <1>1, <1>4, <1>5, <1>6 DEF n, t

\* The entry with an id is one of the lines.
LEMMA EntryIs ==
  ASSUME NEW X, NEW lines \in Seq(X), NEW id \in IdsOf(lines)
  PROVE  /\ EntryOf(lines, id) \in X /\ EntryOf(lines, id).id = id
         /\ \E i \in DOMAIN lines : EntryOf(lines, id) = lines[i]
<1>1. DOMAIN lines = 1 .. Len(lines)
  BY LenProperties
<1> DEFINE i == CHOOSE i \in DOMAIN lines : lines[i].id = id
<1>2. \E k \in DOMAIN lines : lines[k].id = id
  BY DEF IdsOf
<1>3. i \in DOMAIN lines /\ lines[i].id = id
  BY <1>2
<1>4. EntryOf(lines, id) = lines[i]
  BY DEF EntryOf
<1> HIDE DEF i
<1>5. lines[i] \in X
  BY <1>1, <1>3, ElementOfSeq
<1> QED BY <1>3, <1>4, <1>5

\* What Branch starts with, and what it makes of a path in one step.
Start(lines, from) == IF from \in IdsOf(lines) THEN <<EntryOf(lines, from)>> ELSE <<>>
Longer(lines, path) ==
  IF path # <<>> /\ Head(path).parent \in IdsOf(lines)
  THEN <<EntryOf(lines, Head(path).parent)>> \o path
  ELSE path

IsUp(g, lines, from) ==
  g = [n \in 0 .. Len(lines) |-> IF n = 0 THEN Start(lines, from) ELSE Longer(lines, g[n - 1])]
Up(lines, from) == CHOOSE g : IsUp(g, lines, from)

\* One step up a branch stays among the lines.
LEMMA LongerType ==
  ASSUME NEW X, NEW lines \in Seq(X), NEW path \in Seq(X)
  PROVE  Longer(lines, path) \in Seq(X)
<1>1. CASE path # <<>> /\ Head(path).parent \in IdsOf(lines)
  <2>1. EntryOf(lines, Head(path).parent) \in X
    BY <1>1, EntryIs
  <2>2. <<EntryOf(lines, Head(path).parent)>> \in Seq(X)
    BY <2>1
  <2> QED BY <1>1, <2>2, Joined DEF Longer
<1>2. CASE ~(path # <<>> /\ Head(path).parent \in IdsOf(lines))
  BY <1>2 DEF Longer
<1> QED BY <1>1, <1>2

\* The walk, step by step.
LEMMA UpIs ==
  ASSUME NEW X, NEW lines \in Seq(X), NEW from
  PROVE  /\ Branch(lines, from) = Up(lines, from)[Len(lines)]
         /\ Up(lines, from)[0] = Start(lines, from)
         /\ \A n \in 0 .. Len(lines) - 1 : Up(lines, from)[n + 1] = Longer(lines, Up(lines, from)[n])
         /\ \A n \in 0 .. Len(lines) : Up(lines, from)[n] \in Seq(X)
<1> DEFINE N == Len(lines)
           F == [n \in Nat |-> [p \in Seq(X) |-> Longer(lines, p)]]
           a == Start(lines, from)
           f == Up(lines, from)
<1>1. N \in Nat
  BY LenProperties
<1>2. a \in Seq(X)
  <2>1. CASE from \in IdsOf(lines)
    <3>1. EntryOf(lines, from) \in X
      BY <2>1, EntryIs
    <3> QED BY <2>1, <3>1 DEF Start
  <2>2. CASE from \notin IdsOf(lines)
    BY <2>2 DEF Start
  <2> QED BY <2>1, <2>2
<1>3. F \in Steps(Seq(X))
  BY LongerType DEF Steps
<1>4. \A n \in Nat : \A p \in Seq(X) : F[n][p] = Longer(lines, p)
  OBVIOUS
<1> HIDE DEF F, N, a
<1>5. PICK g : Iterates(g, Seq(X), a, F, N)
  BY <1>1, <1>2, <1>3, Recursion
<1>6. /\ g \in [0 .. N -> Seq(X)] /\ g[0] = a
      /\ \A i \in 1 .. N : g[i] = F[i][g[i - 1]]
  BY <1>5 DEF Iterates
<1>7. \A i \in 1 .. N : g[i] = Longer(lines, g[i - 1])
  <2> SUFFICES ASSUME NEW i \in 1 .. N PROVE g[i] = Longer(lines, g[i - 1])
    OBVIOUS
  <2>1. i \in Nat /\ g[i - 1] \in Seq(X) /\ g[i] = F[i][g[i - 1]]
    BY <1>1, <1>6
  <2> QED BY <1>4, <2>1
<1>8. IsUp(g, lines, from)
  <2> DEFINE r == [n \in 0 .. N |-> IF n = 0 THEN a ELSE Longer(lines, g[n - 1])]
  <2>1. \A n \in 0 .. N : r[n] = g[n]
    <3> SUFFICES ASSUME NEW n \in 0 .. N PROVE r[n] = g[n]
      OBVIOUS
    <3>1. CASE n = 0
      BY <1>6, <3>1
    <3>2. CASE n # 0
      <4>1. n \in 1 .. N
        BY <1>1, <3>2
      <4> QED BY <1>1, <1>7, <3>2, <4>1
    <3> QED BY <3>1, <3>2
  <2>2. DOMAIN r = 0 .. N /\ r = [n \in 0 .. N |-> r[n]]
    OBVIOUS
  <2>3. g = [n \in 0 .. N |-> g[n]]
    BY <1>6
  <2>4. r = g
    BY <2>1, <2>2, <2>3
  <2> QED BY <2>4, Zenon DEF r, IsUp, N, a
<1>9. IsUp(f, lines, from)
  BY <1>8 DEF Up
<1> HIDE DEF f
<1>10. f[0] = a /\ \A n \in 0 .. N - 1 : f[n + 1] = Longer(lines, f[n])
  <2>1. f = [n \in 0 .. N |-> IF n = 0 THEN a ELSE Longer(lines, f[n - 1])]
    BY <1>9 DEF IsUp, N, a
  <2>2. \A n \in 0 .. N : f[n] = IF n = 0 THEN a ELSE Longer(lines, f[n - 1])
    BY <2>1
  <2>3. f[0] = a
    BY <1>1, <2>2
  <2>4. ASSUME NEW n \in 0 .. N - 1 PROVE f[n + 1] = Longer(lines, f[n])
    <3>1. n + 1 \in 0 .. N /\ n + 1 # 0 /\ (n + 1) - 1 = n
      BY <1>1
    <3>2. f[n + 1] = Longer(lines, f[(n + 1) - 1])
      BY <2>2, <3>1, Zenon
    <3> QED BY <3>1, <3>2
  <2> QED BY <2>3, <2>4
<1>11. \A n \in 0 .. N : f[n] \in Seq(X)
  <2> DEFINE T == {n \in 0 .. N : f[n] \in Seq(X)}
  <2>1. 0 \in T
    BY <1>1, <1>2, <1>10
  <2>2. ASSUME NEW n \in 0 .. N - 1, n \in T PROVE n + 1 \in T
    <3>1. n + 1 \in 0 .. N /\ f[n] \in Seq(X)
      BY <1>1, <2>2
    <3> QED BY <1>10, <3>1, LongerType
  <2>3. \A n \in 0 .. N : n \in T
    <3> HIDE DEF T
    <3> QED BY <1>1, <2>1, <2>2, Upwards
  <2> QED BY <2>3
<1>12. Branch(lines, from) = f[N]
  BY Zenon DEF Branch, Up, IsUp, Start, Longer, f, N
<1> QED BY <1>10, <1>11, <1>12 DEF f, N, a

\* A branch is made of lines of the session.
LEMMA BranchType ==
  ASSUME NEW X, NEW lines \in Seq(X), NEW from
  PROVE  Branch(lines, from) \in Seq(X)
<1>1. Len(lines) \in Nat
  BY LenProperties
<1>2. Len(lines) \in 0 .. Len(lines)
  BY <1>1
<1> QED BY <1>2, UpIs

\* The bookmarks a list of lines records.
Bookmarked == [Ids -> LabelNames \union {NoLabel}]

\* The labels that lines record are labels, or none.
LEMMA LabelsType ==
  ASSUME NEW lines \in Seq(Line)
  PROVE  LabelsIn(lines) \in Bookmarked
<1> SUFFICES ASSUME NEW i \in Ids PROVE LabelsIn(lines)[i] \in LabelNames \union {NoLabel}
  BY DEF LabelsIn, Bookmarked
<1> DEFINE changes == {k \in DOMAIN lines : IsLabel(lines[k]) /\ lines[k].ref = i}
<1>1. LabelsIn(lines)[i] = IF changes = {} THEN NoLabel ELSE lines[Max(changes)].label
  BY DEF LabelsIn
<1>2. Len(lines) \in Nat /\ DOMAIN lines = 1 .. Len(lines)
  BY LenProperties
<1>3. changes \in SUBSET (1 .. Len(lines))
  BY <1>2
<1> HIDE DEF changes
<1>4. ASSUME changes # {} PROVE lines[Max(changes)].label \in LabelNames \union {NoLabel}
  <2>1. Max(changes) \in 1 .. Len(lines)
    BY <1>2, <1>3, <1>4, HasMax
  <2>2. lines[Max(changes)] \in Line
    BY <2>1, ElementOfSeq
  <2> QED BY <2>2 DEF Line
<1> QED BY <1>1, <1>4

\* What the labels are when exactly one line changes the bookmark of an entry after k.
LEMMA LabelAfter ==
  ASSUME NEW lines \in Seq(Line), NEW i \in Ids
  PROVE  /\ (\A k \in DOMAIN lines : ~(IsLabel(lines[k]) /\ lines[k].ref = i))
              => LabelsIn(lines)[i] = NoLabel
         /\ \A k \in DOMAIN lines :
              /\ IsLabel(lines[k]) /\ lines[k].ref = i
              /\ \A n \in DOMAIN lines : n > k => ~(IsLabel(lines[n]) /\ lines[n].ref = i)
              => LabelsIn(lines)[i] = lines[k].label
<1> DEFINE changes == {k \in DOMAIN lines : IsLabel(lines[k]) /\ lines[k].ref = i}
<1>1. LabelsIn(lines)[i] = IF changes = {} THEN NoLabel ELSE lines[Max(changes)].label
  BY DEF LabelsIn
<1>2. Len(lines) \in Nat /\ DOMAIN lines = 1 .. Len(lines)
  BY LenProperties
<1>3. ASSUME NEW k \in DOMAIN lines, IsLabel(lines[k]), lines[k].ref = i,
             \A n \in DOMAIN lines : n > k => ~(IsLabel(lines[n]) /\ lines[n].ref = i)
      PROVE  LabelsIn(lines)[i] = lines[k].label
  <2>1. k \in changes /\ changes \in SUBSET (1 .. Len(lines)) /\ \A n \in changes : ~(n > k)
    BY <1>2, <1>3
  <2> HIDE DEF changes
  <2>2. Max(changes) \in changes /\ \A y \in changes : Max(changes) >= y
    BY <1>2, <2>1, HasMax
  <2>3. Max(changes) = k
    BY <1>2, <2>1, <2>2
  <2> QED BY <1>1, <2>1, <2>3
<1> QED BY <1>1, <1>3

\* A line that is appended records its own label and no other.
LEMMA LabelsOfAppend ==
  ASSUME NEW lines \in Seq(Line), NEW e \in Line
  PROVE  /\ ~IsLabel(e) => LabelsIn(Append(lines, e)) = LabelsIn(lines)
         /\ IsLabel(e) /\ e.ref \in Ids =>
              LabelsIn(Append(lines, e)) = [LabelsIn(lines) EXCEPT ![e.ref] = e.label]
<1> DEFINE u == Append(lines, e)
           n == Len(lines)
           Changes(s, i) == {k \in DOMAIN s : IsLabel(s[k]) /\ s[k].ref = i}
<1>1. /\ u \in Seq(Line) /\ n \in Nat /\ DOMAIN lines = 1 .. n /\ DOMAIN u = 1 .. n + 1
      /\ \A k \in 1 .. n : u[k] = lines[k]
      /\ u[n + 1] = e
  <2>1. n \in Nat /\ DOMAIN lines = 1 .. n
    BY LenProperties
  <2>2. u \in Seq(Line) /\ Len(u) = n + 1 /\ (\A k \in 1 .. n : u[k] = lines[k]) /\ u[n + 1] = e
    BY AppendProperties
  <2>3. DOMAIN u = 1 .. n + 1
    BY <2>2, LenProperties
  <2> QED BY <2>1, <2>2, <2>3
<1>2. LabelsIn(u) \in Bookmarked /\ LabelsIn(lines) \in Bookmarked
  BY <1>1, LabelsType
<1> HIDE DEF u, n
<1>3. ASSUME NEW i \in Ids, ~(IsLabel(e) /\ e.ref = i) PROVE LabelsIn(u)[i] = LabelsIn(lines)[i]
  <2>1. Changes(u, i) = Changes(lines, i)
    <3>1. ASSUME NEW k PROVE k \in Changes(u, i) <=> k \in Changes(lines, i)
      BY <1>1, <1>3
    <3> QED BY <3>1
  <2>2. Changes(u, i) = {} <=> Changes(lines, i) = {}
    BY <2>1
  <2>3. /\ LabelsIn(u)[i] = IF Changes(u, i) = {} THEN NoLabel ELSE u[Max(Changes(u, i))].label
        /\ LabelsIn(lines)[i] = IF Changes(lines, i) = {} THEN NoLabel ELSE lines[Max(Changes(lines, i))].label
    BY DEF LabelsIn
  <2>4. Changes(lines, i) \in SUBSET (1 .. n)
    BY <1>1
  <2> DEFINE C == Changes(lines, i)
  <2>5. ASSUME C # {} PROVE u[Max(C)] = lines[Max(C)]
    <3> HIDE DEF C
    <3>1. C \in SUBSET (1 .. n)
      BY <2>4 DEF C
    <3>2. Max(C) \in C
      BY <1>1, <2>5, <3>1, HasMax
    <3> QED BY <1>1, <3>1, <3>2
  <2> HIDE DEF Changes
  <2> QED BY <2>1, <2>3, <2>5
<1>4. ASSUME IsLabel(e), e.ref \in Ids PROVE LabelsIn(u)[e.ref] = e.label
  <2>1. n + 1 \in DOMAIN u /\ u[n + 1] = e /\ \A k \in DOMAIN u : ~(k > n + 1)
    BY <1>1
  <2> QED BY <1>1, <1>4, <2>1, LabelAfter
<1>5. ASSUME ~IsLabel(e) PROVE LabelsIn(u) = LabelsIn(lines)
  BY <1>2, <1>3, <1>5 DEF Bookmarked
<1>6. ASSUME IsLabel(e), e.ref \in Ids
      PROVE  LabelsIn(u) = [LabelsIn(lines) EXCEPT ![e.ref] = e.label]
  <2> DEFINE L == [LabelsIn(lines) EXCEPT ![e.ref] = e.label]
  <2>1. \A i \in Ids : LabelsIn(u)[i] = L[i]
    BY <1>2, <1>3, <1>4, <1>6 DEF Bookmarked
  <2>2. DOMAIN L = Ids /\ DOMAIN LabelsIn(u) = Ids /\ L = [i \in Ids |-> L[i]] /\ LabelsIn(u) = [i \in Ids |-> LabelsIn(u)[i]]
    BY <1>2 DEF Bookmarked
  <2> QED BY <2>1, <2>2
<1> QED BY <1>5, <1>6 DEF u

----------------------------------------------------------------------------
(* The types of what the operations make *)

Labellings == LabelNames \union {NoLabel}
Disks == [Files -> Contents]

\* An entry with an id, a parent and a reference of their types is a line.
LEMMA EntryType ==
  ASSUME NEW kind \in LineKinds, NEW id \in Ids \union {Null}, NEW parent \in Ids \union {Null},
         NEW ref \in Ids \union Files \union {Null}, NEW label \in Labellings
  PROVE  /\ Entry(kind, id, parent, ref, label) \in Line
         /\ Entry(kind, id, parent, ref, label).id = id
         /\ Entry(kind, id, parent, ref, label).kind = kind
         /\ Entry(kind, id, parent, ref, label).parent = parent
         /\ Entry(kind, id, parent, ref, label).ref = ref
         /\ Entry(kind, id, parent, ref, label).label = label
BY DEF Entry, Line, Labellings

\* A header is a line without an id, and a list of its own is a session without entries.
LEMMA HeaderType ==
  ASSUME NEW f \in Files
  PROVE  /\ Header(f) \in Line /\ Header(f).kind = "session" /\ Header(f).id = Null
         /\ Header(f).parent = Null /\ <<Header(f)>> \in Seq(Line)
<1>1. "session" \in LineKinds /\ NoLabel \in Labellings
  BY DEF LineKinds, Labellings
<1>2. /\ Header(f) \in Line /\ Header(f).kind = "session" /\ Header(f).id = Null
      /\ Header(f).parent = Null
  <2>1. /\ Null \in Ids \union {Null} /\ f \in Ids \union Files \union {Null}
        /\ "session" \in LineKinds /\ NoLabel \in Labellings
    BY <1>1
  <2> QED BY <2>1 DEF Header, Entry, Line, Labellings
<1> QED BY <1>2

\* The id of the last line.
LEMMA LastIdType ==
  ASSUME NEW lines \in Seq(Line), lines # <<>>
  PROVE  /\ LastId(lines) \in Ids \union {Null}
         /\ LastId(lines) \in IdsOf(lines) \union {Null}
<1>1. Len(lines) \in 1 .. Len(lines) /\ DOMAIN lines = 1 .. Len(lines)
  BY LenProperties, EmptySeq
<1>2. lines[Len(lines)] \in Line
  BY <1>1, ElementOfSeq
<1> QED BY <1>1, <1>2 DEF LastId, IdsOf, Line

\* The manager of a new session.
LEMMA FreshType ==
  ASSUME NEW f \in Files, NEW persist \in BOOLEAN
  PROVE  /\ Fresh(f, persist) \in Manager
         /\ [Fresh(f, persist) EXCEPT !.flushed = TRUE] \in Manager
         /\ Fresh(f, persist).labels = LabelsIn(Fresh(f, persist).fileEntries)
<1>1. [i \in Ids |-> NoLabel] \in Bookmarked /\ <<Header(f)>> \in Seq(Line)
  BY HeaderType DEF Bookmarked
<1>2. Fresh(f, persist) \in Manager /\ [Fresh(f, persist) EXCEPT !.flushed = TRUE] \in Manager
  BY <1>1 DEF Fresh, Manager, Bookmarked
<1>3. ASSUME NEW i \in Ids PROVE LabelsIn(<<Header(f)>>)[i] = NoLabel
  <2>1. \A k \in DOMAIN <<Header(f)>> : ~IsLabel(<<Header(f)>>[k])
    BY HeaderType DEF IsLabel
  <2> QED BY <1>1, <2>1, LabelAfter
<1>4. LabelsIn(<<Header(f)>>) = [i \in Ids |-> NoLabel]
  BY <1>1, <1>3, LabelsType DEF Bookmarked
<1> QED BY <1>2, <1>4 DEF Fresh

\* The manager of a list of lines that starts with a header.
LEMMA IndexedType ==
  ASSUME NEW f \in Files, NEW persist \in BOOLEAN, NEW lines \in Seq(Line), lines # <<>>,
         NEW flushed \in BOOLEAN
  PROVE  /\ Indexed(f, persist, lines, flushed) \in Manager
         /\ Indexed(f, persist, lines, flushed).labels = LabelsIn(lines)
         /\ Indexed(f, persist, lines, flushed).leafId \in IdsOf(lines) \union {Null}
         /\ Indexed(f, persist, lines, flushed).fileEntries = lines
<1>1. LabelsIn(lines) \in Bookmarked
  BY LabelsType
<1> QED BY <1>1, LastIdType DEF Indexed, Manager, Bookmarked

\* A manager that can be: of these types, its leaf an entry, its labels the recorded ones.
Sound(s) ==
  /\ s \in Manager
  /\ s.leafId \in IdsOf(s.fileEntries) \union {Null}
  /\ s.labels = LabelsIn(s.fileEntries)

\* The manager of an opened file, and the disk after it was opened.
LEMMA OpenedType ==
  ASSUME NEW d \in Disks, NEW f \in Files
  PROVE  /\ Sound(OpenedManager(d, f)) /\ OpenedManager(d, f).file = f /\ OpenedManager(d, f).persist
         /\ OpenedDisk(d, f) \in Disks
         /\ \A g \in Files : g # f => OpenedDisk(d, f)[g] = d[g]
         /\ d[f] = Absent => OpenedDisk(d, f)[f] = Absent
         /\ IsPrefix(Loaded(d[f]), Loaded(OpenedDisk(d, f)[f]))
<1>1. d[f] \in Contents /\ <<Header(f)>> \in Contents
  BY HeaderType DEF Disks, Contents
<1>2. Loaded(d[f]) \in Seq(Line) /\ Loaded(<<Header(f)>>) \in Seq(Line)
  BY <1>1, LoadedIs
<1>3. /\ Fresh(f, TRUE).file = f /\ Fresh(f, TRUE).persist /\ Fresh(f, TRUE).leafId = Null
      /\ [Fresh(f, TRUE) EXCEPT !.flushed = TRUE].file = f
      /\ [Fresh(f, TRUE) EXCEPT !.flushed = TRUE].persist
      /\ [Fresh(f, TRUE) EXCEPT !.flushed = TRUE].leafId = Null
      /\ [Fresh(f, TRUE) EXCEPT !.flushed = TRUE].labels = Fresh(f, TRUE).labels
      /\ [Fresh(f, TRUE) EXCEPT !.flushed = TRUE].fileEntries = Fresh(f, TRUE).fileEntries
  BY DEF Fresh
<1>4. Sound(Fresh(f, TRUE)) /\ Sound([Fresh(f, TRUE) EXCEPT !.flushed = TRUE])
  BY <1>3, FreshType DEF Sound
<1>5. ASSUME Loaded(d[f]) # <<>>
      PROVE  /\ Sound(Indexed(f, TRUE, Loaded(d[f]), TRUE))
             /\ Indexed(f, TRUE, Loaded(d[f]), TRUE).file = f
             /\ Indexed(f, TRUE, Loaded(d[f]), TRUE).persist
  <2>1. Sound(Indexed(f, TRUE, Loaded(d[f]), TRUE))
    <3> DEFINE s == Indexed(f, TRUE, Loaded(d[f]), TRUE)
    <3>1. /\ s \in Manager /\ s.labels = LabelsIn(Loaded(d[f]))
          /\ s.leafId \in IdsOf(Loaded(d[f])) \union {Null} /\ s.fileEntries = Loaded(d[f])
      <4> HIDE DEF s
      <4>1. TRUE \in BOOLEAN
        OBVIOUS
      <4> QED BY <1>2, <1>5, <4>1, IndexedType, Zenon DEF s
    <3> HIDE DEF s
    <3>2. Sound(s)
      BY <3>1, Zenon DEF Sound
    <3> QED BY <3>2 DEF s
  <2> QED BY <2>1 DEF Indexed
<1>6. Sound(OpenedManager(d, f)) /\ OpenedManager(d, f).file = f /\ OpenedManager(d, f).persist
  BY <1>3, <1>4, <1>5, Zenon DEF OpenedManager
<1>7. OpenedDisk(d, f) \in Disks
  BY <1>1 DEF OpenedDisk, Disks
<1>8. (\A g \in Files : g # f => OpenedDisk(d, f)[g] = d[g]) /\ (d[f] = Absent => OpenedDisk(d, f)[f] = Absent)
  BY DEF OpenedDisk, Disks
<1>9. IsPrefix(Loaded(d[f]), Loaded(OpenedDisk(d, f)[f]))
  <2>1. CASE d[f] # Absent /\ Loaded(d[f]) = <<>>
    <3>1. OpenedDisk(d, f)[f] = <<Header(f)>>
      BY <2>1 DEF OpenedDisk, Disks
    <3> QED BY <1>2, <2>1, <3>1, PrefixIs
  <2>2. CASE ~(d[f] # Absent /\ Loaded(d[f]) = <<>>)
    <3>1. OpenedDisk(d, f)[f] = d[f]
      BY <2>2 DEF OpenedDisk
    <3> QED BY <1>2, <3>1, PrefixIs
  <2> QED BY <2>1, <2>2
<1> QED BY <1>6, <1>7, <1>8, <1>9

\* The bookmarks a fork copies: entries of the branch, each once, no more than there are ids for.
LEMMA TargetsAre ==
  ASSUME NEW s, NEW path \in Seq(Line)
  PROVE  LET t == LabelTargets(s, path)
         IN  /\ t \in Seq(Ids) /\ Len(t) \in Nat /\ DOMAIN t = 1 .. Len(t)
             /\ \A a, b \in DOMAIN t : t[a] = t[b] => a = b
             /\ \A k \in DOMAIN t : t[k] \in IdsOf(path) /\ s.labels[t[k]] # NoLabel
             /\ \A i \in Ids : s.labels[i] # NoLabel /\ i \in IdsOf(path) => \E k \in DOMAIN t : t[k] = i
             /\ Len(LabelTargets(s, WithoutLabels(path))) <= Len(t)
<1> DEFINE T(p) == {i \in Ids : s.labels[i] # NoLabel /\ i \in IdsOf(p)}
           t == LabelTargets(s, path)
<1>1. ASSUME NEW p PROVE IsFiniteSet(T(p))
  <2>1. IsFiniteSet(Ids)
    BY FS_Interval, BoundsAssumption DEF Ids
  <2> QED BY <2>1, FS_Subset
<1>2. \A p : LabelTargets(s, p) = SetToSeq(T(p))
  BY DEF LabelTargets
<1>3. /\ t \in Seq(T(path)) /\ Len(t) = Cardinality(T(path)) /\ Len(t) \in Nat /\ DOMAIN t = 1 .. Len(t)
      /\ \A a, b \in DOMAIN t : t[a] = t[b] => a = b
      /\ \A x \in T(path) : \E k \in DOMAIN t : t[k] = x
  <2> HIDE DEF T
  <2> QED BY <1>1, <1>2, Listed
<1>4. \A k \in DOMAIN t : t[k] \in T(path)
  <2> HIDE DEF T, t
  <2> QED BY <1>3, ElementOfSeq
<1>5. t \in Seq(Ids)
  <2> HIDE DEF t
  <2> QED BY <1>3, SeqMonotonic
<1>6. Len(LabelTargets(s, WithoutLabels(path))) <= Len(t)
  <2> DEFINE kept == WithoutLabels(path)
  <2>1. IdsOf(kept) \subseteq IdsOf(path)
    <3>1. \A j \in DOMAIN kept : \E i \in DOMAIN path : path[i] = kept[j]
      BY KindsMembers DEF WithoutLabels
    <3> QED BY <3>1 DEF IdsOf
  <2>2. T(kept) \subseteq T(path)
    BY <2>1
  <2>3. Len(LabelTargets(s, kept)) = Cardinality(T(kept))
    <3> HIDE DEF T, kept
    <3> QED BY <1>1, <1>2, Listed
  <2>4. Cardinality(T(kept)) <= Cardinality(T(path))
    <3> HIDE DEF T, kept
    <3> QED BY <1>1, <2>2, FS_Subset
  <2> QED BY <1>3, <2>3, <2>4
<1> HIDE DEF t
<1> QED BY <1>3, <1>4, <1>5, <1>6 DEF t

\* The label entries of a fork.
LEMMA LabelEntriesType ==
  ASSUME NEW s, s.labels \in Bookmarked, NEW path \in Seq(Line),
         nextId \in 1 .. MaxEntries + 1, nextId + Len(LabelTargets(s, path)) - 1 <= MaxEntries
  PROVE  LET kept == WithoutLabels(path)
             t == LabelTargets(s, kept)
             entries == LabelEntries(s, kept)
         IN  /\ kept \in Seq(Line)
             /\ entries \in Seq(Line) /\ Len(entries) = Len(t) /\ Len(t) \in Nat
             /\ nextId + Len(t) - 1 <= MaxEntries
             /\ \A k \in 1 .. Len(t) :
                  /\ entries[k].kind = "label" /\ entries[k].id = nextId + k - 1
                  /\ entries[k].parent = IF k > 1 THEN nextId + k - 2
                                         ELSE IF kept = <<>> THEN Null ELSE LastId(kept)
                  /\ entries[k].ref = t[k] /\ entries[k].label = s.labels[t[k]]
<1> DEFINE kept == WithoutLabels(path)
           t == LabelTargets(s, kept)
           Parent(k) == IF k > 1 THEN nextId + k - 2 ELSE IF kept = <<>> THEN Null ELSE LastId(kept)
           e(k) == Entry("label", nextId + k - 1, Parent(k), t[k], s.labels[t[k]])
           entries == LabelEntries(s, kept)
<1>1. kept \in Seq(Line)
  BY KindsAre DEF WithoutLabels
<1>2. t \in Seq(Ids) /\ Len(t) \in Nat /\ DOMAIN t = 1 .. Len(t)
  <2> HIDE DEF kept
  <2> QED BY <1>1, TargetsAre
<1>3. Len(t) <= Len(LabelTargets(s, path)) /\ Len(LabelTargets(s, path)) \in Nat
  BY TargetsAre
<1>4. nextId + Len(t) - 1 <= MaxEntries /\ nextId \in Nat /\ MaxEntries \in Nat /\ nextId >= 1
  <2> HIDE DEF t
  <2> QED BY <1>2, <1>3, BoundsAssumption
<1>5. entries = [k \in 1 .. Len(t) |-> e(k)]
  BY <1>2, Zenon DEF LabelEntries
<1> HIDE DEF t, kept, entries
<1>6. ASSUME NEW k \in 1 .. Len(t)
      PROVE  /\ nextId + k - 1 \in Ids \union {Null} /\ Parent(k) \in Ids \union {Null}
             /\ t[k] \in Ids \union Files \union {Null} /\ s.labels[t[k]] \in Labellings
  <2>1. nextId + k - 1 \in Ids
    BY <1>2, <1>4 DEF Ids
  <2>2. k > 1 => nextId + k - 2 \in Ids
    BY <1>2, <1>4 DEF Ids
  <2>3. kept # <<>> => LastId(kept) \in Ids \union {Null}
    BY <1>1, LastIdType
  <2>4. t[k] \in Ids
    BY <1>2, ElementOfSeq
  <2>5. s.labels[t[k]] \in Labellings
    BY <2>4 DEF Bookmarked, Labellings
  <2> QED BY <2>1, <2>2, <2>3, <2>4, <2>5
<1>7. ASSUME NEW k \in 1 .. Len(t)
      PROVE  /\ e(k) \in Line /\ e(k).kind = "label" /\ e(k).id = nextId + k - 1 /\ e(k).parent = Parent(k)
             /\ e(k).ref = t[k] /\ e(k).label = s.labels[t[k]]
  <2>1. "label" \in LineKinds
    BY DEF LineKinds
  <2> HIDE DEF Parent
  <2> QED BY <1>6, <2>1 DEF Entry, Line, Labellings
<1> HIDE DEF e
<1>8. entries \in Seq(Line) /\ Len(entries) = Len(t) /\ \A k \in 1 .. Len(t) : entries[k] = e(k)
  <2>1. entries \in [1 .. Len(t) -> Line]
    BY <1>5, <1>7
  <2>2. entries \in Seq(Line)
    BY <1>2, <2>1
  <2> QED BY <1>2, <1>5, <2>1, <2>2, LenProperties
<1> HIDE DEF Parent
<1>9. \A k \in 1 .. Len(t) :
        /\ entries[k].kind = "label" /\ entries[k].id = nextId + k - 1
        /\ entries[k].parent = Parent(k)
        /\ entries[k].ref = t[k] /\ entries[k].label = s.labels[t[k]]
  BY <1>7, <1>8
<1> QED BY <1>1, <1>2, <1>4, <1>8, <1>9 DEF t, kept, entries, Parent

\* The lines of a fork.
LEMMA BranchedType ==
  ASSUME NEW s, s.labels \in Bookmarked, NEW path \in Seq(Line), NEW f \in Files,
         nextId \in 1 .. MaxEntries + 1, nextId + Len(LabelTargets(s, path)) - 1 <= MaxEntries
  PROVE  BranchedEntries(s, path, f) \in Seq(Line) /\ BranchedEntries(s, path, f) # <<>>
<1> DEFINE kept == WithoutLabels(path)
           entries == LabelEntries(s, kept)
<1>1. kept \in Seq(Line) /\ entries \in Seq(Line) /\ <<Header(f)>> \in Seq(Line)
  BY LabelEntriesType, HeaderType
<1>2. BranchedEntries(s, path, f) = (<<Header(f)>> \o kept) \o entries
  BY DEF BranchedEntries
<1> HIDE DEF kept, entries
<1>3. <<Header(f)>> \o kept \in Seq(Line)
  BY <1>1, Joined
<1>4. (<<Header(f)>> \o kept) \o entries \in Seq(Line)
  BY <1>1, <1>3, Joined
<1>5. <<Header(f)>> \o kept # <<>>
  BY <1>1, ConcatEqualIffEmpty
<1>6. (<<Header(f)>> \o kept) \o entries # <<>>
  BY <1>1, <1>3, <1>5, ConcatEqualIffEmpty
<1> QED BY <1>2, <1>4, <1>6

\* Its first line is its header.
LEMMA BranchedFirst ==
  ASSUME NEW s, s.labels \in Bookmarked, NEW path \in Seq(Line), NEW f \in Files,
         nextId \in 1 .. MaxEntries + 1, nextId + Len(LabelTargets(s, path)) - 1 <= MaxEntries
  PROVE  LET lines == BranchedEntries(s, path, f)
         IN  1 \in DOMAIN lines /\ lines[1] = Header(f) /\ lines[1].kind = "session"
<1> DEFINE h == <<Header(f)>>
           kept == WithoutLabels(path)
           entries == LabelEntries(s, kept)
           lines == BranchedEntries(s, path, f)
<1>1. kept \in Seq(Line) /\ entries \in Seq(Line) /\ h \in Seq(Line) /\ Len(h) = 1 /\ h[1] = Header(f)
  BY LabelEntriesType, HeaderType
<1>2. lines = (h \o kept) \o entries /\ lines \in Seq(Line)
  BY BranchedType DEF BranchedEntries
<1>3. Header(f).kind = "session"
  BY HeaderType
<1> HIDE DEF kept, entries, h, lines
<1>4. h \o kept \in Seq(Line) /\ IsPrefix(h, h \o kept) /\ IsPrefix(h \o kept, lines)
  BY <1>1, <1>2, Joined, PrefixIs
<1>5. IsPrefix(h, lines)
  BY <1>1, <1>2, <1>4, PrefixOfPrefix
<1>6. 1 <= Len(lines) /\ lines[1] = h[1]
  <2>1. Len(h) <= Len(lines) /\ \A i \in 1 .. Len(h) : h[i] = lines[i]
    BY <1>1, <1>2, <1>5, PrefixIs
  <2> QED BY <1>1, <2>1
<1>7. 1 \in DOMAIN lines
  BY <1>2, <1>6, LenProperties
<1> QED BY <1>1, <1>3, <1>6, <1>7 DEF lines

----------------------------------------------------------------------------
(* What holds with crashes too: types, recorded labels, and no saved line lost *)

\* Opening a file again takes nothing from any file.
KeptOn(d, e) == \A f \in Files : IsPrefix(Loaded(d[f]), Loaded(e[f]))

\* What is loaded of a content is a list of lines.
LEMMA LoadedType ==
  ASSUME NEW d \in Disks, NEW f \in Files
  PROVE  Loaded(d[f]) \in Seq(Line)
BY LoadedIs DEF Disks

\* What two steps keep of what is saved, both together keep.
LEMMA KeptTwice ==
  ASSUME NEW c \in Disks, NEW d \in Disks, NEW e \in Disks, KeptOn(c, d), KeptOn(d, e)
  PROVE  KeptOn(c, e)
<1> SUFFICES ASSUME NEW f \in Files PROVE IsPrefix(Loaded(c[f]), Loaded(e[f]))
  BY DEF KeptOn
<1>1. Loaded(c[f]) \in Seq(Line) /\ Loaded(d[f]) \in Seq(Line) /\ Loaded(e[f]) \in Seq(Line)
  BY LoadedType
<1> QED BY <1>1, PrefixOfPrefix DEF KeptOn

\* A file changes to one that keeps what it held; the others stay.
LEMMA KeptOnChange ==
  ASSUME NEW d \in Disks, NEW f \in Files, NEW lines \in Contents, IsPrefix(Loaded(d[f]), Loaded(lines))
  PROVE  [d EXCEPT ![f] = lines] \in Disks /\ KeptOn(d, [d EXCEPT ![f] = lines]) /\ KeptOn(d, d)
<1>1. [d EXCEPT ![f] = lines] \in Disks
  BY DEF Disks
<1>2. ASSUME NEW g \in Files PROVE IsPrefix(Loaded(d[g]), Loaded(d[g]))
  BY LoadedType, PrefixIs
<1>3. ASSUME NEW g \in Files PROVE IsPrefix(Loaded(d[g]), Loaded([d EXCEPT ![f] = lines][g]))
  <2>1. CASE g = f
    <3>1. [d EXCEPT ![f] = lines][g] = lines
      BY <2>1 DEF Disks
    <3> QED BY <2>1, <3>1
  <2>2. CASE g # f
    <3>1. [d EXCEPT ![f] = lines][g] = d[g]
      BY <2>2 DEF Disks
    <3> QED BY <1>2, <3>1
  <2> QED BY <2>1, <2>2
<1> QED BY <1>1, <1>2, <1>3 DEF KeptOn

\* Opening a file keeps what is saved in every file.
LEMMA KeptOnOpened ==
  ASSUME NEW d \in Disks, NEW f \in Files
  PROVE  OpenedDisk(d, f) \in Disks /\ KeptOn(d, OpenedDisk(d, f))
<1>1. ASSUME NEW g \in Files PROVE IsPrefix(Loaded(d[g]), Loaded(OpenedDisk(d, f)[g]))
  <2>1. CASE g = f
    BY <2>1, OpenedType
  <2>2. CASE g # f
    <3>1. OpenedDisk(d, f)[g] = d[g] /\ Loaded(d[g]) \in Seq(Line)
      BY <2>2, OpenedType, LoadedType
    <3> QED BY <3>1, PrefixIs
  <2> QED BY <2>1, <2>2
<1> QED BY <1>1, OpenedType DEF KeptOn

\* Files that are named but not begun do not exist.
StoreInv ==
  /\ disk \in Disks /\ Sound(sm)
  /\ nextId \in 1 .. MaxEntries + 1 /\ nextFile \in 2 .. MaxFiles + 1 /\ crashes \in 0 .. MaxCrashes
  /\ sm.file < nextFile
  /\ \A f \in Files : f >= nextFile => disk[f] = Absent

\* The bounds, as numbers.
LEMMA BoundsAre ==
  /\ MaxEntries \in Nat /\ MaxFiles \in Nat \ {0} /\ MaxCrashes \in Nat
  /\ Files = 1 .. MaxFiles /\ Ids = 1 .. MaxEntries /\ Null = 0
BY BoundsAssumption DEF Files, Ids, Null

\* The invariant says at least that the variables have their types.
LEMMA StoreInvIs ==
  StoreInv => TypeOK /\ LabelsAreRecorded
BY DEF StoreInv, Sound, TypeOK, LabelsAreRecorded, Disks, Contents

\* The first session is sound and nothing is saved.
LEMMA InitStore ==
  ASSUME Init
  PROVE  StoreInv
<1>1. 1 \in Files /\ MaxFiles + 1 \in Nat /\ 2 \in 2 .. MaxFiles + 1 /\ 1 \in 1 .. MaxEntries + 1 /\ 0 \in 0 .. MaxCrashes
  BY BoundsAre
<1>2. disk \in Disks /\ \A f \in Files : disk[f] = Absent
  BY DEF Init, Disks, Contents
<1>3. PICK persist \in Persists : sm = Fresh(1, persist)
  BY DEF Init
<1>4. persist \in BOOLEAN
  BY PersistsAssumption
<1>5. Sound(sm) /\ sm.file = 1
  <2>1. Fresh(1, persist).leafId = Null /\ Fresh(1, persist).file = 1
    BY DEF Fresh
  <2> QED BY <1>1, <1>3, <1>4, <2>1, FreshType DEF Sound
<1> QED BY <1>1, <1>2, <1>5 DEF Init, StoreInv

\* The leaf of a manager to which an entry is added is this entry.
LEMMA PushedSound ==
  ASSUME NEW s, Sound(s), NEW e \in Line, e.id \in Ids
  PROVE  /\ ~IsLabel(e) => Sound(Pushed(s, e))
         /\ IsLabel(e) /\ e.ref \in Ids => Sound(Labelled(Pushed(s, e), e.ref, e.label))
         /\ Pushed(s, e).file = s.file /\ Pushed(s, e).persist = s.persist
         /\ Pushed(s, e).flushed = s.flushed
         /\ Pushed(s, e).fileEntries = Append(s.fileEntries, e) /\ Pushed(s, e).leafId = e.id
         /\ Labelled(Pushed(s, e), e.ref, e.label) =
              [Pushed(s, e) EXCEPT !.labels = [s.labels EXCEPT ![e.ref] = e.label]]
<1> DEFINE p == Pushed(s, e)
           u == Append(s.fileEntries, e)
<1>1. s \in Manager /\ s.fileEntries \in Seq(Line) /\ s.labels = LabelsIn(s.fileEntries)
  BY DEF Sound, Manager
<1>2. u \in Seq(Line) /\ e.id \in IdsOf(u)
  <2>1. u \in Seq(Line) /\ Len(u) = Len(s.fileEntries) + 1 /\ u[Len(s.fileEntries) + 1] = e /\ Len(s.fileEntries) \in Nat
    BY <1>1, AppendProperties, LenProperties
  <2>2. Len(s.fileEntries) + 1 \in DOMAIN u
    BY <2>1, LenProperties
  <2>3. e.id # Null
    BY BoundsAre
  <2> QED BY <2>1, <2>2, <2>3 DEF IdsOf
<1> HIDE DEF u
<1>3. p = [s EXCEPT !.fileEntries = u, !.leafId = e.id]
  BY DEF Pushed, u
<1>4. /\ p.file = s.file /\ p.persist = s.persist /\ p.flushed = s.flushed
      /\ p.fileEntries = u /\ p.leafId = e.id /\ p.labels = s.labels
      /\ p \in Manager
  BY <1>1, <1>2, <1>3 DEF Manager
<1> HIDE DEF p
<1>5. ASSUME ~IsLabel(e) PROVE Sound(p)
  <2>1. p.labels = LabelsIn(u)
    BY <1>1, <1>4, <1>5, LabelsOfAppend DEF u
  <2> QED BY <1>2, <1>4, <2>1 DEF Sound
<1>6. Labelled(p, e.ref, e.label) = [p EXCEPT !.labels = [s.labels EXCEPT ![e.ref] = e.label]]
  BY <1>4 DEF Labelled, Manager
<1>7. ASSUME IsLabel(e), e.ref \in Ids PROVE Sound(Labelled(p, e.ref, e.label))
  <2> DEFINE q == Labelled(p, e.ref, e.label)
  <2>1. [s.labels EXCEPT ![e.ref] = e.label] = LabelsIn(u)
    BY <1>1, <1>7, LabelsOfAppend DEF u
  <2>2. LabelsIn(u) \in Bookmarked
    BY <1>2, LabelsType
  <2>3. q = [p EXCEPT !.labels = LabelsIn(u)]
    BY <1>6, <2>1
  <2> HIDE DEF q
  <2>4. q \in Manager /\ q.labels = LabelsIn(u) /\ q.fileEntries = u /\ q.leafId = e.id
    BY <1>4, <2>2, <2>3 DEF Manager, Bookmarked
  <2>5. Sound(q)
    BY <1>2, <2>4 DEF Sound
  <2> QED BY <2>5 DEF q
<1> QED BY <1>4, <1>5, <1>6, <1>7 DEF p, u

\* Setting flushed leaves a manager sound.
LEMMA PersistedSound ==
  ASSUME NEW s, Sound(s)
  PROVE  /\ Sound(Persisted(s)) /\ Persisted(s).file = s.file /\ Persisted(s).persist = s.persist
         /\ Persisted(s).fileEntries = s.fileEntries
         /\ Persisted(s).flushed = IF s.persist THEN HasAssistant(s.fileEntries) ELSE s.flushed
<1> DEFINE b == IF s.persist THEN HasAssistant(s.fileEntries) ELSE s.flushed
<1>1. s \in Manager
  BY DEF Sound
<1>2. b \in BOOLEAN
  BY <1>1 DEF Manager, HasAssistant
<1>3. Persisted(s) = [s EXCEPT !.flushed = b]
  BY <1>1 DEF Persisted
<1> HIDE DEF b
<1>4. /\ Persisted(s) \in Manager /\ Persisted(s).file = s.file /\ Persisted(s).persist = s.persist
      /\ Persisted(s).fileEntries = s.fileEntries /\ Persisted(s).flushed = b
      /\ Persisted(s).leafId = s.leafId /\ Persisted(s).labels = s.labels
  BY <1>1, <1>2, <1>3 DEF Manager
<1> QED BY <1>4 DEF Sound, b

\* What is written are lines of the session.
LEMMA ToWriteType ==
  ASSUME NEW s, s.fileEntries \in Seq(Line)
  PROVE  ToWrite(s) \in Seq(Line)
<1>1. CASE HasAssistant(s.fileEntries)
  <2>1. Len(s.fileEntries) \in Nat /\ DOMAIN s.fileEntries = 1 .. Len(s.fileEntries)
    BY LenProperties
  <2>2. Len(s.fileEntries) \in 1 .. Len(s.fileEntries)
    BY <1>1, <2>1 DEF HasAssistant
  <2>3. s.fileEntries[Len(s.fileEntries)] \in Line
    BY <2>2, ElementOfSeq
  <2> QED BY <2>3 DEF ToWrite
<1>2. CASE ~HasAssistant(s.fileEntries)
  BY <1>2 DEF ToWrite
<1> QED BY <1>1, <1>2

\* Saving a manager.
LEMMA SaveStep ==
  ASSUME StoreInv, NEW s, Sound(s), s.file = sm.file, Save(s)
  PROVE  StoreInv' /\ KeptOn(disk, disk')
<1>1. /\ disk \in Disks /\ sm.file \in Files /\ disk[sm.file] \in Contents
      /\ s \in Manager /\ s.fileEntries \in Seq(Line)
  BY DEF StoreInv, Sound, Manager, Disks
<1>2. Sound(sm') /\ sm'.file = sm.file
  BY PersistedSound DEF Save
<1>3. disk' \in Disks /\ KeptOn(disk, disk') /\ \A f \in Files : f # sm.file => disk'[f] = disk[f]
  <2> DEFINE w == Written(disk[sm.file], ToWrite(s))
  <2>1. disk' = IF ToWrite(s) = <<>> THEN disk ELSE [disk EXCEPT ![sm.file] = w]
    BY <1>1 DEF Save, DiskAfter, Disks
  <2>2. w \in Contents /\ IsPrefix(Loaded(disk[sm.file]), Loaded(w))
    BY <1>1, ToWriteType, WrittenKeeps DEF Contents
  <2> HIDE DEF w
  <2>3. [disk EXCEPT ![sm.file] = w] \in Disks /\ KeptOn(disk, [disk EXCEPT ![sm.file] = w]) /\ KeptOn(disk, disk)
    BY <1>1, <2>2, KeptOnChange
  <2> QED BY <1>1, <2>1, <2>3 DEF Disks
<1>4. /\ nextId' \in 1 .. MaxEntries + 1 /\ nextFile' = nextFile /\ crashes' = crashes
  BY BoundsAre DEF StoreInv, Save
<1>5. \A f \in Files : f >= nextFile => disk'[f] = Absent
  <2>1. sm.file \in Nat /\ nextFile \in Nat /\ sm.file < nextFile
    BY <1>1, BoundsAre DEF StoreInv
  <2> QED BY <1>3, <2>1, BoundsAre DEF StoreInv
<1> QED BY <1>2, <1>3, <1>4, <1>5 DEF StoreInv

\* Opening file f of the disk d in which other files are as they were.
LEMMA OpenStep ==
  ASSUME StoreInv, NEW d \in Disks, KeptOn(disk, d), NEW f \in Files, f < nextFile',
         nextId' \in 1 .. MaxEntries + 1, nextFile' \in 2 .. MaxFiles + 1, crashes' \in 0 .. MaxCrashes,
         \A g \in Files : g >= nextFile' => d[g] = Absent,
         sm' = OpenedManager(d, f), disk' = OpenedDisk(d, f)
  PROVE  StoreInv' /\ KeptOn(disk, disk')
<1>1. Sound(sm') /\ sm'.file = f /\ disk' \in Disks /\ \A g \in Files : g # f => disk'[g] = d[g]
  BY OpenedType
<1>2. KeptOn(disk, disk')
  <2>1. disk \in Disks /\ disk' \in Disks /\ KeptOn(d, disk')
    BY <1>1, KeptOnOpened DEF StoreInv
  <2> QED BY <2>1, KeptTwice
<1>3. \A g \in Files : g >= nextFile' => disk'[g] = Absent
  <2> SUFFICES ASSUME NEW g \in Files, g >= nextFile' PROVE disk'[g] = Absent
    OBVIOUS
  <2>1. g # f
    BY BoundsAre
  <2> QED BY <1>1, <2>1
<1> QED BY <1>1, <1>2, <1>3 DEF StoreInv

\* A new session keeps the invariant.
LEMMA FreshStep ==
  ASSUME StoreInv, NEW persist \in BOOLEAN, FreshSession(persist)
  PROVE  StoreInv' /\ KeptOn(disk, disk')
<1>1. nextFile \in Files /\ nextFile' = nextFile + 1 /\ nextFile' \in 2 .. MaxFiles + 1
  BY BoundsAre DEF StoreInv, FreshSession
<1>2. Sound(sm') /\ sm'.file = nextFile
  <2>1. Fresh(nextFile, persist).leafId = Null /\ Fresh(nextFile, persist).file = nextFile
    BY DEF Fresh
  <2>2. sm' = Fresh(nextFile, persist)
    BY DEF FreshSession
  <2> QED BY <1>1, <2>1, <2>2, FreshType DEF Sound
<1>3. disk' = disk /\ nextId' = nextId /\ crashes' = crashes /\ disk \in Disks
  BY DEF FreshSession, StoreInv
<1>4. KeptOn(disk, disk')
  <2>1. \A f \in Files : IsPrefix(Loaded(disk[f]), Loaded(disk[f]))
    BY <1>3, LoadedType, PrefixIs
  <2> QED BY <1>3, <2>1 DEF KeptOn
<1>5. sm'.file < nextFile' /\ \A f \in Files : f >= nextFile' => disk'[f] = Absent
  <2>1. \A f \in Files : f >= nextFile' => f >= nextFile
    BY <1>1, BoundsAre
  <2>2. nextFile < nextFile'
    BY <1>1, BoundsAre
  <2> QED BY <1>2, <1>3, <2>1, <2>2 DEF StoreInv
<1> QED BY <1>1, <1>2, <1>3, <1>4, <1>5 DEF StoreInv

\* A new entry hangs on the leaf, or on the entry a summary is about.
LEMMA NewEntryType ==
  ASSUME StoreInv, NEW kind \in LineKinds, NEW parent \in Ids \union {Null},
         NEW ref \in Ids \union {Null}, NEW label \in Labellings, nextId <= MaxEntries
  PROVE  LET e == Entry(kind, nextId, parent, ref, label)
         IN  e \in Line /\ e.id = nextId /\ e.id \in Ids /\ e.kind = kind /\ e.parent = parent
             /\ e.ref = ref /\ e.label = label
<1>1. nextId \in Ids
  BY BoundsAre DEF StoreInv
<1> QED BY <1>1 DEF Entry, Line, Labellings

\* What the invariant says of the manager.
LEMMA LeafType ==
  ASSUME NEW s, Sound(s)
  PROVE  s.leafId \in Ids \union {Null} /\ s.fileEntries \in Seq(Line) /\ s.file \in Files
         /\ s.persist \in BOOLEAN /\ s.labels \in Bookmarked
BY DEF Sound, Manager, Bookmarked

\* Saving a pushed entry that is no label keeps the invariant.
LEMMA SavePlain ==
  ASSUME StoreInv, NEW e \in Line, e.id \in Ids, ~IsLabel(e), Save(Pushed(sm, e))
  PROVE  StoreInv' /\ KeptOn(disk, disk')
<1>1. Sound(Pushed(sm, e)) /\ Pushed(sm, e).file = sm.file
  BY PushedSound DEF StoreInv
<1> QED BY <1>1, SaveStep

\* The kinds a run appends are kinds of lines, none of them the header or a label.
LEMMA KindsTypes ==
  /\ \A kind \in Kinds : kind \in LineKinds /\ kind # "label"
  /\ "branch_summary" \in LineKinds /\ "label" \in LineKinds /\ NoLabel \in Labellings
BY KindsAssumption DEF LineKinds, PlainKinds, Labellings

\* One lemma for each action: it keeps the invariant, and what is saved.
LEMMA AppendEntryStore ==
  ASSUME StoreInv, NEW kind \in Kinds, AppendEntry(kind)
  PROVE  StoreInv' /\ KeptOn(disk, disk')
<1> DEFINE e == NewEntry(kind, Null, NoLabel)
<1>1. nextId <= MaxEntries /\ Save(Pushed(sm, e))
  BY DEF AppendEntry, Save
<1>2. e \in Line /\ e.id \in Ids /\ e.kind = kind
  <2>1. sm.leafId \in Ids \union {Null}
    BY LeafType DEF StoreInv
  <2> QED BY <1>1, <2>1, KindsTypes, NewEntryType DEF NewEntry
<1>3. ~IsLabel(e)
  BY <1>2, KindsTypes DEF IsLabel
<1> HIDE DEF e
<1> QED BY <1>1, <1>2, <1>3, SavePlain

\* Appending a compaction of the current branch.
LEMMA AppendCompactionStore ==
  ASSUME StoreInv, "compaction" \in Kinds, AppendCompaction
  PROVE  StoreInv' /\ KeptOn(disk, disk')
<1> DEFINE path == Branch(sm.fileEntries, sm.leafId)
<1>1. path \in Seq(Line) /\ sm.leafId \in Ids \union {Null}
  BY LeafType, BranchType DEF StoreInv
<1>2. PICK i \in KeptFrom(path) : Save(Pushed(sm, NewEntry("compaction", path[i].id, NoLabel)))
  BY DEF AppendCompaction
<1> DEFINE e == NewEntry("compaction", path[i].id, NoLabel)
<1>3. i \in DOMAIN path /\ nextId <= MaxEntries
  BY <1>2 DEF KeptFrom, Save
<1> HIDE DEF path
<1>4. path[i].id \in Ids \union {Null}
  <2>1. path[i] \in Line
    BY <1>1, <1>3, LenProperties, ElementOfSeq
  <2> QED BY <2>1 DEF Line
<1>5. e \in Line /\ e.id \in Ids /\ e.kind = "compaction"
  <2>1. "compaction" \in LineKinds /\ NoLabel \in Labellings
    BY KindsTypes
  <2>2. nextId \in Ids
    BY <1>3, BoundsAre DEF StoreInv
  <2> QED BY <1>1, <1>4, <2>1, <2>2 DEF NewEntry, Entry, Line, Labellings
<1>6. ~IsLabel(e)
  BY <1>5 DEF IsLabel
<1> HIDE DEF e
<1> QED BY <1>2, <1>5, <1>6, SavePlain DEF e

\* Setting or clearing a bookmark.
LEMMA AppendLabelStore ==
  ASSUME StoreInv, NEW target \in Ids, NEW label \in Labellings, AppendLabelChange(target, label)
  PROVE  StoreInv' /\ KeptOn(disk, disk')
<1> DEFINE e == NewEntry("label", target, label)
           s == Labelled(Pushed(sm, e), target, label)
<1>1. nextId <= MaxEntries /\ Save(s)
  BY DEF AppendLabelChange, Save
<1>2. e \in Line /\ e.id \in Ids /\ e.kind = "label" /\ e.ref = target /\ e.label = label
  <2>1. sm.leafId \in Ids \union {Null}
    BY LeafType DEF StoreInv
  <2> QED BY <1>1, <2>1, KindsTypes, NewEntryType DEF NewEntry
<1>3. IsLabel(e)
  BY <1>2 DEF IsLabel
<1> HIDE DEF e
<1>4. Sound(s) /\ s.file = sm.file
  <2>1. Sound(s)
    BY <1>2, <1>3, PushedSound DEF StoreInv
  <2>2. s.file = Pushed(sm, e).file
    BY DEF Labelled
  <2> QED BY <1>2, <2>1, <2>2, PushedSound DEF StoreInv
<1> HIDE DEF s
<1> QED BY <1>1, <1>4, SaveStep

\* Moving the leaf to an entry or before all of them.
LEMMA MoveLeafStore ==
  ASSUME StoreInv, NEW id \in IdsOf(sm.fileEntries) \union {Null}, MoveLeaf(id)
  PROVE  StoreInv' /\ KeptOn(disk, disk')
<1>1. /\ sm' = [sm EXCEPT !.leafId = id]
      /\ disk' = disk /\ nextId' = nextId /\ nextFile' = nextFile /\ crashes' = crashes
  BY DEF MoveLeaf
<1>2. IdsOf(sm.fileEntries) \subseteq Ids
  <2>1. sm.fileEntries \in Seq(Line) /\ DOMAIN sm.fileEntries = 1 .. Len(sm.fileEntries)
    BY LeafType, LenProperties DEF StoreInv
  <2>2. \A i \in DOMAIN sm.fileEntries : sm.fileEntries[i] \in Line
    BY <2>1, ElementOfSeq
  <2> QED BY <2>2 DEF IdsOf, Line
<1>3. /\ sm' \in Manager /\ sm'.fileEntries = sm.fileEntries /\ sm'.labels = sm.labels
      /\ sm'.leafId = id /\ sm'.file = sm.file
  BY <1>1, <1>2 DEF StoreInv, Sound, Manager
<1>4. Sound(sm')
  BY <1>3 DEF StoreInv, Sound
<1>5. KeptOn(disk, disk')
  <2>1. \A f \in Files : IsPrefix(Loaded(disk[f]), Loaded(disk[f]))
    BY LoadedType, PrefixIs DEF StoreInv
  <2> QED BY <1>1, <2>1 DEF KeptOn
<1> QED BY <1>1, <1>3, <1>4, <1>5 DEF StoreInv

\* Appending the summary of the branch that is left.
LEMMA SummaryStore ==
  ASSUME StoreInv, NEW id \in Ids \union {Null}, BranchWithSummary(id)
  PROVE  StoreInv' /\ KeptOn(disk, disk')
<1> DEFINE e == Entry("branch_summary", nextId, id, Null, NoLabel)
<1>1. nextId <= MaxEntries /\ Save(Pushed(sm, e))
  BY DEF BranchWithSummary, Save
<1>2. e \in Line /\ e.id \in Ids /\ e.kind = "branch_summary"
  BY <1>1, KindsTypes, NewEntryType
<1>3. ~IsLabel(e)
  BY <1>2 DEF IsLabel
<1> HIDE DEF e
<1> QED BY <1>1, <1>2, <1>3, SavePlain

\* Opening a file that is there.
LEMMA ResumeStore ==
  ASSUME StoreInv, NEW f \in Files, Resume(f)
  PROVE  StoreInv' /\ KeptOn(disk, disk')
<1>1. /\ disk[f] # Absent /\ sm' = OpenedManager(disk, f) /\ disk' = OpenedDisk(disk, f)
      /\ nextId' = nextId /\ nextFile' = nextFile /\ crashes' = crashes
  BY DEF Resume
<1>2. f < nextFile'
  BY <1>1, BoundsAre DEF StoreInv
<1>3. disk \in Disks /\ KeptOn(disk, disk)
  <2>1. \A g \in Files : IsPrefix(Loaded(disk[g]), Loaded(disk[g]))
    BY LoadedType, PrefixIs DEF StoreInv
  <2> QED BY <2>1 DEF KeptOn, StoreInv
<1> QED BY <1>1, <1>2, <1>3, OpenStep DEF StoreInv

\* A disk on which the next file has been made.
LEMMA NextFileMade ==
  ASSUME StoreInv, NEW d \in Disks, KeptOn(disk, d), \A g \in Files : g >= nextFile => d[g] = Absent,
         nextFile <= MaxFiles, nextFile' = nextFile + 1, NEW lines \in Seq(Line)
  PROVE  /\ nextFile \in Files /\ nextFile < nextFile' /\ nextFile' \in 2 .. MaxFiles + 1
         /\ [d EXCEPT ![nextFile] = lines] \in Disks /\ KeptOn(disk, [d EXCEPT ![nextFile] = lines])
         /\ \A g \in Files : g >= nextFile' => d[g] = Absent /\ [d EXCEPT ![nextFile] = lines][g] = Absent
<1>1. nextFile \in Files /\ nextFile < nextFile' /\ nextFile' \in 2 .. MaxFiles + 1
  BY BoundsAre DEF StoreInv
<1>2. disk \in Disks /\ lines \in Contents
  BY DEF StoreInv, Contents
<1>3. IsPrefix(Loaded(d[nextFile]), Loaded(lines))
  <2>1. ~HasHeader(d[nextFile])
    BY <1>1, BoundsAre DEF HasHeader
  <2>2. Loaded(d[nextFile]) = <<>> /\ Loaded(lines) \in Seq(Line)
    BY <1>2, <2>1, LoadedIs DEF Loaded
  <2> QED BY <2>2, PrefixIs
<1>4. [d EXCEPT ![nextFile] = lines] \in Disks /\ KeptOn(d, [d EXCEPT ![nextFile] = lines])
  BY <1>1, <1>2, <1>3, KeptOnChange
<1>5. KeptOn(disk, [d EXCEPT ![nextFile] = lines])
  BY <1>2, <1>4, KeptTwice
<1>6. \A g \in Files : g >= nextFile' => d[g] = Absent /\ [d EXCEPT ![nextFile] = lines][g] = Absent
  <2> SUFFICES ASSUME NEW g \in Files, g >= nextFile'
               PROVE  d[g] = Absent /\ [d EXCEPT ![nextFile] = lines][g] = Absent
    OBVIOUS
  <2>1. g >= nextFile /\ g # nextFile
    BY <1>1, BoundsAre DEF StoreInv
  <2> QED BY <2>1 DEF Disks
<1> QED BY <1>1, <1>4, <1>5, <1>6

\* Copying a file.
LEMMA ForkFromStore ==
  ASSUME StoreInv, NEW f \in Files, ForkFrom(f)
  PROVE  StoreInv' /\ KeptOn(disk, disk')
<1> DEFINE copy == <<Header(nextFile)>> \o EntriesOf(Loaded(disk[f]))
           d == [disk EXCEPT ![nextFile] = copy]
<1>1. /\ nextFile <= MaxFiles /\ sm' = OpenedManager(d, nextFile) /\ disk' = OpenedDisk(d, nextFile)
      /\ nextFile' = nextFile + 1 /\ nextId' = nextId /\ crashes' = crashes
  <2>1. /\ nextFile <= MaxFiles /\ sm' = OpenedManager(d, nextFile) /\ disk' = d
        /\ nextFile' = nextFile + 1 /\ nextId' = nextId /\ crashes' = crashes
    BY Zenon DEF ForkFrom
  <2>2. OpenedDisk(d, nextFile) = d
    <3>1. d[nextFile] = copy /\ nextFile \in Files
      BY <2>1, BoundsAre DEF StoreInv, Disks
    <3>2. copy \in Seq(Line) /\ Len(<<Header(nextFile)>>) = 1 /\ <<Header(nextFile)>>[1].kind = "session"
          /\ <<Header(nextFile)>> \in Seq(Line) /\ EntriesOf(Loaded(disk[f])) \in Seq(Line)
      <4>1. Loaded(disk[f]) \in Seq(Line)
        BY LoadedType DEF StoreInv
      <4>2. EntriesOf(Loaded(disk[f])) \in Seq(Line)
        BY <4>1, KindsAre DEF EntriesOf
      <4> QED BY <3>1, <4>2, HeaderType, Joined
    <3>3. HasHeader(copy)
      <4> DEFINE h == <<Header(nextFile)>>
                 r == EntriesOf(Loaded(disk[f]))
      <4>1. IsPrefix(h, h \o r) /\ h \o r \in Seq(Line) /\ h \in Seq(Line) /\ Len(h) = 1
        BY <3>2, PrefixIs
      <4> HIDE DEF h, r
      <4>2. Len(h) <= Len(h \o r) /\ h[1] = (h \o r)[1] /\ Len(h \o r) \in Nat /\ DOMAIN (h \o r) = 1 .. Len(h \o r)
        <5>1. Len(h \o r) \in Nat /\ DOMAIN (h \o r) = 1 .. Len(h \o r)
          BY <4>1, LenProperties
        <5>2. Len(h) <= Len(h \o r) /\ \A i \in 1 .. Len(h) : h[i] = (h \o r)[i]
          <6> DEFINE u == h \o r
          <6>1. h \in Seq(Line) /\ u \in Seq(Line) /\ IsPrefix(h, u)
            BY <4>1
          <6> HIDE DEF u
          <6>2. Len(h) <= Len(u) /\ \A i \in 1 .. Len(h) : h[i] = u[i]
            BY <6>1, PrefixIs
          <6> QED BY <6>2 DEF u
        <5> QED BY <4>1, <5>1, <5>2
      <4>3. h[1].kind = "session"
        BY <3>2 DEF h
      <4>4. h \o r # Absent
        BY <4>1, AbsentAssumption
      <4>5. HasHeader(h \o r)
        BY <4>1, <4>2, <4>3, <4>4 DEF HasHeader
      <4> QED BY <4>5 DEF h, r
    <3>4. Loaded(copy) # <<>>
      BY <3>2, <3>3, LoadedIs DEF Contents
    <3> HIDE DEF copy
    <3>5. ~(d[nextFile] # Absent /\ Loaded(d[nextFile]) = <<>>)
      BY <3>1, <3>4
    <3> HIDE DEF d
    <3> QED BY <3>5 DEF OpenedDisk
  <2> QED BY <2>1, <2>2
<1>2. copy \in Seq(Line)
  <2>1. nextFile \in Files
    BY <1>1, BoundsAre DEF StoreInv
  <2>2. Loaded(disk[f]) \in Seq(Line)
    BY LoadedType DEF StoreInv
  <2>3. EntriesOf(Loaded(disk[f])) \in Seq(Line)
    BY <2>2, KindsAre DEF EntriesOf
  <2> QED BY <2>1, <2>3, HeaderType, Joined
<1> HIDE DEF copy
<1>3. disk \in Disks /\ KeptOn(disk, disk)
  <2>1. \A g \in Files : IsPrefix(Loaded(disk[g]), Loaded(disk[g]))
    BY LoadedType, PrefixIs DEF StoreInv
  <2> QED BY <2>1 DEF KeptOn, StoreInv
<1>4. /\ nextFile \in Files /\ nextFile < nextFile' /\ nextFile' \in 2 .. MaxFiles + 1
      /\ d \in Disks /\ KeptOn(disk, d) /\ \A g \in Files : g >= nextFile' => d[g] = Absent
  BY <1>1, <1>2, <1>3, NextFileMade DEF StoreInv
<1> HIDE DEF d
<1>5. nextId' \in 1 .. MaxEntries + 1 /\ crashes' \in 0 .. MaxCrashes
  BY <1>1 DEF StoreInv
<1> QED BY <1>1, <1>4, <1>5, OpenStep

\* Forking a saved session.
LEMMA ForkSavedStore ==
  ASSUME StoreInv, NEW id \in Ids, ForkSaved(id)
  PROVE  StoreInv' /\ KeptOn(disk, disk')
<1> DEFINE source == OpenedManager(disk, sm.file)
           path == Branch(source.fileEntries, EntryOf(sm.fileEntries, id).parent)
           lines == BranchedEntries(source, path, nextFile)
           opened == OpenedDisk(disk, sm.file)
           d == BranchedDisk(opened, nextFile, lines)
<1>1. /\ nextFile <= MaxFiles /\ path # <<>>
      /\ nextId + Len(LabelTargets(source, path)) - 1 <= MaxEntries
      /\ sm' = OpenedManager(d, nextFile) /\ disk' = d
      /\ nextFile' = nextFile + 1 /\ nextId' = nextId + Len(LabelTargets(source, path))
      /\ crashes' = crashes
  BY Zenon DEF ForkSaved, ForkPoint
<1>2. disk \in Disks /\ sm.file \in Files /\ sm.file < nextFile /\ nextFile \in Files
  BY <1>1, LeafType, BoundsAre DEF StoreInv
<1>3. Sound(source)
  BY <1>2, OpenedType
<1>4. path \in Seq(Line) /\ source.labels \in Bookmarked
  <2> HIDE DEF source
  <2> QED BY <1>3, LeafType, BranchType
<1>5. Len(LabelTargets(source, path)) \in Nat
  <2> HIDE DEF source, path
  <2> QED BY <1>4, TargetsAre
<1>6. lines \in Seq(Line) /\ lines # <<>>
  <2> HIDE DEF source, path
  <2> QED BY <1>1, <1>2, <1>4, BranchedType DEF StoreInv
<1>7. nextId' \in 1 .. MaxEntries + 1
  <2> HIDE DEF source, path
  <2> QED BY <1>1, <1>5, BoundsAre DEF StoreInv
<1>8. /\ opened \in Disks /\ KeptOn(disk, opened) /\ \A g \in Files : g >= nextFile => opened[g] = Absent
  <2>1. opened \in Disks /\ KeptOn(disk, opened)
    BY <1>2, KeptOnOpened
  <2>2. \A g \in Files : g # sm.file => opened[g] = disk[g]
    BY <1>2, OpenedType
  <2>3. \A g \in Files : g >= nextFile => g # sm.file
    BY <1>2, BoundsAre DEF StoreInv
  <2> QED BY <2>1, <2>2, <2>3 DEF StoreInv
<1> HIDE DEF source, path, lines, opened
<1>9. /\ d \in Disks /\ KeptOn(disk, d) /\ nextFile < nextFile' /\ nextFile' \in 2 .. MaxFiles + 1
      /\ \A g \in Files : g >= nextFile' => d[g] = Absent
  <2>1. /\ nextFile < nextFile' /\ nextFile' \in 2 .. MaxFiles + 1
        /\ [opened EXCEPT ![nextFile] = lines] \in Disks /\ KeptOn(disk, [opened EXCEPT ![nextFile] = lines])
        /\ \A g \in Files : g >= nextFile' =>
             opened[g] = Absent /\ [opened EXCEPT ![nextFile] = lines][g] = Absent
    BY <1>1, <1>6, <1>8, NextFileMade
  <2> QED BY <1>8, <2>1 DEF BranchedDisk
<1>10. OpenedDisk(d, nextFile) = d
  <2>1. CASE HasAssistant(lines)
    <3>1. d[nextFile] = lines
      BY <1>2, <1>8, <2>1 DEF BranchedDisk, Disks
    <3>2. HasHeader(lines)
      <4>1. lines[1].kind = "session" /\ 1 \in DOMAIN lines
        BY <1>2, <1>4, <1>1, BranchedFirst DEF StoreInv, lines
      <4>2. lines # Absent
        BY <1>6, AbsentAssumption
      <4>3. \A j \in 1 .. 1 - 1 : lines[j].kind \notin ReadableKinds
        OBVIOUS
      <4> QED BY <4>1, <4>2, <4>3 DEF HasHeader
    <3>3. Loaded(lines) # <<>>
      BY <1>6, <3>2, LoadedIs DEF Contents
    <3> HIDE DEF d
    <3> QED BY <3>1, <3>3 DEF OpenedDisk
  <2>2. CASE ~HasAssistant(lines)
    <3>1. d[nextFile] = Absent
      <4>1. nextFile >= nextFile
        BY <1>2, BoundsAre
      <4> QED BY <1>2, <1>8, <2>2, <4>1 DEF BranchedDisk
    <3> HIDE DEF d
    <3> QED BY <3>1 DEF OpenedDisk
  <2> QED BY <2>1, <2>2
<1> HIDE DEF d
<1>11. crashes' \in 0 .. MaxCrashes
  BY <1>1 DEF StoreInv
<1> QED BY <1>1, <1>2, <1>7, <1>9, <1>10, <1>11, OpenStep

\* Forking a session in memory.
LEMMA ForkInMemoryStore ==
  ASSUME StoreInv, NEW id \in Ids, ForkInMemory(id)
  PROVE  StoreInv' /\ KeptOn(disk, disk')
<1> DEFINE path == Branch(sm.fileEntries, EntryOf(sm.fileEntries, id).parent)
           lines == BranchedEntries(sm, path, nextFile)
<1>1. /\ nextFile <= MaxFiles
      /\ nextId + Len(LabelTargets(sm, path)) - 1 <= MaxEntries
      /\ sm' = Indexed(sm.file, FALSE, lines, sm.flushed) /\ disk' = disk
      /\ nextFile' = nextFile + 1 /\ nextId' = nextId + Len(LabelTargets(sm, path))
      /\ crashes' = crashes
  BY Zenon DEF ForkInMemory, ForkPoint
<1>2. /\ disk \in Disks /\ sm.file \in Files /\ nextFile \in Files /\ sm.file < nextFile
      /\ nextFile < nextFile' /\ nextFile' \in 2 .. MaxFiles + 1 /\ sm.flushed \in BOOLEAN
  BY <1>1, LeafType, BoundsAre DEF StoreInv, Sound, Manager
<1>3. path \in Seq(Line) /\ sm.labels \in Bookmarked
  BY LeafType, BranchType DEF StoreInv
<1>4. Len(LabelTargets(sm, path)) \in Nat
  <2> HIDE DEF path
  <2> QED BY <1>3, TargetsAre
<1>5. lines \in Seq(Line) /\ lines # <<>>
  <2> HIDE DEF path
  <2> QED BY <1>1, <1>2, <1>3, BranchedType DEF StoreInv
<1>6. nextId' \in 1 .. MaxEntries + 1
  <2> HIDE DEF path
  <2> QED BY <1>1, <1>4, BoundsAre DEF StoreInv
<1> HIDE DEF path, lines
<1>7. Sound(sm') /\ sm'.file = sm.file
  <2>1. FALSE \in BOOLEAN
    OBVIOUS
  <2>2. /\ sm' \in Manager /\ sm'.labels = LabelsIn(lines) /\ sm'.leafId \in IdsOf(lines) \union {Null}
        /\ sm'.fileEntries = lines
    <3> DEFINE m == Indexed(sm.file, FALSE, lines, sm.flushed)
    <3>1. /\ m \in Manager /\ m.labels = LabelsIn(lines) /\ m.leafId \in IdsOf(lines) \union {Null}
          /\ m.fileEntries = lines
      BY <1>2, <1>5, <2>1, IndexedType
    <3>2. sm' = m
      BY <1>1
    <3> HIDE DEF m
    <3> QED BY <3>1, <3>2
  <2>3. sm'.file = sm.file
    BY <1>1 DEF Indexed
  <2> QED BY <2>2, <2>3, Zenon DEF Sound
<1>8. KeptOn(disk, disk')
  <2>1. \A g \in Files : IsPrefix(Loaded(disk[g]), Loaded(disk[g]))
    BY <1>2, LoadedType, PrefixIs
  <2> QED BY <1>1, <2>1 DEF KeptOn
<1>9. sm'.file < nextFile' /\ \A g \in Files : g >= nextFile' => disk'[g] = Absent
  <2>1. \A g \in Files : g >= nextFile' => g >= nextFile
    BY <1>2, BoundsAre
  <2>2. sm'.file < nextFile'
    BY <1>2, <1>7, BoundsAre
  <2> QED BY <1>1, <2>1, <2>2 DEF StoreInv
<1> QED BY <1>1, <1>2, <1>6, <1>7, <1>8, <1>9 DEF StoreInv

\* A crash while an entry is appended, and what opens a file after it.
LEMMA CrashStore ==
  ASSUME StoreInv, NEW kind \in Kinds, CrashWhileAppending(kind)
  PROVE  StoreInv' /\ KeptOn(disk, disk')
<1> DEFINE s == Pushed(sm, NewEntry(kind, Null, NoLabel))
           w == ToWrite(s)
           d(n, torn) == [disk EXCEPT ![sm.file] = Interrupted(disk[sm.file], w, n, torn)]
<1>1. disk \in Disks /\ sm.file \in Files /\ disk[sm.file] \in Contents
  BY LeafType DEF StoreInv, Disks
<1>2. PICK n \in 0 .. Len(w) - 1, torn \in BOOLEAN :
        \E f \in Files :
          \/ /\ d(n, torn)[f] # Absent /\ sm' = OpenedManager(d(n, torn), f)
             /\ disk' = OpenedDisk(d(n, torn), f) /\ UNCHANGED nextFile
          \/ /\ f = nextFile /\ sm' = Fresh(f, TRUE) /\ disk' = d(n, torn) /\ nextFile' = nextFile + 1
  <2>1. \A n, torn : [disk EXCEPT ![sm.file] = Interrupted(@, w, n, torn)] = d(n, torn)
    BY <1>1 DEF Disks
  <2> HIDE DEF w
  <2>2. \E n \in 0 .. Len(w) - 1, torn \in BOOLEAN :
          LET e == [disk EXCEPT ![sm.file] = Interrupted(@, w, n, torn)]
          IN  \E f \in Files :
                \/ /\ e[f] # Absent /\ sm' = OpenedManager(e, f)
                   /\ disk' = OpenedDisk(e, f) /\ UNCHANGED nextFile
                \/ /\ f = nextFile /\ sm' = Fresh(f, TRUE) /\ disk' = e /\ nextFile' = nextFile + 1
    BY Zenon DEF CrashWhileAppending, w
  <2> QED BY <2>1, <2>2, Zenon
<1>3. /\ nextId' = nextId + 1 /\ crashes' = crashes + 1 /\ crashes < MaxCrashes /\ nextId <= MaxEntries
  BY DEF CrashWhileAppending
<1>4. /\ nextId' \in 1 .. MaxEntries + 1 /\ crashes' \in 0 .. MaxCrashes
  BY <1>3, BoundsAre DEF StoreInv
<1>5. w \in Seq(Line)
  <2>1. NewEntry(kind, Null, NoLabel) \in Line /\ sm.fileEntries \in Seq(Line)
    <3>1. sm.leafId \in Ids \union {Null} /\ sm.fileEntries \in Seq(Line)
      BY LeafType DEF StoreInv
    <3> QED BY <1>3, <3>1, KindsTypes, NewEntryType DEF NewEntry
  <2>2. s.fileEntries = Append(sm.fileEntries, NewEntry(kind, Null, NoLabel))
    BY LeafType DEF Pushed, StoreInv, Sound, Manager
  <2> HIDE DEF s
  <2>3. s.fileEntries \in Seq(Line)
    BY <2>1, <2>2, AppendProperties
  <2> QED BY <2>3, ToWriteType
<1> HIDE DEF w
<1> DEFINE e == d(n, torn)
<1>6. /\ e \in Disks /\ KeptOn(disk, e) /\ \A f \in Files : f # sm.file => e[f] = disk[f]
  <2> DEFINE c == Interrupted(disk[sm.file], w, n, torn)
  <2>1. c \in Contents /\ IsPrefix(Loaded(disk[sm.file]), Loaded(c))
    BY <1>1, <1>2, <1>5, InterruptedKeeps DEF Contents
  <2> HIDE DEF c
  <2>2. [disk EXCEPT ![sm.file] = c] \in Disks /\ KeptOn(disk, [disk EXCEPT ![sm.file] = c])
    BY <1>1, <2>1, KeptOnChange
  <2>3. \A f \in Files : f # sm.file => [disk EXCEPT ![sm.file] = c][f] = disk[f]
    BY <1>1 DEF Disks
  <2> QED BY <2>2, <2>3 DEF c
<1>7. \A f \in Files : f >= nextFile => e[f] = Absent
  <2>1. \A f \in Files : f >= nextFile => f # sm.file
    BY <1>1, BoundsAre DEF StoreInv
  <2> HIDE DEF e
  <2> QED BY <1>6, <2>1 DEF StoreInv
<1>8. \E f \in Files :
        \/ /\ e[f] # Absent /\ sm' = OpenedManager(e, f)
           /\ disk' = OpenedDisk(e, f) /\ nextFile' = nextFile
        \/ /\ f = nextFile /\ sm' = Fresh(f, TRUE) /\ disk' = e /\ nextFile' = nextFile + 1
  BY <1>2
<1> HIDE DEF e
<1>9. PICK f \in Files :
        \/ /\ e[f] # Absent /\ sm' = OpenedManager(e, f)
           /\ disk' = OpenedDisk(e, f) /\ nextFile' = nextFile
        \/ /\ f = nextFile /\ sm' = Fresh(f, TRUE) /\ disk' = e /\ nextFile' = nextFile + 1
  BY <1>8
<1>10. CASE /\ e[f] # Absent /\ sm' = OpenedManager(e, f)
            /\ disk' = OpenedDisk(e, f) /\ nextFile' = nextFile
  <2>1. f < nextFile' /\ nextFile' \in 2 .. MaxFiles + 1 /\ \A g \in Files : g >= nextFile' => e[g] = Absent
    BY <1>7, <1>10, BoundsAre DEF StoreInv
  <2> QED BY <1>4, <1>6, <1>10, <2>1, OpenStep
<1>11. CASE /\ f = nextFile /\ sm' = Fresh(f, TRUE) /\ disk' = e /\ nextFile' = nextFile + 1
  <2>1. Sound(sm') /\ sm'.file = f
    <3>1. Fresh(f, TRUE).leafId = Null /\ Fresh(f, TRUE).file = f /\ TRUE \in BOOLEAN
      BY DEF Fresh
    <3> QED BY <1>11, <3>1, FreshType DEF Sound
  <2>2. sm'.file < nextFile' /\ nextFile' \in 2 .. MaxFiles + 1 /\ \A g \in Files : g >= nextFile' => g >= nextFile
    <3>1. nextFile \in Nat /\ nextFile \in Files /\ nextFile \in 2 .. MaxFiles + 1
      BY <1>11, BoundsAre DEF StoreInv
    <3>2. nextFile' = nextFile + 1 /\ sm'.file = nextFile /\ MaxFiles \in Nat /\ Files = 1 .. MaxFiles
      BY <1>11, <2>1, BoundsAre
    <3> QED BY <3>1, <3>2
  <2> QED BY <1>4, <1>6, <1>7, <1>11, <2>1, <2>2 DEF StoreInv
<1> QED BY <1>9, <1>10, <1>11

\* Every action keeps the invariant, and no line of a file that can be read is lost.
LEMMA StoreStep ==
  ASSUME StoreInv, Next
  PROVE  StoreInv' /\ KeptOn(disk, disk')
<1>1. ASSUME NEW kind \in Kinds \ {"compaction", "branch_summary"},
             AppendEntry(kind) \/ CrashWhileAppending(kind)
      PROVE  StoreInv' /\ KeptOn(disk, disk')
  BY <1>1, AppendEntryStore, CrashStore
<1>2. ASSUME "compaction" \in Kinds, AppendCompaction PROVE StoreInv' /\ KeptOn(disk, disk')
  BY <1>2, AppendCompactionStore
<1>3. ASSUME NEW id \in Ids, NEW label \in LabelNames \union {NoLabel}, AppendLabelChange(id, label)
      PROVE  StoreInv' /\ KeptOn(disk, disk')
  BY <1>3, AppendLabelStore DEF Labellings
<1>4. ASSUME NEW id \in Ids, BranchTo(id) PROVE StoreInv' /\ KeptOn(disk, disk')
  BY <1>4, MoveLeafStore DEF BranchTo
<1>5. ASSUME NEW id \in Ids \union {Null}, BranchWithSummary(id)
      PROVE  StoreInv' /\ KeptOn(disk, disk')
  BY <1>5, SummaryStore
<1>6. ASSUME ResetLeaf PROVE StoreInv' /\ KeptOn(disk, disk')
  BY <1>6, MoveLeafStore DEF ResetLeaf
<1>7. ASSUME NEW id \in Ids, ForkSaved(id) \/ ForkInMemory(id) \/ ForkAtRoot(id)
      PROVE  StoreInv' /\ KeptOn(disk, disk')
  <2>1. ASSUME ForkAtRoot(id) PROVE StoreInv' /\ KeptOn(disk, disk')
    <3>1. sm.persist \in BOOLEAN
      BY LeafType DEF StoreInv
    <3> QED BY <2>1, <3>1, FreshStep DEF ForkAtRoot
  <2> QED BY <1>7, <2>1, ForkSavedStore, ForkInMemoryStore
<1>8. ASSUME NewSession PROVE StoreInv' /\ KeptOn(disk, disk')
  BY <1>8, FreshStep DEF NewSession
<1>9. ASSUME NEW f \in Files, Resume(f) \/ ForkFrom(f) PROVE StoreInv' /\ KeptOn(disk, disk')
  BY <1>9, ResumeStore, ForkFromStore
<1> QED BY <1>1, <1>2, <1>3, <1>4, <1>5, <1>6, <1>7, <1>8, <1>9 DEF Next, Operate, Mark, Crash

\* A step that changes nothing.
LEMMA StutterStore ==
  ASSUME StoreInv, UNCHANGED vars
  PROVE  StoreInv'
BY DEF StoreInv, Sound, vars

\* TypeTheorem: the variables keep their types, and the leaf is an entry of the session or none,
\* after forks, crashes and reloads of what a crash left (session-manager.ts).
THEOREM TypeTheorem == Spec => []TypeOK
<1>1. StoreInv /\ [Next]_vars => StoreInv'
  BY StoreStep, StutterStore
<1>2. Init => StoreInv
  BY InitStore
<1>3. StoreInv => TypeOK
  BY StoreInvIs
<1> QED BY <1>1, <1>2, <1>3, PTL DEF Spec

\* LabelsTheorem: the table of bookmarks kept by appends is the one a reload computes from the
\* entries (_buildIndex), whatever was forked, loaded or cut short.
THEOREM LabelsTheorem == Spec => []LabelsAreRecorded
<1>1. StoreInv /\ [Next]_vars => StoreInv'
  BY StoreStep, StutterStore
<1>2. Init => StoreInv
  BY InitStore
<1>3. StoreInv => LabelsAreRecorded
  BY StoreInvIs
<1> QED BY <1>1, <1>2, <1>3, PTL DEF Spec

\* SavedTheorem: no step, a crash in the middle of a write included, takes a line from a file
\* that a reader of it would have found, or puts one before it.
THEOREM SavedTheorem == Spec => NothingSavedIsLost
<1>1. StoreInv /\ [Next]_vars => StoreInv'
  BY StoreStep, StutterStore
<1>2. Init => StoreInv
  BY InitStore
<1>3. StoreInv /\ [Next]_vars =>
        [\A f \in Files : disk'[f] # disk[f] => IsPrefix(Loaded(disk[f]), Loaded(disk'[f]))]_vars
  BY StoreStep DEF KeptOn
<1> QED BY <1>1, <1>2, <1>3, PTL DEF Spec, NothingSavedIsLost

----------------------------------------------------------------------------
(* Lists of entries in the order of their ids *)

Ordered(lines) == \A i, j \in DOMAIN lines : i < j => lines[i].id < lines[j].id

\* Ids and parents are numbers.
LEMMA LineIds ==
  ASSUME NEW l \in Line
  PROVE  l.id \in Nat /\ l.parent \in Nat
BY BoundsAre DEF Line

\* Two ordered lists, the second with greater ids, are one ordered list.
LEMMA OrderedBoth ==
  ASSUME NEW p \in Seq(Line), NEW q \in Seq(Line), Ordered(p), Ordered(q),
         \A i \in DOMAIN p, j \in DOMAIN q : p[i].id < q[j].id
  PROVE  Ordered(p \o q)
<1>1. /\ Len(p) \in Nat /\ Len(q) \in Nat /\ DOMAIN p = 1 .. Len(p) /\ DOMAIN q = 1 .. Len(q)
  BY LenProperties
<1>2. /\ p \o q \in Seq(Line) /\ Len(p \o q) = Len(p) + Len(q)
      /\ \A i \in 1 .. Len(p) + Len(q) : (p \o q)[i] = IF i <= Len(p) THEN p[i] ELSE q[i - Len(p)]
  BY ConcatProperties
<1>3. DOMAIN (p \o q) = 1 .. Len(p) + Len(q)
  BY <1>2, LenProperties
<1> SUFFICES ASSUME NEW i \in 1 .. Len(p) + Len(q), NEW j \in 1 .. Len(p) + Len(q), i < j
             PROVE  (p \o q)[i].id < (p \o q)[j].id
  BY <1>3 DEF Ordered
<1>4. CASE j <= Len(p)
  BY <1>1, <1>2, <1>4 DEF Ordered
<1>5. CASE i <= Len(p) /\ ~(j <= Len(p))
  <2>1. i \in DOMAIN p /\ j - Len(p) \in DOMAIN q
    BY <1>1, <1>5
  <2> QED BY <1>2, <1>5, <2>1
<1>6. CASE ~(i <= Len(p)) /\ ~(j <= Len(p))
  <2>1. i - Len(p) \in DOMAIN q /\ j - Len(p) \in DOMAIN q /\ i - Len(p) < j - Len(p)
    BY <1>1, <1>6
  <2> QED BY <1>2, <1>6, <2>1 DEF Ordered
<1> QED BY <1>1, <1>4, <1>5, <1>6

\* A list of one line is ordered.
LEMMA OrderedOne ==
  ASSUME NEW l \in Line
  PROVE  <<l>> \in Seq(Line) /\ Len(<<l>>) = 1 /\ DOMAIN <<l>> = 1 .. 1 /\ <<l>>[1] = l /\ Ordered(<<l>>)
BY DEF Ordered

\* The lines of some kinds keep the order of all.
LEMMA KindsOrdered ==
  ASSUME NEW lines \in Seq(Line), Ordered(lines), NEW kinds
  PROVE  Ordered(OfKinds(lines, kinds))
<1> DEFINE f == First(lines, kinds)
           N == Len(lines)
           Good(p, n) == Ordered(p) /\ \A j \in DOMAIN p : \E i \in 1 .. n : lines[i] = p[j]
           T == {n \in 0 .. N : Good(f[n], n)}
<1>1. /\ N \in Nat /\ DOMAIN lines = 1 .. N /\ f[0] = <<>>
      /\ \A n \in 0 .. N - 1 : f[n + 1] = f[n] \o If(lines[n + 1], kinds)
      /\ \A n \in 0 .. N : f[n] \in Seq(Line)
      /\ \A n \in 1 .. N : lines[n] \in Line
  BY Firsts, Zenon
<1> HIDE DEF f, N
<1>2. Good(f[0], 0)
  BY <1>1 DEF Ordered
<1>3. ASSUME NEW n \in 0 .. N - 1, Good(f[n], n) PROVE Good(f[n + 1], n + 1)
  <2>1. n + 1 \in 1 .. N /\ n \in 0 .. N /\ n \in Nat
    BY <1>1
  <2> DEFINE p == f[n]
             q == f[n + 1]
             l == lines[n + 1]
  <2>2. q = p \o If(l, kinds) /\ p \in Seq(Line) /\ l \in Line /\ Good(p, n)
    BY <1>1, <1>3, <2>1
  <2>3. \A i \in 1 .. n : lines[i].id < l.id
    BY <1>1, <2>1 DEF Ordered
  <2> HIDE DEF p, q, l
  <2>4. CASE l.kind \in kinds
    <3>1. q = p \o <<l>>
      BY <2>2, <2>4 DEF If
    <3>2. <<l>> \in Seq(Line) /\ Ordered(<<l>>) /\ DOMAIN <<l>> = 1 .. 1 /\ <<l>>[1] = l /\ Len(<<l>>) = 1
      BY <2>2, OrderedOne
    <3>3. \A i \in DOMAIN p, j \in DOMAIN <<l>> : p[i].id < <<l>>[j].id
      BY <2>2, <2>3, <3>2
    <3>4. Ordered(q)
      BY <2>2, <3>1, <3>2, <3>3, OrderedBoth
    <3>5. ASSUME NEW j \in DOMAIN q PROVE \E i \in 1 .. n + 1 : lines[i] = q[j]
      <4>1. Len(p) \in Nat /\ DOMAIN p = 1 .. Len(p)
        BY <2>2, LenProperties
      <4>2. q \in Seq(Line) /\ Len(q) = Len(p) + 1 /\ \A k \in 1 .. Len(p) + 1 :
              q[k] = IF k <= Len(p) THEN p[k] ELSE <<l>>[k - Len(p)]
        BY <2>2, <3>1, <3>2, ConcatProperties
      <4>3. j \in 1 .. Len(p) + 1
        BY <4>2, LenProperties
      <4>4. CASE j <= Len(p)
        <5>1. j \in DOMAIN p /\ q[j] = p[j]
          BY <4>1, <4>2, <4>3, <4>4
        <5>2. PICK i \in 1 .. n : lines[i] = p[j]
          BY <2>2, <5>1
        <5> QED BY <2>1, <5>1, <5>2
      <4>5. CASE ~(j <= Len(p))
        <5>1. j - Len(p) = 1 /\ n + 1 \in 1 .. n + 1
          BY <2>1, <4>1, <4>3, <4>5
        <5>2. q[j] = l
          BY <3>2, <4>2, <4>3, <4>5, <5>1
        <5> QED BY <5>1, <5>2 DEF l
      <4> QED BY <4>4, <4>5
    <3> QED BY <3>4, <3>5 DEF q
  <2>5. CASE l.kind \notin kinds
    <3>1. q = p
      BY <2>2, <2>5, Joined DEF If
    <3>2. \A i \in 1 .. n : i \in 1 .. n + 1
      BY <2>1
    <3>3. Good(p, n + 1)
      BY <2>2, <3>2
    <3> QED BY <3>1, <3>3 DEF q
  <2> QED BY <2>4, <2>5
<1> HIDE DEF Good
<1>4. \A n \in 0 .. N : n \in T
  <2>1. 0 \in T /\ \A n \in 0 .. N - 1 : n \in T => n + 1 \in T
    BY <1>1, <1>2, <1>3
  <2> HIDE DEF T
  <2> QED BY <1>1, <2>1, Upwards
<1>5. Good(f[N], N)
  BY <1>1, <1>4
<1>6. OfKinds(lines, kinds) = f[N]
  BY KindsAre DEF f, N
<1> QED BY <1>5, <1>6 DEF Good

----------------------------------------------------------------------------
(* What a session looks like that no crash has cut *)

\* A header, and entries with ids below n in their order, each after its parent.
Whole(lines, n) ==
  /\ lines \in Seq(Line) /\ 1 \in DOMAIN lines
  /\ lines[1].kind = "session" /\ lines[1].id = Null
  /\ \A i \in DOMAIN lines : i # 1 =>
       lines[i].kind \in ReadableKinds \ {"session"} /\ lines[i].parent < lines[i].id
  /\ Ordered(lines)
  /\ \A i \in DOMAIN lines : lines[i].id < n

\* Its entries are the lines after the header, the only ones with an id.
EntriesIn(lines) == {lines[i] : i \in DOMAIN lines \ {1}}

\* What follows from being whole: ids tell the lines apart, and all are readable.
LEMMA WholeIs ==
  ASSUME NEW n, NEW lines, Whole(lines, n)
  PROVE  /\ Len(lines) \in Nat \ {0} /\ DOMAIN lines = 1 .. Len(lines)
         /\ \A i \in DOMAIN lines : lines[i] \in Line /\ lines[i].id \in Nat /\ lines[i].parent \in Nat
         /\ \A i \in DOMAIN lines : i # 1 => lines[i].id \in Ids /\ lines[i].id > 0
         /\ \A i, j \in DOMAIN lines : lines[i].id = lines[j].id => i = j
         /\ \A i \in DOMAIN lines : lines[i].kind \in ReadableKinds
         /\ IdsOf(lines) = {lines[i].id : i \in DOMAIN lines \ {1}}
         /\ EntriesIn(lines) \subseteq Line
<1>1. Len(lines) \in Nat \ {0} /\ DOMAIN lines = 1 .. Len(lines)
  BY LenProperties DEF Whole
<1>2. ASSUME NEW i \in DOMAIN lines
      PROVE  lines[i] \in Line /\ lines[i].id \in Nat /\ lines[i].parent \in Nat
  <2>1. lines[i] \in Line
    BY <1>1, ElementOfSeq DEF Whole
  <2> QED BY <2>1, LineIds
<1>3. ASSUME NEW i \in DOMAIN lines, i # 1 PROVE lines[i].id \in Ids /\ lines[i].id > 0
  <2>1. lines[1].id < lines[i].id
    BY <1>1, <1>3 DEF Whole, Ordered
  <2> QED BY <1>2, <2>1, BoundsAre DEF Whole, Line
<1>4. \A i, j \in DOMAIN lines : lines[i].id = lines[j].id => i = j
  <2> SUFFICES ASSUME NEW i \in DOMAIN lines, NEW j \in DOMAIN lines, i # j
               PROVE  lines[i].id # lines[j].id
    OBVIOUS
  <2>1. i < j \/ j < i
    BY <1>1
  <2> QED BY <1>2, <2>1 DEF Whole, Ordered
<1>5. \A i \in DOMAIN lines : lines[i].kind \in ReadableKinds
  <2>1. "session" \in ReadableKinds
    BY DEF ReadableKinds, LineKinds
  <2> QED BY <2>1 DEF Whole
<1>6. IdsOf(lines) = {lines[i].id : i \in DOMAIN lines \ {1}}
  <2>1. lines[1].id = Null
    BY DEF Whole
  <2> QED BY <1>3, <2>1, BoundsAre DEF IdsOf
<1>7. EntriesIn(lines) \subseteq Line
  BY <1>2 DEF EntriesIn
<1> QED BY <1>1, <1>2, <1>3, <1>4, <1>5, <1>6, <1>7

\* Such a file is loaded as it is.
LEMMA WholeLoaded ==
  ASSUME NEW n, NEW lines, Whole(lines, n)
  PROVE  lines \in Contents /\ Loaded(lines) = lines /\ lines # <<>> /\ lines # Absent
<1>1. lines \in Seq(Line) /\ lines # Absent /\ lines # <<>>
  BY AbsentAssumption DEF Whole
<1>2. HasHeader(lines)
  <2>1. 1 \in DOMAIN lines /\ lines[1].kind = "session" /\ \A j \in 1 .. 1 - 1 : lines[j].kind \notin ReadableKinds
    BY DEF Whole
  <2> QED BY <1>1, <2>1 DEF HasHeader
<1>3. Readable(lines) = lines
  BY <1>1, WholeIs, KindsAllOrNone DEF Readable
<1> QED BY <1>1, <1>2, <1>3 DEF Loaded, Contents

\* An entry of such a session is where its id says.
LEMMA EntryOfWhole ==
  ASSUME NEW n, NEW lines, Whole(lines, n), NEW id \in IdsOf(lines)
  PROVE  EntryOf(lines, id) \in EntriesIn(lines) /\ EntryOf(lines, id).id = id
<1>1. /\ EntryOf(lines, id).id = id /\ \E i \in DOMAIN lines : EntryOf(lines, id) = lines[i]
  BY EntryIs DEF Whole
<1>2. id # Null /\ lines[1].id = Null
  BY DEF IdsOf, Whole
<1> QED BY <1>1, <1>2 DEF EntriesIn

\* A chain of entries, each the parent of the next, that ends at one.
Chain(lines, path, from) ==
  /\ path \in Seq(EntriesIn(lines)) /\ Ordered(path)
  /\ path # <<>> => path[Len(path)].id = from
  /\ \A i \in DOMAIN path : i # 1 => path[i].parent = path[i - 1].id

\* One step up a chain is a chain.
LEMMA LongerChain ==
  ASSUME NEW n, NEW lines, Whole(lines, n), NEW from, NEW path, Chain(lines, path, from)
  PROVE  Chain(lines, Longer(lines, path), from)
<1>1. CASE ~(path # <<>> /\ Head(path).parent \in IdsOf(lines))
  BY <1>1 DEF Longer
<1>2. CASE path # <<>> /\ Head(path).parent \in IdsOf(lines)
  <2> DEFINE E == EntriesIn(lines)
             e == EntryOf(lines, Head(path).parent)
             q == <<e>> \o path
  <2>1. e \in E /\ e.id = Head(path).parent
    BY <1>2, EntryOfWhole
  <2>2. path \in Seq(E) /\ Len(path) \in Nat \ {0} /\ DOMAIN path = 1 .. Len(path) /\ Head(path) = path[1]
    BY <1>2, LenProperties, EmptySeq DEF Chain
  <2>3. E \subseteq Line
    BY WholeIs
  <2>4. path \in Seq(Line) /\ e \in Line
    <3> HIDE DEF e, E
    <3> QED BY <2>1, <2>2, <2>3, SeqMonotonic
  <2>5. <<e>> \in Seq(Line) /\ Len(<<e>>) = 1 /\ DOMAIN <<e>> = 1 .. 1 /\ <<e>>[1] = e /\ Ordered(<<e>>) /\ <<e>> \in Seq(E)
    <3> HIDE DEF e, E
    <3> QED BY <2>1, <2>4, OrderedOne
  <2>6. \A i \in DOMAIN path : e.id < path[i].id
    <3>1. path[1] \in E /\ 1 \in DOMAIN path
      <4> HIDE DEF E
      <4>1. 1 \in 1 .. Len(path)
        BY <2>2
      <4> QED BY <2>2, <4>1, ElementOfSeq
    <3>2. path[1].parent < path[1].id
      BY <3>1 DEF EntriesIn, Whole
    <3>3. \A i \in DOMAIN path : i # 1 => path[1].id < path[i].id
      BY <2>2, <3>1 DEF Chain, Ordered
    <3>4. \A i \in DOMAIN path : path[i].id \in Nat
      <4> HIDE DEF e, E
      <4> QED BY <2>2, <2>4, ElementOfSeq, LineIds
    <3>5. e.id \in Nat
      <4> HIDE DEF e
      <4> QED BY <2>4, LineIds
    <3> HIDE DEF e, E
    <3> QED BY <2>1, <2>2, <3>1, <3>2, <3>3, <3>4, <3>5
  <2> HIDE DEF e, E
  <2>7. Ordered(q)
    <3>1. \A i \in DOMAIN <<e>>, j \in DOMAIN path : <<e>>[i].id < path[j].id
      BY <2>5, <2>6
    <3>2. Ordered(path)
      BY DEF Chain
    <3> QED BY <2>4, <2>5, <3>1, <3>2, OrderedBoth
  <2>8. /\ q \in Seq(E) /\ Len(q) = 1 + Len(path) /\ DOMAIN q = 1 .. 1 + Len(path)
        /\ \A i \in 1 .. 1 + Len(path) : q[i] = IF i <= 1 THEN e ELSE path[i - 1]
    <3>1. /\ q \in Seq(E) /\ Len(q) = Len(<<e>>) + Len(path)
          /\ \A i \in 1 .. Len(<<e>>) + Len(path) : q[i] = IF i <= Len(<<e>>) THEN <<e>>[i] ELSE path[i - Len(<<e>>)]
      BY <2>2, <2>5, ConcatProperties
    <3> HIDE DEF q
    <3>2. DOMAIN q = 1 .. Len(q)
      BY <3>1, LenProperties
    <3>3. \A i \in 1 .. 1 + Len(path) : i <= 1 => i = 1
      BY <2>2
    <3> QED BY <2>5, <3>1, <3>2, <3>3
  <2> HIDE DEF q
  <2>9. q[Len(q)].id = from
    <3>1. Len(q) \in 1 .. 1 + Len(path) /\ ~(Len(q) <= 1) /\ Len(q) - 1 = Len(path)
      BY <2>2, <2>8
    <3>2. q[Len(q)] = path[Len(path)]
      BY <2>8, <3>1
    <3> QED BY <1>2, <3>2 DEF Chain
  <2>10. ASSUME NEW i \in DOMAIN q, i # 1 PROVE q[i].parent = q[i - 1].id
    <3>1. i \in 2 .. 1 + Len(path) /\ i - 1 \in DOMAIN path /\ q[i] = path[i - 1]
      BY <2>2, <2>8, <2>10
    <3>2. CASE i = 2
      <4>1. q[i - 1] = e /\ q[i] = path[1]
        BY <2>2, <2>8, <3>1, <3>2
      <4> QED BY <2>1, <2>2, <4>1
    <3>3. CASE i # 2
      <4>1. i - 1 \in DOMAIN path /\ i - 1 # 1 /\ q[i - 1] = path[(i - 1) - 1]
        BY <2>2, <2>8, <3>1, <3>3
      <4> QED BY <3>1, <4>1 DEF Chain
    <3> QED BY <3>2, <3>3
  <2>11. Chain(lines, q, from)
    BY <2>7, <2>8, <2>9, <2>10 DEF Chain, E
  <2> QED BY <1>2, <2>11 DEF Longer, q, e
<1> QED BY <1>1, <1>2

\* A branch is such a chain.
LEMMA BranchChain ==
  ASSUME NEW n, NEW lines, Whole(lines, n), NEW from
  PROVE  Chain(lines, Branch(lines, from), from)
<1> DEFINE u == Up(lines, from)
           N == Len(lines)
           T == {k \in 0 .. N : Chain(lines, u[k], from)}
<1>1. N \in Nat /\ lines \in Seq(Line)
  BY WholeIs DEF Whole
<1>2. /\ Branch(lines, from) = u[N] /\ u[0] = Start(lines, from)
      /\ \A k \in 0 .. N - 1 : u[k + 1] = Longer(lines, u[k])
  BY <1>1, UpIs
<1> HIDE DEF u, N
<1>3. Chain(lines, u[0], from)
  <2>1. CASE from \in IdsOf(lines)
    <3> DEFINE e == EntryOf(lines, from)
    <3>1. e \in EntriesIn(lines) /\ e.id = from
      BY <2>1, EntryOfWhole
    <3> HIDE DEF e
    <3>2. /\ <<e>> \in Seq(EntriesIn(lines)) /\ Len(<<e>>) = 1 /\ DOMAIN <<e>> = 1 .. 1 /\ <<e>>[1] = e
      BY <3>1
    <3>3. Ordered(<<e>>)
      BY <3>2 DEF Ordered
    <3>4. u[0] = <<e>>
      BY <1>2, <2>1 DEF Start, e
    <3> QED BY <3>1, <3>2, <3>3, <3>4 DEF Chain
  <2>2. CASE from \notin IdsOf(lines)
    <3>1. u[0] = <<>>
      BY <1>2, <2>2 DEF Start
    <3> QED BY <3>1 DEF Chain, Ordered
  <2> QED BY <2>1, <2>2
<1>4. ASSUME NEW k \in 0 .. N - 1, Chain(lines, u[k], from) PROVE Chain(lines, u[k + 1], from)
  BY <1>2, <1>4, LongerChain
<1>5. \A k \in 0 .. N : k \in T
  <2>1. 0 \in T /\ \A k \in 0 .. N - 1 : k \in T => k + 1 \in T
    BY <1>1, <1>3, <1>4
  <2> HIDE DEF T
  <2> QED BY <1>1, <2>1, Upwards
<1> QED BY <1>1, <1>2, <1>5

\* The entries of a chain are entries of the session.
LEMMA ChainIs ==
  ASSUME NEW n, NEW lines, Whole(lines, n), NEW from, NEW path, Chain(lines, path, from)
  PROVE  /\ path \in Seq(Line) /\ Len(path) \in Nat /\ DOMAIN path = 1 .. Len(path)
         /\ \A i \in DOMAIN path :
              /\ path[i] \in EntriesIn(lines) /\ path[i].id \in Ids /\ path[i].id > 0 /\ path[i].id < n
              /\ path[i].parent < path[i].id /\ path[i].kind \in ReadableKinds \ {"session"}
<1>1. path \in Seq(EntriesIn(lines)) /\ EntriesIn(lines) \subseteq Line
  BY WholeIs DEF Chain
<1>2. path \in Seq(Line) /\ Len(path) \in Nat /\ DOMAIN path = 1 .. Len(path)
  BY <1>1, SeqMonotonic, LenProperties
<1>3. ASSUME NEW i \in DOMAIN path PROVE path[i] \in EntriesIn(lines)
  BY <1>1, <1>2, ElementOfSeq
<1>4. ASSUME NEW l \in EntriesIn(lines)
      PROVE  /\ l.id \in Ids /\ l.id > 0 /\ l.id < n
             /\ l.parent < l.id /\ l.kind \in ReadableKinds \ {"session"}
  BY WholeIs DEF EntriesIn, Whole
<1> QED BY <1>2, <1>3, <1>4

\* The lines of a fork are a whole session, with the ids of the new label entries.
LEMMA ForkIsWhole ==
  ASSUME StoreInv, NEW s, s.labels \in Bookmarked, Whole(s.fileEntries, nextId), NEW from, NEW f \in Files,
         nextId + Len(LabelTargets(s, Branch(s.fileEntries, from))) - 1 <= MaxEntries
  PROVE  LET path == Branch(s.fileEntries, from)
         IN  Whole(BranchedEntries(s, path, f), nextId + Len(LabelTargets(s, path)))
<1> DEFINE path == Branch(s.fileEntries, from)
           kept == WithoutLabels(path)
           entries == LabelEntries(s, kept)
           h == <<Header(f)>>
           lines == BranchedEntries(s, path, f)
           top == nextId + Len(LabelTargets(s, path))
           t == LabelTargets(s, kept)
<1>1. Chain(s.fileEntries, path, from)
  BY BranchChain
<1>2. /\ path \in Seq(Line) /\ Ordered(path) /\ Len(path) \in Nat /\ DOMAIN path = 1 .. Len(path)
      /\ \A i \in DOMAIN path :
           /\ path[i].id \in Ids /\ path[i].id > 0 /\ path[i].id < nextId
           /\ path[i].parent < path[i].id /\ path[i].kind \in ReadableKinds \ {"session"}
  BY <1>1, ChainIs DEF Chain
<1>2a. nextId + Len(LabelTargets(s, path)) - 1 <= MaxEntries
  OBVIOUS
<1> HIDE DEF path
<1>3. /\ kept \in Seq(Line) /\ Ordered(kept)
      /\ \A i \in DOMAIN kept :
           /\ kept[i].id \in Ids /\ kept[i].id > 0 /\ kept[i].id < nextId
           /\ kept[i].parent < kept[i].id /\ kept[i].kind \in ReadableKinds \ {"session"}
  <2>1. kept \in Seq(Line) /\ \A j \in DOMAIN kept : \E i \in DOMAIN path : path[i] = kept[j]
    <3>1. kept \in Seq(Line)
      BY <1>2, KindsAre DEF WithoutLabels
    <3>2. \A j \in DOMAIN kept : \E i \in DOMAIN path : path[i] = kept[j]
      BY <1>2, KindsMembers DEF WithoutLabels
    <3> QED BY <3>1, <3>2
  <2>2. Ordered(kept)
    BY <1>2, KindsOrdered DEF WithoutLabels
  <2> HIDE DEF kept
  <2> QED BY <1>2, <2>1, <2>2
<1>4. nextId \in 1 .. MaxEntries + 1 /\ nextId \in Nat /\ MaxEntries \in Nat /\ nextId >= 1
  BY BoundsAre DEF StoreInv
<1>5. /\ entries \in Seq(Line) /\ Len(entries) = Len(t) /\ Len(t) \in Nat
      /\ \A k \in 1 .. Len(t) :
           /\ entries[k].kind = "label" /\ entries[k].id = nextId + k - 1
           /\ entries[k].parent = IF k > 1 THEN nextId + k - 2
                                  ELSE IF kept = <<>> THEN Null ELSE LastId(kept)
  BY <1>2, <1>2a, <1>4, LabelEntriesType
<1>6. Len(t) <= Len(LabelTargets(s, path)) /\ Len(LabelTargets(s, path)) \in Nat
  BY <1>2, TargetsAre
<1>7. kept # <<>> => LastId(kept) < nextId /\ LastId(kept) \in Nat
  <2> HIDE DEF kept
  <2>1. kept # <<>> => Len(kept) \in DOMAIN kept
    BY <1>3, LenProperties, EmptySeq
  <2> QED BY <1>3, <2>1, BoundsAre DEF LastId
<1>8. h \in Seq(Line) /\ Len(h) = 1 /\ DOMAIN h = 1 .. 1 /\ h[1] = Header(f) /\ Ordered(h)
  BY HeaderType, OrderedOne
<1>9. Header(f).kind = "session" /\ Header(f).id = 0
  BY HeaderType, BoundsAre
<1>10. lines = (h \o kept) \o entries
  BY DEF BranchedEntries
<1> HIDE DEF kept, entries, h, lines, t
<1>11. /\ Len(entries) \in Nat /\ DOMAIN entries = 1 .. Len(entries)
       /\ \A k \in DOMAIN entries :
            /\ entries[k].kind = "label" /\ entries[k].id >= nextId /\ entries[k].id < top
            /\ entries[k].parent < entries[k].id
       /\ Ordered(entries)
  <2>1. Len(entries) \in Nat /\ DOMAIN entries = 1 .. Len(entries)
    BY <1>5, LenProperties
  <2>2. ASSUME NEW k \in DOMAIN entries
        PROVE  /\ entries[k].kind = "label" /\ entries[k].id >= nextId /\ entries[k].id < top
               /\ entries[k].parent < entries[k].id
    <3>1. k \in 1 .. Len(t) /\ k \in Nat
      BY <1>5, <2>1
    <3>2. entries[k].kind = "label" /\ entries[k].id = nextId + k - 1
      BY <1>5, <3>1
    <3>3. entries[k].id >= nextId /\ entries[k].id < top
      BY <1>4, <1>5, <1>6, <3>1, <3>2
    <3>4. entries[k].parent < entries[k].id
      BY <1>4, <1>5, <1>7, <3>1, <3>2, BoundsAre
    <3> QED BY <3>2, <3>3, <3>4
  <2>3. Ordered(entries)
    BY <1>4, <1>5, <2>1 DEF Ordered
  <2> QED BY <2>1, <2>2, <2>3
<1>12. /\ h \o kept \in Seq(Line) /\ Ordered(h \o kept)
       /\ Len(h \o kept) = 1 + Len(kept) /\ Len(kept) \in Nat /\ DOMAIN kept = 1 .. Len(kept)
       /\ DOMAIN (h \o kept) = 1 .. 1 + Len(kept)
       /\ (h \o kept)[1] = Header(f)
       /\ \A i \in 2 .. 1 + Len(kept) : (h \o kept)[i] = kept[i - 1]
  <2>1. Len(kept) \in Nat /\ DOMAIN kept = 1 .. Len(kept)
    BY <1>3, LenProperties
  <2>2. \A i \in DOMAIN h, j \in DOMAIN kept : h[i].id < kept[j].id
    BY <1>3, <1>8, <1>9
  <2>3. Ordered(h \o kept)
    BY <1>3, <1>8, <2>2, OrderedBoth
  <2>4. /\ h \o kept \in Seq(Line) /\ Len(h \o kept) = Len(h) + Len(kept)
        /\ \A i \in 1 .. Len(h) + Len(kept) : (h \o kept)[i] = IF i <= Len(h) THEN h[i] ELSE kept[i - Len(h)]
    BY <1>3, <1>8, ConcatProperties
  <2>5. DOMAIN (h \o kept) = 1 .. 1 + Len(kept)
    BY <1>8, <2>4, LenProperties
  <2> QED BY <1>8, <2>1, <2>3, <2>4, <2>5
<1> DEFINE p == h \o kept
<1>13. /\ p \in Seq(Line) /\ Ordered(p) /\ Len(p) \in Nat /\ Len(p) >= 1 /\ DOMAIN p = 1 .. Len(p)
       /\ p[1] = Header(f)
       /\ \A i \in DOMAIN p : i # 1 =>
            /\ p[i].id < nextId /\ p[i].parent < p[i].id /\ p[i].kind \in ReadableKinds \ {"session"}
  <2>1. ASSUME NEW i \in 2 .. 1 + Len(kept)
        PROVE  p[i].id < nextId /\ p[i].parent < p[i].id /\ p[i].kind \in ReadableKinds \ {"session"}
    <3>1. i - 1 \in DOMAIN kept /\ p[i] = kept[i - 1]
      BY <1>12, <2>1
    <3> HIDE DEF p
    <3> QED BY <1>3, <3>1
  <2>2. \A i \in 1 .. 1 + Len(kept) : i # 1 => i \in 2 .. 1 + Len(kept)
    BY <1>12
  <2> QED BY <1>12, <2>1, <2>2
<1>14. lines = p \o entries
  BY <1>10
<1> HIDE DEF p
<1>15. Ordered(lines)
  <2>1. \A i \in DOMAIN p : p[i].id < nextId
    BY <1>4, <1>9, <1>13
  <2>2. \A i \in DOMAIN p : p[i].id \in Nat
    BY <1>13, ElementOfSeq, LineIds
  <2>3. \A j \in DOMAIN entries : entries[j].id \in Nat
    BY <1>5, <1>11, ElementOfSeq, LineIds
  <2>4. \A i \in DOMAIN p, j \in DOMAIN entries : p[i].id < entries[j].id
    BY <1>4, <1>11, <2>1, <2>2, <2>3
  <2> QED BY <1>5, <1>11, <1>13, <1>14, <2>4, OrderedBoth
<1>16. /\ lines \in Seq(Line) /\ Len(lines) = Len(p) + Len(entries)
       /\ DOMAIN lines = 1 .. Len(p) + Len(entries)
       /\ \A i \in 1 .. Len(p) + Len(entries) : lines[i] = IF i <= Len(p) THEN p[i] ELSE entries[i - Len(p)]
  <2>1. /\ lines \in Seq(Line) /\ Len(lines) = Len(p) + Len(entries)
        /\ \A i \in 1 .. Len(p) + Len(entries) : lines[i] = IF i <= Len(p) THEN p[i] ELSE entries[i - Len(p)]
    BY <1>5, <1>13, <1>14, ConcatProperties
  <2> QED BY <2>1, LenProperties
<1>17. 1 \in DOMAIN lines /\ lines[1] = Header(f)
  BY <1>11, <1>13, <1>16
<1>18. nextId <= top /\ top \in Nat
  BY <1>4, <1>6
<1>19. ASSUME NEW i \in DOMAIN lines, i # 1
       PROVE  /\ lines[i].kind \in ReadableKinds \ {"session"} /\ lines[i].parent < lines[i].id
              /\ lines[i].id < top
  <2>1. CASE i <= Len(p)
    <3>1. i \in DOMAIN p /\ lines[i] = p[i] /\ p[i].id \in Nat
      BY <1>13, <1>16, <1>19, <2>1, ElementOfSeq, LineIds
    <3> HIDE DEF top
    <3> QED BY <1>4, <1>13, <1>18, <1>19, <3>1
  <2>2. CASE ~(i <= Len(p))
    <3>1. i - Len(p) \in DOMAIN entries /\ lines[i] = entries[i - Len(p)]
      BY <1>11, <1>13, <1>16, <1>19, <2>2
    <3>2. "label" \in ReadableKinds \ {"session"}
      BY DEF ReadableKinds, LineKinds
    <3> HIDE DEF top
    <3> QED BY <1>11, <3>1, <3>2
  <2> QED BY <2>1, <2>2
<1>20. 0 < top
  BY <1>4, <1>6
<1> HIDE DEF top
<1>21. lines[1].kind = "session" /\ lines[1].id = Null /\ \A i \in DOMAIN lines : lines[i].id < top
  BY <1>9, <1>17, <1>19, <1>20, BoundsAre
<1>22. Whole(lines, top)
  BY <1>15, <1>16, <1>17, <1>19, <1>21 DEF Whole
<1> QED BY <1>22 DEF lines, top, path

----------------------------------------------------------------------------
(* Without a crash: files are whole, and the file of an answered session is the session *)

CleanDisk(d, n) == \A f \in Files : d[f] # Absent => Whole(d[f], n) /\ HasAssistant(d[f])

Clean(s, d, n) ==
  /\ Whole(s.fileEntries, n)
  /\ CleanDisk(d, n)
  /\ s.persist /\ HasAssistant(s.fileEntries) => d[s.file] = s.fileEntries /\ s.flushed
  /\ s.persist /\ ~HasAssistant(s.fileEntries) => d[s.file] = Absent /\ ~s.flushed

CleanInv == crashes = 0 => Clean(sm, disk, nextId)

\* What a step may do to a saved session without a crash: nothing; one more entry, on the disk
\* when there is an answer; another session or a new one, with what its file holds if there is
\* one; or a session that starts with answered entries.
Stays == sm'.file = sm.file /\ sm'.fileEntries = sm.fileEntries /\ disk' = disk

Adds ==
  /\ sm'.file = sm.file /\ \E e : sm'.fileEntries = Append(sm.fileEntries, e)
  /\ disk' = IF HasAssistant(sm'.fileEntries) THEN [disk EXCEPT ![sm.file] = sm'.fileEntries] ELSE disk

Switches ==
  /\ sm'.file \in Files /\ disk' = disk
  /\ sm'.fileEntries = IF disk[sm'.file] = Absent THEN <<Header(sm'.file)>> ELSE disk[sm'.file]

Starts ==
  /\ sm'.file \in Files /\ disk[sm'.file] = Absent /\ HasAssistant(sm'.fileEntries)
  /\ disk' = [disk EXCEPT ![sm'.file] = sm'.fileEntries]

Logged == sm.persist => sm'.persist /\ (Stays \/ Adds \/ Switches \/ Starts)

\* What is whole below a number is whole below a greater one.
LEMMA WholeLater ==
  ASSUME NEW n \in Nat, NEW m \in Nat, n <= m, NEW lines, Whole(lines, n)
  PROVE  Whole(lines, m)
<1>1. \A i \in DOMAIN lines : lines[i].id \in Nat
  BY WholeIs
<1>2. \A i \in DOMAIN lines : lines[i].id < m
  BY <1>1 DEF Whole
<1> QED BY <1>2 DEF Whole

\* A new session on a file that is not there.
LEMMA FreshClean ==
  ASSUME NEW n \in Nat \ {0}, NEW f \in Files, NEW persist \in BOOLEAN,
         NEW d \in Disks, CleanDisk(d, n), d[f] = Absent
  PROVE  Clean(Fresh(f, persist), d, n)
<1> DEFINE h == <<Header(f)>>
<1>1. h \in Seq(Line) /\ DOMAIN h = 1 .. 1 /\ h[1] = Header(f) /\ Ordered(h)
      /\ Header(f).kind = "session" /\ Header(f).id = Null
  BY HeaderType, OrderedOne
<1> HIDE DEF h
<1>2. Whole(h, n)
  BY <1>1, BoundsAre DEF Whole
<1>3. ~HasAssistant(h)
  BY <1>1 DEF HasAssistant
<1>4. /\ Fresh(f, persist).fileEntries = h /\ Fresh(f, persist).flushed = FALSE
      /\ Fresh(f, persist).file = f
  BY DEF Fresh, h
<1> QED BY <1>2, <1>3, <1>4 DEF Clean

\* Opening any file of a clean disk changes nothing on it.
LEMMA OpenClean ==
  ASSUME NEW n \in Nat \ {0}, NEW d \in Disks, CleanDisk(d, n), NEW f \in Files
  PROVE  /\ Clean(OpenedManager(d, f), d, n) /\ OpenedDisk(d, f) = d
         /\ d[f] = Absent => OpenedManager(d, f) = Fresh(f, TRUE)
         /\ d[f] # Absent => OpenedManager(d, f).fileEntries = d[f]
<1>1. CASE d[f] = Absent
  <2>1. OpenedManager(d, f) = Fresh(f, TRUE) /\ OpenedDisk(d, f) = d
    BY <1>1 DEF OpenedManager, OpenedDisk
  <2> QED BY <1>1, <2>1, FreshClean
<1>2. CASE d[f] # Absent
  <2>1. Whole(d[f], n) /\ HasAssistant(d[f])
    BY <1>2 DEF CleanDisk
  <2>2. Loaded(d[f]) = d[f] /\ d[f] # <<>>
    BY <2>1, WholeLoaded
  <2>3. OpenedManager(d, f) = Indexed(f, TRUE, d[f], TRUE) /\ OpenedDisk(d, f) = d
    BY <1>2, <2>2 DEF OpenedManager, OpenedDisk
  <2>4. /\ OpenedManager(d, f).fileEntries = d[f] /\ OpenedManager(d, f).file = f
        /\ OpenedManager(d, f).flushed = TRUE /\ OpenedManager(d, f).persist = TRUE
    BY <2>3 DEF Indexed
  <2>5. Clean(OpenedManager(d, f), d, n)
    BY <2>1, <2>4 DEF Clean
  <2> QED BY <1>2, <2>3, <2>4, <2>5
<1> QED BY <1>1, <1>2

\* A session that gets the next entry is whole.
LEMMA WholeAppend ==
  ASSUME NEW n \in Nat, NEW lines, Whole(lines, n), NEW e \in Line, e.id = n, e.parent < n,
         e.kind \in ReadableKinds \ {"session"}
  PROVE  /\ Whole(Append(lines, e), n + 1) /\ Append(lines, e) = lines \o <<e>>
         /\ HasAssistant(lines) => HasAssistant(Append(lines, e))
         /\ Append(lines, e)[Len(Append(lines, e))] = e
<1> DEFINE u == Append(lines, e)
           N == Len(lines)
<1>1. lines \in Seq(Line) /\ N \in Nat \ {0} /\ DOMAIN lines = 1 .. N
  BY WholeIs DEF Whole
<1>2. /\ u \in Seq(Line) /\ Len(u) = N + 1 /\ DOMAIN u = 1 .. N + 1
      /\ \A i \in 1 .. N : u[i] = lines[i]
      /\ u[N + 1] = e /\ u = lines \o <<e>>
  <2>1. u \in Seq(Line) /\ Len(u) = N + 1 /\ (\A i \in 1 .. N : u[i] = lines[i]) /\ u[N + 1] = e
    BY <1>1, AppendProperties
  <2> QED BY <1>1, <2>1, AppendIsConcat, LenProperties
<1> HIDE DEF u, N
<1>3. \A i \in DOMAIN lines : lines[i].id < n /\ lines[i].id \in Nat
  BY WholeIs DEF Whole
<1>4. Ordered(u)
  <2> SUFFICES ASSUME NEW i \in 1 .. N + 1, NEW j \in 1 .. N + 1, i < j PROVE u[i].id < u[j].id
    BY <1>2 DEF Ordered
  <2>1. i \in DOMAIN lines /\ u[i] = lines[i]
    BY <1>1, <1>2
  <2>2. CASE j = N + 1
    BY <1>2, <1>3, <2>1, <2>2
  <2>3. CASE j # N + 1
    <3>1. j \in DOMAIN lines /\ u[j] = lines[j]
      BY <1>1, <1>2, <2>3
    <3> QED BY <2>1, <3>1 DEF Whole, Ordered
  <2> QED BY <2>2, <2>3
<1>5. 1 \in DOMAIN u /\ u[1] = lines[1]
  BY <1>1, <1>2
<1>6. ASSUME NEW i \in DOMAIN u
      PROVE  /\ i # 1 => u[i].kind \in ReadableKinds \ {"session"} /\ u[i].parent < u[i].id
             /\ u[i].id < n + 1
  <2>1. CASE i = N + 1
    BY <1>2, <2>1
  <2>2. CASE i # N + 1
    <3>1. i \in DOMAIN lines /\ u[i] = lines[i]
      BY <1>1, <1>2, <2>2
    <3> QED BY <1>3, <3>1 DEF Whole
  <2> QED BY <2>1, <2>2
<1>7. Whole(u, n + 1)
  BY <1>2, <1>4, <1>5, <1>6 DEF Whole
<1>8. HasAssistant(lines) => HasAssistant(u)
  BY <1>1, <1>2 DEF HasAssistant
<1> QED BY <1>2, <1>7, <1>8 DEF u

\* Saving the next entry keeps a session clean.
LEMMA SaveClean ==
  ASSUME StoreInv, Clean(sm, disk, nextId), NEW s, s \in Manager, NEW e \in Line,
         s.fileEntries = Append(sm.fileEntries, e), s.file = sm.file, s.persist = sm.persist,
         s.flushed = sm.flushed, e.id = nextId, e.parent < nextId,
         e.kind \in ReadableKinds \ {"session"}, Save(s)
  PROVE  Clean(sm', disk', nextId') /\ Logged
<1> DEFINE u == Append(sm.fileEntries, e)
<1>1. /\ nextId \in Nat /\ nextId' = nextId + 1 /\ sm.file \in Files /\ disk \in Disks
      /\ sm' = Persisted(s) /\ disk' = DiskAfter(s)
  BY LeafType, BoundsAre DEF StoreInv, Save
<1>2. /\ Whole(u, nextId + 1) /\ u = sm.fileEntries \o <<e>>
      /\ HasAssistant(sm.fileEntries) => HasAssistant(u)
      /\ u[Len(u)] = e /\ u # <<>>
  <2>1. /\ Whole(u, nextId + 1) /\ u = sm.fileEntries \o <<e>>
        /\ HasAssistant(sm.fileEntries) => HasAssistant(u)
        /\ u[Len(u)] = e
    BY <1>1, WholeAppend DEF Clean
  <2> HIDE DEF u
  <2>2. u # <<>>
    BY <2>1, WholeLoaded
  <2> QED BY <2>1, <2>2
<1> HIDE DEF u
<1>3. s.fileEntries = u
  BY DEF u
<1>4. /\ sm'.fileEntries = u /\ sm'.file = sm.file /\ sm'.persist = sm.persist
      /\ sm.persist => sm'.flushed = HasAssistant(u)
  <2>1. Persisted(s) = [s EXCEPT !.flushed = IF s.persist THEN HasAssistant(s.fileEntries) ELSE s.flushed]
    BY DEF Persisted, Manager
  <2> QED BY <1>1, <1>3, <2>1 DEF Manager
<1>5. CleanDisk(disk, nextId + 1)
  <2>1. ASSUME NEW f \in Files, disk[f] # Absent
        PROVE  Whole(disk[f], nextId + 1) /\ HasAssistant(disk[f])
    BY <1>1, <2>1, WholeLater DEF Clean, CleanDisk
  <2> QED BY <2>1 DEF CleanDisk
<1>6. CASE ~sm.persist \/ ~HasAssistant(u)
  <2>1. ToWrite(s) = <<>>
    BY <1>3, <1>6 DEF ToWrite
  <2>2. disk' = disk
    BY <1>1, <2>1 DEF DiskAfter
  <2>3. sm.persist => disk[sm.file] = Absent /\ ~HasAssistant(u)
    BY <1>2, <1>6 DEF Clean
  <2>4. Clean(sm', disk', nextId')
    BY <1>1, <1>2, <1>4, <1>5, <1>6, <2>2, <2>3 DEF Clean
  <2>5. sm.persist => Adds /\ sm'.persist
    BY <1>4, <1>6, <2>2 DEF Adds, u
  <2> QED BY <2>4, <2>5 DEF Logged
<1>7. CASE sm.persist /\ HasAssistant(u)
  <2>1. ToWrite(s) = IF sm.flushed THEN <<e>> ELSE u
    BY <1>2, <1>3, <1>7 DEF ToWrite
  <2>2. ToWrite(s) # <<>>
    BY <1>2, <2>1
  <2>3. Written(disk[sm.file], ToWrite(s)) = u
    <3>1. CASE sm.flushed
      <4>1. disk[sm.file] = sm.fileEntries /\ sm.fileEntries # Absent
        BY <1>7, <3>1, WholeLoaded DEF Clean
      <4>2. sm.fileEntries[Len(sm.fileEntries)].kind # "torn"
        <5>1. Len(sm.fileEntries) \in DOMAIN sm.fileEntries /\ \A i \in DOMAIN sm.fileEntries : sm.fileEntries[i].kind \in ReadableKinds
          BY WholeIs DEF Clean
        <5> QED BY <5>1 DEF ReadableKinds
      <4> QED BY <1>2, <2>1, <3>1, <4>1, <4>2 DEF Written
    <3>2. CASE ~sm.flushed
      <4>1. disk[sm.file] = Absent
        BY <1>7, <3>2 DEF Clean
      <4> QED BY <2>1, <3>2, <4>1 DEF Written
    <3> QED BY <3>1, <3>2
  <2>4. disk' = [disk EXCEPT ![sm.file] = u]
    BY <1>1, <2>2, <2>3 DEF DiskAfter, Disks
  <2>5. disk'[sm.file] = u /\ \A f \in Files : f # sm.file => disk'[f] = disk[f]
    BY <1>1, <2>4 DEF Disks
  <2>6. CleanDisk(disk', nextId + 1)
    <3>1. ASSUME NEW f \in Files, disk'[f] # Absent
          PROVE  Whole(disk'[f], nextId + 1) /\ HasAssistant(disk'[f])
      BY <1>2, <1>5, <1>7, <2>5, <3>1 DEF CleanDisk
    <3> QED BY <3>1 DEF CleanDisk
  <2>7. Clean(sm', disk', nextId')
    BY <1>1, <1>2, <1>4, <1>7, <2>5, <2>6 DEF Clean
  <2>8. Adds /\ sm'.persist
    BY <1>4, <1>7, <2>4 DEF Adds, u
  <2> QED BY <2>7, <2>8 DEF Logged
<1> QED BY <1>6, <1>7

\* An entry of the session, or none, comes before the next entry.
LEMMA NextParent ==
  ASSUME StoreInv, Clean(sm, disk, nextId), NEW parent \in IdsOf(sm.fileEntries) \union {Null},
         nextId <= MaxEntries
  PROVE  parent < nextId /\ parent \in Ids \union {Null} /\ nextId \in Ids
<1>1. \A i \in DOMAIN sm.fileEntries : sm.fileEntries[i].id < nextId
  BY DEF Clean, Whole
<1>2. \A id \in IdsOf(sm.fileEntries) : id < nextId
  BY <1>1 DEF IdsOf
<1>3. \A i \in DOMAIN sm.fileEntries : sm.fileEntries[i] \in Line
  BY WholeIs DEF Clean
<1>4. IdsOf(sm.fileEntries) \subseteq Ids
  BY <1>3 DEF IdsOf, Line
<1> QED BY <1>2, <1>4, BoundsAre DEF StoreInv

\* An entry of a kind that is appended, on the leaf or on an entry of the session.
LEMMA NextEntry ==
  ASSUME StoreInv, Clean(sm, disk, nextId), NEW kind \in ReadableKinds \ {"session"},
         NEW parent \in IdsOf(sm.fileEntries) \union {Null}, NEW ref \in Ids \union {Null},
         NEW label \in Labellings, nextId <= MaxEntries
  PROVE  LET e == Entry(kind, nextId, parent, ref, label)
         IN  /\ e \in Line /\ e.id = nextId /\ e.id \in Ids /\ e.parent < nextId
             /\ e.kind = kind /\ e.ref = ref /\ e.label = label
<1>1. kind \in LineKinds
  BY DEF ReadableKinds
<1> QED BY <1>1, NextParent DEF Entry, Line, Labellings

\* The leaf is an entry of the session or none.
LEMMA LeafIs ==
  ASSUME StoreInv
  PROVE  sm.leafId \in IdsOf(sm.fileEntries) \union {Null} /\ sm \in Manager
BY DEF StoreInv, Sound

\* The kinds that are appended are readable, and none is the header.
LEMMA ReadableTypes ==
  /\ \A kind \in Kinds : kind \in ReadableKinds \ {"session"}
  /\ "branch_summary" \in ReadableKinds \ {"session"} /\ "label" \in ReadableKinds \ {"session"}
  /\ NoLabel \in Labellings
BY KindsAssumption DEF ReadableKinds, LineKinds, PlainKinds, Labellings

\* Pushing a next entry and saving.
LEMMA SavePushedClean ==
  ASSUME StoreInv, Clean(sm, disk, nextId), NEW e \in Line, e.id = nextId, e.id \in Ids, e.parent < nextId,
         e.kind \in ReadableKinds \ {"session"}, e.kind # "label", Save(Pushed(sm, e))
  PROVE  Clean(sm', disk', nextId') /\ Logged
<1> DEFINE s == Pushed(sm, e)
<1>1. /\ Sound(s) /\ s.file = sm.file /\ s.persist = sm.persist /\ s.flushed = sm.flushed
      /\ s.fileEntries = Append(sm.fileEntries, e)
  BY PushedSound DEF StoreInv, IsLabel
<1>2. s \in Manager /\ Save(s)
  BY <1>1 DEF Sound
<1> HIDE DEF s
<1> QED BY <1>1, <1>2, SaveClean

\* One lemma for each action: without a crash it keeps session and files clean.
LEMMA AppendEntryClean ==
  ASSUME StoreInv, Clean(sm, disk, nextId), NEW kind \in Kinds, AppendEntry(kind)
  PROVE  Clean(sm', disk', nextId') /\ Logged
<1> DEFINE e == NewEntry(kind, Null, NoLabel)
<1>1. nextId <= MaxEntries /\ Save(Pushed(sm, e))
  BY DEF AppendEntry, Save
<1>2. e \in Line /\ e.id = nextId /\ e.id \in Ids /\ e.parent < nextId /\ e.kind = kind
  BY <1>1, LeafIs, ReadableTypes, NextEntry DEF NewEntry
<1>3. kind # "label" /\ kind \in ReadableKinds \ {"session"}
  BY KindsTypes, ReadableTypes
<1> HIDE DEF e
<1> QED BY <1>1, <1>2, <1>3, SavePushedClean

\* Appending a compaction of the current branch.
LEMMA AppendCompactionClean ==
  ASSUME StoreInv, Clean(sm, disk, nextId), "compaction" \in Kinds, AppendCompaction
  PROVE  Clean(sm', disk', nextId') /\ Logged
<1> DEFINE path == Branch(sm.fileEntries, sm.leafId)
<1>1. path \in Seq(Line) /\ sm.leafId \in IdsOf(sm.fileEntries) \union {Null}
  BY LeafType, LeafIs, BranchType DEF StoreInv
<1>2. PICK i \in KeptFrom(path) : Save(Pushed(sm, NewEntry("compaction", path[i].id, NoLabel)))
  BY DEF AppendCompaction
<1>3. i \in DOMAIN path /\ nextId <= MaxEntries
  BY <1>2 DEF KeptFrom, Save
<1> HIDE DEF path
<1> DEFINE ref == path[i].id
           e == NewEntry("compaction", ref, NoLabel)
<1>4. ref \in Ids \union {Null}
  <2>1. path[i] \in Line
    BY <1>1, <1>3, LenProperties, ElementOfSeq
  <2> QED BY <2>1 DEF Line
<1>5. Save(Pushed(sm, e))
  BY <1>2
<1> HIDE DEF ref
<1>6. e \in Line /\ e.id = nextId /\ e.id \in Ids /\ e.parent < nextId /\ e.kind = "compaction"
  <2>1. sm.leafId < nextId /\ sm.leafId \in Ids \union {Null} /\ nextId \in Ids
    BY <1>1, <1>3, NextParent
  <2>2. "compaction" \in LineKinds /\ NoLabel \in Labellings
    BY ReadableTypes DEF LineKinds
  <2> QED BY <1>4, <2>1, <2>2 DEF NewEntry, Entry, Line, Labellings
<1>7. "compaction" # "label" /\ "compaction" \in ReadableKinds \ {"session"}
  BY ReadableTypes
<1> HIDE DEF e
<1> QED BY <1>5, <1>6, <1>7, SavePushedClean

\* Setting or clearing a bookmark.
LEMMA AppendLabelClean ==
  ASSUME StoreInv, Clean(sm, disk, nextId), NEW target \in Ids, NEW label \in Labellings,
         AppendLabelChange(target, label)
  PROVE  Clean(sm', disk', nextId') /\ Logged
<1> DEFINE e == NewEntry("label", target, label)
           s == Labelled(Pushed(sm, e), target, label)
<1>1. nextId <= MaxEntries /\ Save(s)
  BY DEF AppendLabelChange, Save
<1>2. /\ e \in Line /\ e.id = nextId /\ e.id \in Ids /\ e.parent < nextId /\ e.kind = "label"
      /\ e.ref = target /\ e.label = label
  BY <1>1, LeafIs, ReadableTypes, NextEntry DEF NewEntry
<1>3. e.kind \in ReadableKinds \ {"session"} /\ IsLabel(e)
  BY <1>2, ReadableTypes DEF IsLabel
<1> HIDE DEF e
<1>4. /\ Sound(s) /\ s.file = sm.file /\ s.persist = sm.persist /\ s.flushed = sm.flushed
      /\ s.fileEntries = Append(sm.fileEntries, e)
  <2>1. /\ Sound(s) /\ Pushed(sm, e).file = sm.file /\ Pushed(sm, e).persist = sm.persist
        /\ Pushed(sm, e).flushed = sm.flushed /\ Pushed(sm, e).fileEntries = Append(sm.fileEntries, e)
    BY <1>2, <1>3, PushedSound DEF StoreInv
  <2>2. /\ s.file = Pushed(sm, e).file /\ s.persist = Pushed(sm, e).persist
        /\ s.flushed = Pushed(sm, e).flushed /\ s.fileEntries = Pushed(sm, e).fileEntries
    BY DEF Labelled, Pushed
  <2> QED BY <2>1, <2>2
<1>5. s \in Manager
  BY <1>4 DEF Sound
<1> HIDE DEF s
<1> QED BY <1>1, <1>2, <1>3, <1>4, <1>5, SaveClean

\* Appending the summary of the branch that is left.
LEMMA SummaryClean ==
  ASSUME StoreInv, Clean(sm, disk, nextId), NEW id \in Ids \union {Null}, BranchWithSummary(id)
  PROVE  Clean(sm', disk', nextId') /\ Logged
<1> DEFINE e == Entry("branch_summary", nextId, id, Null, NoLabel)
<1>1. nextId <= MaxEntries /\ Save(Pushed(sm, e)) /\ id \in IdsOf(sm.fileEntries) \union {Null}
  BY DEF BranchWithSummary, Save
<1>2. e \in Line /\ e.id = nextId /\ e.id \in Ids /\ e.parent < nextId /\ e.kind = "branch_summary"
  <2>1. id < nextId /\ id \in Ids \union {Null} /\ nextId \in Ids
    BY <1>1, NextParent
  <2>2. "branch_summary" \in LineKinds /\ NoLabel \in Labellings /\ Null \in Ids \union Files \union {Null}
    BY ReadableTypes DEF LineKinds, PlainKinds
  <2> QED BY <2>1, <2>2 DEF Entry, Line, Labellings
<1>3. e.kind # "label" /\ e.kind \in ReadableKinds \ {"session"}
  BY <1>2, ReadableTypes
<1> HIDE DEF e
<1> QED BY <1>1, <1>2, <1>3, SavePushedClean

\* Moving the leaf writes nothing.
LEMMA MoveLeafClean ==
  ASSUME StoreInv, Clean(sm, disk, nextId), NEW id, MoveLeaf(id)
  PROVE  Clean(sm', disk', nextId') /\ Logged
<1>1. /\ sm'.fileEntries = sm.fileEntries /\ sm'.persist = sm.persist /\ sm'.file = sm.file
      /\ sm'.flushed = sm.flushed /\ disk' = disk /\ nextId' = nextId
  BY DEF MoveLeaf
<1> QED BY <1>1 DEF Clean, Logged, Stays

\* A new session writes nothing.
LEMMA FreshSessionClean ==
  ASSUME StoreInv, Clean(sm, disk, nextId), NEW persist \in BOOLEAN, FreshSession(persist),
         sm.persist => persist
  PROVE  Clean(sm', disk', nextId') /\ Logged
<1>1. nextFile \in Files /\ nextId \in Nat \ {0} /\ disk \in Disks /\ CleanDisk(disk, nextId)
  BY BoundsAre DEF StoreInv, FreshSession, Clean
<1>2. disk[nextFile] = Absent
  BY <1>1, BoundsAre DEF StoreInv
<1>3. Clean(Fresh(nextFile, persist), disk, nextId)
  BY <1>1, <1>2, FreshClean
<1>4. Logged
  BY <1>1, <1>2 DEF FreshSession, Fresh, Logged, Switches
<1> QED BY <1>3, <1>4 DEF FreshSession

\* Opening a file that is there brings all of it back.
LEMMA ResumeClean ==
  ASSUME StoreInv, Clean(sm, disk, nextId), NEW f \in Files, Resume(f)
  PROVE  Clean(sm', disk', nextId') /\ Logged
<1>1. nextId \in Nat \ {0} /\ disk \in Disks /\ CleanDisk(disk, nextId)
  BY BoundsAre DEF StoreInv, Clean
<1>2. Clean(OpenedManager(disk, f), disk, nextId) /\ OpenedDisk(disk, f) = disk
  BY <1>1, OpenClean
<1>3. disk[f] # Absent /\ sm' = OpenedManager(disk, f) /\ disk' = disk
  BY <1>2 DEF Resume
<1>4. sm'.file = f /\ sm'.persist
  BY <1>1, <1>3, OpenedType
<1>5. sm'.fileEntries = disk[f]
  BY <1>1, <1>3, OpenClean
<1>6. Logged
  BY <1>3, <1>4, <1>5 DEF Logged, Switches
<1> QED BY <1>2, <1>6 DEF Resume

\* A whole file under another header is a whole file.
LEMMA CopyIsWhole ==
  ASSUME NEW n \in Nat \ {0}, NEW lines, Whole(lines, n), NEW f \in Files
  PROVE  LET copy == <<Header(f)>> \o EntriesOf(lines)
         IN  /\ Whole(copy, n)
             /\ HasAssistant(lines) => HasAssistant(copy)
             /\ \A i \in DOMAIN copy : i # 1 => \E j \in DOMAIN lines : copy[i] = lines[j]
<1> DEFINE h == <<Header(f)>>
           r == EntriesOf(lines)
           copy == h \o r
<1>1. /\ h \in Seq(Line) /\ Len(h) = 1 /\ DOMAIN h = 1 .. 1 /\ h[1] = Header(f) /\ Ordered(h)
      /\ Header(f).kind = "session" /\ Header(f).id = Null
  BY HeaderType, OrderedOne
<1>2. lines \in Seq(Line) /\ Ordered(lines) /\ lines[1].kind = "session"
  BY DEF Whole
<1>3. r \in Seq(Line) /\ Ordered(r)
  BY <1>2, KindsAre, KindsOrdered DEF EntriesOf
<1> DEFINE K == LineKinds \ {"session"}
<1> HIDE DEF K
<1>4a. r = OfKinds(lines, K)
  BY DEF EntriesOf, K
<1>4b. /\ \A j \in DOMAIN r : r[j].kind \in K /\ \E i \in DOMAIN lines : lines[i] = r[j]
       /\ \A i \in DOMAIN lines : lines[i].kind \in K => \E j \in DOMAIN r : r[j] = lines[i]
  <2> HIDE DEF r
  <2> QED BY <1>2, <1>4a, KindsMembers
<1>4. \A j \in DOMAIN r : r[j].kind \in LineKinds \ {"session"} /\ \E i \in DOMAIN lines : lines[i] = r[j]
  BY <1>4b DEF K
<1>5. HasAssistant(lines) => HasAssistant(r)
  <2>2. "assistant" \in K
    BY DEF K, LineKinds, PlainKinds
  <2> HIDE DEF r
  <2> QED BY <1>4b, <2>2 DEF HasAssistant
<1> HIDE DEF h, r
<1>6. ASSUME NEW j \in DOMAIN r
      PROVE  /\ r[j].kind \in ReadableKinds \ {"session"} /\ r[j].parent < r[j].id
             /\ r[j].id > 0 /\ r[j].id < n /\ \E i \in DOMAIN lines : r[j] = lines[i]
  <2>1. PICK i \in DOMAIN lines : lines[i] = r[j]
    BY <1>4
  <2>2. i # 1
    BY <1>2, <1>4, <2>1
  <2> QED BY <2>1, <2>2, WholeIs DEF Whole
<1>7. /\ copy \in Seq(Line) /\ Len(r) \in Nat /\ DOMAIN r = 1 .. Len(r) /\ DOMAIN copy = 1 .. 1 + Len(r)
      /\ copy[1] = Header(f) /\ \A i \in 2 .. 1 + Len(r) : copy[i] = r[i - 1]
  <2>1. Len(r) \in Nat /\ DOMAIN r = 1 .. Len(r)
    BY <1>3, LenProperties
  <2>2. /\ copy \in Seq(Line) /\ Len(copy) = Len(h) + Len(r)
        /\ \A i \in 1 .. Len(h) + Len(r) : copy[i] = IF i <= Len(h) THEN h[i] ELSE r[i - Len(h)]
    BY <1>1, <1>3, ConcatProperties
  <2> HIDE DEF copy
  <2>3. DOMAIN copy = 1 .. 1 + Len(r)
    BY <1>1, <2>2, LenProperties
  <2> QED BY <1>1, <2>1, <2>2, <2>3
<1>8. Ordered(copy)
  <2>1. \A i \in DOMAIN h, j \in DOMAIN r : h[i].id < r[j].id
    BY <1>1, <1>6, BoundsAre
  <2> QED BY <1>1, <1>3, <2>1, OrderedBoth
<1> HIDE DEF copy
<1>9. ASSUME NEW i \in DOMAIN copy, i # 1
      PROVE  /\ copy[i].kind \in ReadableKinds \ {"session"} /\ copy[i].parent < copy[i].id
             /\ copy[i].id < n /\ \E j \in DOMAIN lines : copy[i] = lines[j]
  <2>1. i - 1 \in DOMAIN r /\ copy[i] = r[i - 1]
    BY <1>7, <1>9
  <2> QED BY <1>6, <2>1
<1>10. 1 \in DOMAIN copy /\ copy[1].id < n
  BY <1>1, <1>7, BoundsAre
<1>11. Whole(copy, n)
  BY <1>1, <1>7, <1>8, <1>9, <1>10 DEF Whole
<1>12. HasAssistant(lines) => HasAssistant(copy)
  <2> SUFFICES ASSUME HasAssistant(lines) PROVE HasAssistant(copy)
    OBVIOUS
  <2>1. PICK j \in DOMAIN r : r[j].kind = "assistant"
    BY <1>5 DEF HasAssistant
  <2>2. j + 1 \in DOMAIN copy /\ copy[j + 1] = r[j]
    <3>1. j + 1 \in 2 .. 1 + Len(r) /\ (j + 1) - 1 = j
      BY <1>7
    <3> QED BY <1>7, <3>1
  <2> QED BY <2>1, <2>2 DEF HasAssistant
<1> QED BY <1>9, <1>11, <1>12 DEF copy, h, r

\* Copying a file writes the copy and opens it.
LEMMA ForkFromClean ==
  ASSUME StoreInv, Clean(sm, disk, nextId), NEW f \in Files, ForkFrom(f)
  PROVE  Clean(sm', disk', nextId') /\ Logged
<1> DEFINE copy == <<Header(nextFile)>> \o EntriesOf(Loaded(disk[f]))
           d == [disk EXCEPT ![nextFile] = copy]
<1>1. /\ nextFile <= MaxFiles /\ Loaded(disk[f]) # <<>>
      /\ sm' = OpenedManager(d, nextFile) /\ disk' = d /\ nextId' = nextId
  BY Zenon DEF ForkFrom
<1>2. nextFile \in Files /\ nextId \in Nat \ {0} /\ disk \in Disks /\ CleanDisk(disk, nextId)
  BY <1>1, BoundsAre DEF StoreInv, Clean
<1>3. Whole(disk[f], nextId) /\ HasAssistant(disk[f]) /\ Loaded(disk[f]) = disk[f]
  <2>1. disk[f] # Absent
    BY <1>1 DEF Loaded, HasHeader
  <2> QED BY <1>2, <2>1, WholeLoaded DEF CleanDisk
<1>4. Whole(copy, nextId) /\ HasAssistant(copy)
  <2> DEFINE lines == disk[f]
             c == <<Header(nextFile)>> \o EntriesOf(lines)
  <2> HIDE DEF lines
  <2>1. Whole(lines, nextId) /\ HasAssistant(lines) /\ Loaded(disk[f]) = lines
    BY <1>3 DEF lines
  <2>2. Whole(c, nextId) /\ (HasAssistant(lines) => HasAssistant(c))
    BY <1>2, <2>1, CopyIsWhole
  <2>3. copy = c
    BY <2>1
  <2> QED BY <2>1, <2>2, <2>3
<1> HIDE DEF copy
<1>5. d \in Disks /\ CleanDisk(d, nextId) /\ d[nextFile] = copy /\ copy # Absent
  BY <1>2, <1>4, WholeLoaded DEF Disks, CleanDisk
<1>6. d = [disk EXCEPT ![nextFile] = copy] /\ disk[nextFile] = Absent
  BY <1>2, BoundsAre DEF StoreInv
<1> HIDE DEF d
<1>7. Clean(OpenedManager(d, nextFile), d, nextId)
  BY <1>2, <1>5, OpenClean
<1>8. sm'.file = nextFile /\ sm'.persist /\ sm'.fileEntries = copy
  <2>1. OpenedManager(d, nextFile).fileEntries = d[nextFile]
    BY <1>2, <1>5, OpenClean
  <2>2. OpenedManager(d, nextFile).file = nextFile /\ OpenedManager(d, nextFile).persist
    BY <1>2, <1>5, OpenedType
  <2> QED BY <1>1, <1>5, <2>1, <2>2
<1>9. Logged
  BY <1>1, <1>2, <1>4, <1>6, <1>8 DEF Logged, Starts
<1> QED BY <1>1, <1>7, <1>9

\* A disk that is clean below a number is clean below a greater one.
LEMMA CleanLater ==
  ASSUME NEW n \in Nat, NEW m \in Nat, n <= m, NEW d, CleanDisk(d, n)
  PROVE  CleanDisk(d, m)
BY WholeLater DEF CleanDisk

\* Forking a saved session writes the fork if it has an answer.
LEMMA ForkSavedClean ==
  ASSUME StoreInv, Clean(sm, disk, nextId), NEW id \in Ids, ForkSaved(id)
  PROVE  Clean(sm', disk', nextId') /\ Logged
<1> DEFINE source == OpenedManager(disk, sm.file)
           from == EntryOf(sm.fileEntries, id).parent
           path == Branch(source.fileEntries, from)
           lines == BranchedEntries(source, path, nextFile)
           d == BranchedDisk(disk, nextFile, lines)
           top == nextId + Len(LabelTargets(source, path))
<1>1. nextId \in Nat \ {0} /\ disk \in Disks /\ CleanDisk(disk, nextId) /\ sm.file \in Files
  BY LeafType, BoundsAre DEF StoreInv, Clean
<1>2. OpenedDisk(disk, sm.file) = disk /\ Clean(source, disk, nextId) /\ Sound(source)
  BY <1>1, OpenClean, OpenedType
<1>3. /\ nextFile <= MaxFiles
      /\ nextId + Len(LabelTargets(source, path)) - 1 <= MaxEntries
      /\ sm' = OpenedManager(BranchedDisk(OpenedDisk(disk, sm.file), nextFile, lines), nextFile)
      /\ disk' = BranchedDisk(OpenedDisk(disk, sm.file), nextFile, lines)
      /\ nextId' = nextId + Len(LabelTargets(source, path))
  BY Zenon DEF ForkSaved, ForkPoint
<1>4. sm' = OpenedManager(d, nextFile) /\ disk' = d /\ nextId' = top
  BY <1>2, <1>3
<1>5. nextFile \in Files /\ source.labels \in Bookmarked /\ source.fileEntries \in Seq(Line)
  BY <1>2, <1>3, LeafType, BoundsAre DEF StoreInv
<1> HIDE DEF source, from
<1>6. Whole(lines, top)
  BY <1>2, <1>3, <1>5, ForkIsWhole DEF Clean
<1>7. top \in Nat \ {0} /\ nextId <= top
  <2>1. path \in Seq(Line)
    BY <1>5, BranchType
  <2> HIDE DEF path
  <2>2. Len(LabelTargets(source, path)) \in Nat
    BY <2>1, TargetsAre
  <2> QED BY <1>1, <2>2
<1> HIDE DEF lines, top
<1>8. d \in Disks /\ CleanDisk(d, top)
  <2>1. CleanDisk(disk, top)
    BY <1>1, <1>7, CleanLater
  <2>2. lines \in Contents
    BY <1>6, WholeLoaded
  <2>3. CASE HasAssistant(lines)
    <3>1. d = [disk EXCEPT ![nextFile] = lines]
      BY <2>3 DEF BranchedDisk
    <3> HIDE DEF d
    <3>2. d \in Disks
      BY <1>1, <2>2, <3>1 DEF Disks
    <3>3. ASSUME NEW f \in Files, d[f] # Absent PROVE Whole(d[f], top) /\ HasAssistant(d[f])
      BY <1>1, <1>6, <2>1, <2>3, <3>1, <3>3 DEF Disks, CleanDisk
    <3> QED BY <3>2, <3>3 DEF CleanDisk
  <2>4. CASE ~HasAssistant(lines)
    BY <1>1, <2>1, <2>4 DEF BranchedDisk
  <2> QED BY <2>3, <2>4
<1> HIDE DEF d
<1>9. Clean(OpenedManager(d, nextFile), d, top)
  BY <1>5, <1>7, <1>8, OpenClean
<1>10. sm'.file = nextFile /\ sm'.persist
  BY <1>4, <1>5, <1>8, OpenedType
<1>11. disk[nextFile] = Absent
  BY <1>5, BoundsAre DEF StoreInv
<1>12. CASE HasAssistant(lines)
  <2>1. d = [disk EXCEPT ![nextFile] = lines]
    BY <1>12 DEF BranchedDisk, d
  <2>2. d[nextFile] = lines /\ lines # Absent
    BY <1>1, <1>5, <1>6, <2>1, WholeLoaded DEF Disks
  <2>3. sm'.fileEntries = lines
    BY <1>4, <1>5, <1>7, <1>8, <2>2, OpenClean
  <2>4. Starts
    BY <1>4, <1>5, <1>10, <1>11, <1>12, <2>1, <2>3 DEF Starts
  <2> QED BY <1>4, <1>9, <1>10, <2>4 DEF Logged
<1>13. CASE ~HasAssistant(lines)
  <2>1. d = disk
    BY <1>13 DEF BranchedDisk, d
  <2>2. OpenedManager(d, nextFile) = Fresh(nextFile, TRUE)
    BY <1>5, <1>7, <1>8, <1>11, <2>1, OpenClean
  <2>3. Switches
    BY <1>4, <1>5, <1>10, <1>11, <2>1, <2>2 DEF Switches, Fresh
  <2> QED BY <1>4, <1>9, <1>10, <2>3 DEF Logged
<1> QED BY <1>12, <1>13

\* Forking a session in memory writes nothing.
LEMMA ForkInMemoryClean ==
  ASSUME StoreInv, Clean(sm, disk, nextId), NEW id \in Ids, ForkInMemory(id)
  PROVE  Clean(sm', disk', nextId') /\ Logged
<1> DEFINE from == EntryOf(sm.fileEntries, id).parent
           path == Branch(sm.fileEntries, from)
           lines == BranchedEntries(sm, path, nextFile)
           top == nextId + Len(LabelTargets(sm, path))
<1>1. /\ nextId + Len(LabelTargets(sm, path)) - 1 <= MaxEntries /\ nextFile <= MaxFiles
      /\ sm' = Indexed(sm.file, FALSE, lines, sm.flushed) /\ disk' = disk /\ nextId' = top
  BY Zenon DEF ForkInMemory, ForkPoint
<1>2. nextId \in Nat \ {0} /\ CleanDisk(disk, nextId) /\ nextFile \in Files /\ sm.labels \in Bookmarked
      /\ sm.fileEntries \in Seq(Line)
  BY <1>1, LeafType, BoundsAre DEF StoreInv, Clean
<1> HIDE DEF from
<1>3. Whole(lines, top)
  BY <1>1, <1>2, ForkIsWhole DEF Clean
<1>4. top \in Nat /\ nextId <= top
  <2>1. path \in Seq(Line)
    BY <1>2, BranchType
  <2> HIDE DEF path
  <2>2. Len(LabelTargets(sm, path)) \in Nat
    BY <2>1, TargetsAre
  <2> QED BY <1>2, <2>2
<1> HIDE DEF lines, top
<1>5. CleanDisk(disk, top)
  BY <1>2, <1>4, CleanLater
<1>6. sm'.fileEntries = lines /\ sm'.persist = FALSE
  BY <1>1 DEF Indexed
<1> QED BY <1>1, <1>3, <1>5, <1>6 DEF Clean, Logged, ForkInMemory

\* The first session is clean.
LEMMA InitClean ==
  ASSUME Init
  PROVE  CleanInv
<1>1. 1 \in Files /\ disk \in Disks /\ (\A f \in Files : disk[f] = Absent) /\ nextId = 1
  BY BoundsAre DEF Init, Disks, Contents
<1>2. PICK persist \in BOOLEAN : sm = Fresh(1, persist)
  BY PersistsAssumption DEF Init
<1>3. CleanDisk(disk, 1)
  BY <1>1 DEF CleanDisk
<1>4. Clean(Fresh(1, persist), disk, 1)
  BY <1>1, <1>3, FreshClean
<1> QED BY <1>1, <1>2, <1>4 DEF CleanInv

\* Every step but a crash keeps session and files clean; after a crash nothing is claimed.
LEMMA CleanStep ==
  ASSUME StoreInv, CleanInv, Next
  PROVE  CleanInv' /\ (crashes' = 0 => Logged)
<1> SUFFICES ASSUME crashes' = 0 PROVE Clean(sm', disk', nextId') /\ Logged
  BY DEF CleanInv
<1>1. ASSUME NEW kind \in Kinds, CrashWhileAppending(kind) PROVE FALSE
  BY <1>1, BoundsAre DEF CrashWhileAppending, StoreInv
<1>2. crashes' = crashes
  BY <1>1
     DEF Next, Operate, Mark, Crash, AppendEntry, AppendCompaction, AppendLabelChange, Save,
         BranchTo, MoveLeaf, ResetLeaf, BranchWithSummary, ForkSaved, ForkInMemory, ForkAtRoot,
         FreshSession, NewSession, Resume, ForkFrom
<1>3. Clean(sm, disk, nextId)
  BY <1>2 DEF CleanInv
<1>4. sm.persist \in BOOLEAN
  BY LeafType DEF StoreInv
<1>5. ASSUME NEW id \in Ids, NEW label \in LabelNames \union {NoLabel}, AppendLabelChange(id, label)
      PROVE  Clean(sm', disk', nextId') /\ Logged
  BY <1>3, <1>5, AppendLabelClean DEF Labellings
<1>6. ASSUME NEW id \in Ids, ForkAtRoot(id) PROVE Clean(sm', disk', nextId') /\ Logged
  BY <1>3, <1>4, <1>6, FreshSessionClean DEF ForkAtRoot
<1>7. ASSUME NewSession PROVE Clean(sm', disk', nextId') /\ Logged
  BY <1>3, <1>7, FreshSessionClean DEF NewSession
<1>8. ASSUME NEW id \in Ids \union {Null}, BranchTo(id) \/ ResetLeaf
      PROVE  Clean(sm', disk', nextId') /\ Logged
  BY <1>3, <1>8, MoveLeafClean DEF BranchTo, ResetLeaf
<1>9. ASSUME NEW kind \in Kinds, AppendEntry(kind) PROVE Clean(sm', disk', nextId') /\ Logged
  BY <1>3, <1>9, AppendEntryClean
<1> QED BY <1>1, <1>3, <1>5, <1>6, <1>7, <1>8, <1>9, AppendCompactionClean, SummaryClean, ForkSavedClean,
      ForkInMemoryClean, ResumeClean, ForkFromClean DEF Next, Operate, Mark, Crash

\* A step that changes nothing.
LEMMA StutterClean ==
  ASSUME CleanInv, UNCHANGED vars
  PROVE  CleanInv'
BY DEF CleanInv, Clean, CleanDisk, vars

\* What a session that no crash has cut short says of its file.
LEMMA CleanSays ==
  ASSUME CleanInv, StoreInv
  PROVE  SavedIsReloadable /\ (crashes = 0 => OneHeaderNoDuplicates)
<1> SUFFICES ASSUME crashes = 0 PROVE SavedIsReloadable /\ OneHeaderNoDuplicates
  BY DEF SavedIsReloadable
<1>1. Clean(sm, disk, nextId)
  BY DEF CleanInv
<1>2. SavedIsReloadable
  BY <1>1, WholeLoaded DEF Clean, SavedIsReloadable
<1>3. ASSUME NEW f \in Files, NEW i \in DOMAIN Loaded(disk[f]), NEW j \in DOMAIN Loaded(disk[f]), i # j
      PROVE  Loaded(disk[f])[i].id # Loaded(disk[f])[j].id
  <2>1. CASE disk[f] = Absent
    <3>1. Loaded(disk[f]) = <<>>
      BY <2>1 DEF Loaded, HasHeader
    <3> QED BY <1>3, <3>1
  <2>2. CASE disk[f] # Absent
    <3>1. Whole(disk[f], nextId) /\ Loaded(disk[f]) = disk[f]
      BY <1>1, <2>2, WholeLoaded DEF Clean, CleanDisk
    <3> QED BY <1>3, <3>1, WholeIs
  <2> QED BY <2>1, <2>2
<1>4. OneHeaderNoDuplicates
  BY <1>3 DEF OneHeaderNoDuplicates
<1> QED BY <1>2, <1>4

\* ReloadTheorem: without a crash a saved session with an answer is, entry for entry, what its file
\* holds, and no file holds an entry or a header twice: what _persist deferred is written when the
\* first answer comes, whether the session was started, reopened, forked or copied.
THEOREM ReloadTheorem == Spec => [](SavedIsReloadable /\ (crashes = 0 => OneHeaderNoDuplicates))
<1> DEFINE I == StoreInv /\ CleanInv
<1>1. Init => I
  BY InitStore, InitClean
<1>2. I /\ [Next]_vars => I'
  BY StoreStep, StutterStore, CleanStep, StutterClean
<1>3. I => SavedIsReloadable /\ (crashes = 0 => OneHeaderNoDuplicates)
  BY CleanSays
<1> HIDE DEF I
<1> QED BY <1>1, <1>2, <1>3, PTL DEF Spec

----------------------------------------------------------------------------
(* A fork keeps the labels of what it keeps *)

\* The lines of a fork: its header, the entries of the branch, an entry for each label.
LEMMA BranchedIs ==
  ASSUME NEW s, s.labels \in Bookmarked, NEW path \in Seq(Line), NEW f \in Files,
         nextId \in 1 .. MaxEntries + 1, nextId + Len(LabelTargets(s, path)) - 1 <= MaxEntries
  PROVE  LET kept == WithoutLabels(path)
             t == LabelTargets(s, kept)
             entries == LabelEntries(s, kept)
             lines == BranchedEntries(s, path, f)
         IN  /\ kept \in Seq(Line) /\ Len(kept) \in Nat /\ DOMAIN kept = 1 .. Len(kept)
             /\ lines \in Seq(Line) /\ Len(t) \in Nat /\ DOMAIN lines = 1 .. 1 + Len(kept) + Len(t)
             /\ lines[1] = Header(f)
             /\ \A i \in 1 .. Len(kept) : lines[1 + i] = kept[i]
             /\ \A k \in 1 .. Len(t) : lines[1 + Len(kept) + k] = entries[k]
<1> DEFINE kept == WithoutLabels(path)
           t == LabelTargets(s, kept)
           entries == LabelEntries(s, kept)
           h == <<Header(f)>>
           p == h \o kept
           lines == BranchedEntries(s, path, f)
<1>1. kept \in Seq(Line) /\ entries \in Seq(Line) /\ Len(entries) = Len(t) /\ Len(t) \in Nat
  BY LabelEntriesType
<1>2. h \in Seq(Line) /\ Len(h) = 1 /\ h[1] = Header(f)
  BY HeaderType
<1>3. lines = p \o entries
  BY DEF BranchedEntries
<1> HIDE DEF kept, t, entries, h, lines
<1>4. Len(kept) \in Nat /\ DOMAIN kept = 1 .. Len(kept)
  BY <1>1, LenProperties
<1>5. /\ p \in Seq(Line) /\ Len(p) = 1 + Len(kept)
      /\ \A i \in 1 .. 1 + Len(kept) : p[i] = IF i <= 1 THEN h[i] ELSE kept[i - 1]
  <2>1. /\ p \in Seq(Line) /\ Len(p) = Len(h) + Len(kept)
        /\ \A i \in 1 .. Len(h) + Len(kept) : p[i] = IF i <= Len(h) THEN h[i] ELSE kept[i - Len(h)]
    BY <1>1, <1>2, ConcatProperties
  <2> HIDE DEF p
  <2> QED BY <1>2, <2>1
<1>6. p[1] = Header(f) /\ \A i \in 1 .. Len(kept) : p[1 + i] = kept[i]
  <2>1. 1 \in 1 .. 1 + Len(kept)
    BY <1>4
  <2>2. ASSUME NEW i \in 1 .. Len(kept) PROVE p[1 + i] = kept[i]
    <3>1. 1 + i \in 1 .. 1 + Len(kept) /\ ~(1 + i <= 1) /\ (1 + i) - 1 = i
      BY <1>4
    <3> HIDE DEF p
    <3> QED BY <1>5, <3>1
  <2> QED BY <1>2, <1>5, <2>1, <2>2
<1> HIDE DEF p
<1>7. /\ lines \in Seq(Line) /\ Len(lines) = Len(p) + Len(t)
      /\ \A i \in 1 .. Len(p) + Len(t) : lines[i] = IF i <= Len(p) THEN p[i] ELSE entries[i - Len(p)]
  <2> DEFINE q == p \o entries
  <2>1. /\ q \in Seq(Line) /\ Len(q) = Len(p) + Len(entries)
        /\ \A i \in 1 .. Len(p) + Len(entries) :
             q[i] = IF i <= Len(p) THEN p[i] ELSE entries[i - Len(p)]
    <3>1. p \in Seq(Line) /\ entries \in Seq(Line)
      BY <1>1, <1>5
    <3> QED BY <3>1, ConcatProperties
  <2>2. lines = q
    BY <1>3
  <2> HIDE DEF q
  <2> QED BY <1>1, <2>1, <2>2
<1>8. DOMAIN lines = 1 .. 1 + Len(kept) + Len(t)
  BY <1>5, <1>7, LenProperties
<1>9. ASSUME NEW i \in 1 .. 1 + Len(kept) PROVE lines[i] = p[i]
  BY <1>1, <1>4, <1>5, <1>7
<1>10. ASSUME NEW k \in 1 .. Len(t) PROVE lines[1 + Len(kept) + k] = entries[k]
  <2>1. /\ 1 + Len(kept) + k \in 1 .. Len(p) + Len(t) /\ ~(1 + Len(kept) + k <= Len(p))
        /\ (1 + Len(kept) + k) - Len(p) = k
    BY <1>1, <1>4, <1>5
  <2> QED BY <1>7, <2>1
<1>11. lines[1] = Header(f) /\ \A i \in 1 .. Len(kept) : lines[1 + i] = kept[i]
  <2>1. 1 \in 1 .. 1 + Len(kept) /\ \A i \in 1 .. Len(kept) : 1 + i \in 1 .. 1 + Len(kept)
    BY <1>4
  <2> QED BY <1>6, <1>9, <2>1
<1> QED BY <1>1, <1>4, <1>7, <1>8, <1>10, <1>11 DEF kept, t, entries, lines

\* Every line of a fork is one of these.
LEMMA BranchedCases ==
  ASSUME NEW s, s.labels \in Bookmarked, NEW path \in Seq(Line), NEW f \in Files,
         nextId \in 1 .. MaxEntries + 1, nextId + Len(LabelTargets(s, path)) - 1 <= MaxEntries,
         NEW j \in DOMAIN BranchedEntries(s, path, f)
  PROVE  LET kept == WithoutLabels(path)
             t == LabelTargets(s, kept)
             entries == LabelEntries(s, kept)
             lines == BranchedEntries(s, path, f)
         IN  \/ j = 1
             \/ j - 1 \in DOMAIN kept /\ lines[j] = kept[j - 1]
             \/ /\ j - 1 - Len(kept) \in 1 .. Len(t) /\ j = 1 + Len(kept) + (j - 1 - Len(kept))
                /\ lines[j] = entries[j - 1 - Len(kept)]
<1> DEFINE kept == WithoutLabels(path)
           t == LabelTargets(s, kept)
           entries == LabelEntries(s, kept)
           lines == BranchedEntries(s, path, f)
<1>1. /\ kept \in Seq(Line) /\ Len(kept) \in Nat /\ DOMAIN kept = 1 .. Len(kept)
      /\ Len(t) \in Nat /\ DOMAIN lines = 1 .. 1 + Len(kept) + Len(t)
      /\ \A i \in 1 .. Len(kept) : lines[1 + i] = kept[i]
      /\ \A k \in 1 .. Len(t) : lines[1 + Len(kept) + k] = entries[k]
  BY BranchedIs
<1>0. j \in DOMAIN lines
  OBVIOUS
<1> HIDE DEF kept, t, entries, lines
<1>a. Len(kept) \in Nat /\ Len(t) \in Nat /\ j \in 1 .. 1 + Len(kept) + Len(t)
  BY <1>0, <1>1
<1>2. CASE j # 1 /\ j <= 1 + Len(kept)
  <2>1. j - 1 \in 1 .. Len(kept) /\ 1 + (j - 1) = j
    BY <1>a, <1>2
  <2>2. lines[1 + (j - 1)] = kept[j - 1]
    BY <1>1, <2>1
  <2> QED BY <1>1, <2>1, <2>2 DEF kept, t, entries, lines
<1>3. CASE ~(j <= 1 + Len(kept))
  <2> DEFINE k == j - 1 - Len(kept)
  <2>1. k \in 1 .. Len(t) /\ 1 + Len(kept) + k = j
    BY <1>a, <1>3
  <2> HIDE DEF k
  <2>2. lines[1 + Len(kept) + k] = entries[k]
    BY <1>1, <2>1
  <2>3. k \in 1 .. Len(t) /\ j = 1 + Len(kept) + k /\ lines[j] = entries[k]
    BY <2>1, <2>2
  <2> QED BY <2>3 DEF k, kept, t, entries, lines
<1> QED BY <1>a, <1>2, <1>3 DEF kept, t, entries, lines

\* The labels a fork records are those of what it was made from.
LEMMA BranchedLabels ==
  ASSUME NEW s, s.labels \in Bookmarked, NEW path \in Seq(Line), NEW f \in Files,
         nextId \in 1 .. MaxEntries + 1, nextId + Len(LabelTargets(s, path)) - 1 <= MaxEntries,
         NEW i \in IdsOf(BranchedEntries(s, path, f)),
         \A j \in DOMAIN BranchedEntries(s, path, f) :
           BranchedEntries(s, path, f)[j].id = i => ~IsLabel(BranchedEntries(s, path, f)[j])
  PROVE  LabelsIn(BranchedEntries(s, path, f))[i] = s.labels[i]
<1> DEFINE kept == WithoutLabels(path)
           t == LabelTargets(s, kept)
           entries == LabelEntries(s, kept)
           lines == BranchedEntries(s, path, f)
<1>1. /\ kept \in Seq(Line) /\ Len(kept) \in Nat /\ DOMAIN kept = 1 .. Len(kept)
      /\ lines \in Seq(Line) /\ Len(t) \in Nat /\ DOMAIN lines = 1 .. 1 + Len(kept) + Len(t)
      /\ lines[1] = Header(f)
      /\ \A k \in 1 .. Len(t) : lines[1 + Len(kept) + k] = entries[k]
  BY BranchedIs
<1>2. ASSUME NEW j \in DOMAIN lines
      PROVE  \/ j = 1
             \/ j - 1 \in DOMAIN kept /\ lines[j] = kept[j - 1]
             \/ /\ j - 1 - Len(kept) \in 1 .. Len(t) /\ j = 1 + Len(kept) + (j - 1 - Len(kept))
                /\ lines[j] = entries[j - 1 - Len(kept)]
  BY BranchedCases
<1>3. \A k \in 1 .. Len(t) : entries[k].kind = "label" /\ entries[k].ref = t[k]
                             /\ entries[k].label = s.labels[t[k]]
  BY LabelEntriesType
<1>4. \A j \in DOMAIN kept : ~IsLabel(kept[j])
  <2>1. \A j \in DOMAIN kept : kept[j].kind \in LineKinds \ {"label"}
    BY KindsMembers DEF WithoutLabels
  <2> QED BY <2>1 DEF IsLabel
<1>5. /\ DOMAIN t = 1 .. Len(t) /\ \A a, b \in DOMAIN t : t[a] = t[b] => a = b
      /\ \A k \in DOMAIN t : s.labels[t[k]] # NoLabel
      /\ \A x \in Ids : s.labels[x] # NoLabel /\ x \in IdsOf(kept) => \E k \in DOMAIN t : t[k] = x
  <2> HIDE DEF kept
  <2> QED BY <1>1, TargetsAre
<1> HIDE DEF kept, t, entries, lines
<1>6. PICK j \in DOMAIN lines : lines[j].id = i /\ i # Null
  BY DEF IdsOf, lines
<1>7. ~IsLabel(lines[j])
  BY <1>6 DEF lines
<1>8. Header(f).id = Null /\ ~IsLabel(Header(f))
  BY HeaderType DEF IsLabel
<1>9. i \in IdsOf(kept)
  <2>1. j # 1
    BY <1>1, <1>6, <1>8
  <2>2. ~(j - 1 - Len(kept) \in 1 .. Len(t) /\ lines[j] = entries[j - 1 - Len(kept)])
    BY <1>3, <1>7 DEF IsLabel
  <2>3. j - 1 \in DOMAIN kept /\ lines[j] = kept[j - 1]
    BY <1>2, <2>1, <2>2
  <2> QED BY <1>6, <2>3 DEF IdsOf
<1>10. i \in Ids
  <2>1. \A n \in DOMAIN kept : kept[n] \in Line
    BY <1>1, ElementOfSeq
  <2> QED BY <1>9, <2>1 DEF IdsOf, Line
<1>11. ASSUME NEW n \in DOMAIN lines, IsLabel(lines[n])
       PROVE  /\ n - 1 - Len(kept) \in 1 .. Len(t) /\ n = 1 + Len(kept) + (n - 1 - Len(kept))
              /\ lines[n] = entries[n - 1 - Len(kept)]
  BY <1>1, <1>2, <1>4, <1>8, <1>11
<1>12. CASE s.labels[i] = NoLabel
  <2>1. \A n \in DOMAIN lines : ~(IsLabel(lines[n]) /\ lines[n].ref = i)
    BY <1>3, <1>5, <1>11, <1>12
  <2>2. LabelsIn(lines)[i] = NoLabel
    BY <1>1, <1>10, <2>1, LabelAfter
  <2> QED BY <1>12, <2>2 DEF lines
<1>13. CASE s.labels[i] # NoLabel
  <2>1. PICK k \in DOMAIN t : t[k] = i
    BY <1>5, <1>9, <1>10, <1>13
  <2> DEFINE m == 1 + Len(kept) + k
  <2>2. m \in DOMAIN lines /\ lines[m] = entries[k]
    BY <1>1, <1>5, <2>1
  <2>3. IsLabel(lines[m]) /\ lines[m].ref = i /\ lines[m].label = s.labels[i]
    BY <1>3, <1>5, <2>1, <2>2 DEF IsLabel
  <2>4. ASSUME NEW n \in DOMAIN lines, IsLabel(lines[n]), lines[n].ref = i PROVE n = m
    <3>1. n - 1 - Len(kept) \in DOMAIN t /\ t[n - 1 - Len(kept)] = i
      BY <1>3, <1>5, <1>11, <2>4
    <3>2. n - 1 - Len(kept) = k
      BY <1>5, <2>1, <3>1
    <3> QED BY <1>11, <2>4, <3>2
  <2>5. m \in Nat
    BY <1>1, <1>5
  <2> HIDE DEF m
  <2>6. \A n \in DOMAIN lines : n > m => ~(IsLabel(lines[n]) /\ lines[n].ref = i)
    BY <2>4, <2>5
  <2>7. LabelsIn(lines)[i] = lines[m].label
    BY <1>1, <1>10, <2>2, <2>3, <2>6, LabelAfter
  <2> QED BY <2>3, <2>7 DEF lines
<1> QED BY <1>12, <1>13

\* ForkLabelsTheorem: a fork in memory shows the labels of the entries it keeps, whatever was set,
\* cleared or set again before: the label entries createBranchedSession leaves out are written
\* anew, one for each label that is set.
THEOREM ForkLabelsTheorem == Spec => ForkKeepsLabels
<1>1. ASSUME StoreInv, NEW id \in Ids, ForkInMemory(id),
             NEW i \in IdsOf(sm'.fileEntries) \ {sm'.fileEntries[j].id : j \in
               {k \in DOMAIN sm'.fileEntries : IsLabel(sm'.fileEntries[k])}}
      PROVE  sm'.labels[i] = sm.labels[i]
  <2> DEFINE path == Branch(sm.fileEntries, EntryOf(sm.fileEntries, id).parent)
             lines == BranchedEntries(sm, path, nextFile)
  <2>1. /\ nextId + Len(LabelTargets(sm, path)) - 1 <= MaxEntries /\ nextFile <= MaxFiles
        /\ sm' = Indexed(sm.file, FALSE, lines, sm.flushed)
    BY <1>1, Zenon DEF ForkInMemory, ForkPoint
  <2>2. sm'.labels = LabelsIn(lines) /\ sm'.fileEntries = lines
    BY <2>1 DEF Indexed
  <2>3. /\ sm.labels \in Bookmarked /\ sm.fileEntries \in Seq(Line)
        /\ nextFile \in Files /\ nextId \in 1 .. MaxEntries + 1
    BY <1>1, <2>1, LeafType, BoundsAre DEF StoreInv
  <2>4. path \in Seq(Line)
    BY <2>3, BranchType
  <2> HIDE DEF path
  <2>5. i \in IdsOf(lines) /\ \A j \in DOMAIN lines : lines[j].id = i => ~IsLabel(lines[j])
    BY <2>2
  <2>6. LabelsIn(lines)[i] = sm.labels[i]
    BY <2>1, <2>3, <2>4, <2>5, BranchedLabels
  <2> QED BY <2>2, <2>6
<1> DEFINE A == nextFile' # nextFile => \A id \in Ids : ForkInMemory(id) =>
                  \A i \in IdsOf(sm'.fileEntries) \ {sm'.fileEntries[j].id : j \in
                       {k \in DOMAIN sm'.fileEntries : IsLabel(sm'.fileEntries[k])}} :
                    sm'.labels[i] = sm.labels[i]
<1>2. StoreInv /\ [Next]_vars => [A]_vars
  BY <1>1
<1>3. Init => StoreInv
  BY InitStore
<1>4. StoreInv /\ [Next]_vars => StoreInv'
  BY StoreStep, StutterStore
<1>5. ForkKeepsLabels <=> [][A]_vars
  BY DEF ForkKeepsLabels
<1> HIDE DEF A
<1> QED BY <1>2, <1>3, <1>4, <1>5, PTL DEF Spec

----------------------------------------------------------------------------
(* The branch is the one chain that reaches a root *)

Rooted(lines, path) == path # <<>> => path[1].parent \notin IdsOf(lines)

\* The ids of the entries of a whole session are its ids.
LEMMA EntriesAre ==
  ASSUME NEW n, NEW lines, Whole(lines, n)
  PROVE  /\ \A e \in EntriesIn(lines) : e.id \in IdsOf(lines) /\ EntryOf(lines, e.id) = e
         /\ \A d, e \in EntriesIn(lines) : d.id = e.id => d = e
         /\ \A id \in IdsOf(lines) : \E e \in EntriesIn(lines) : e.id = id
         /\ Null \notin IdsOf(lines)
<1>1. /\ \A i, j \in DOMAIN lines : lines[i].id = lines[j].id => i = j
      /\ IdsOf(lines) = {lines[i].id : i \in DOMAIN lines \ {1}}
  BY WholeIs
<1>2. \A d, e \in EntriesIn(lines) : d.id = e.id => d = e
  BY <1>1 DEF EntriesIn
<1>3. \A e \in EntriesIn(lines) : e.id \in IdsOf(lines)
  BY <1>1 DEF EntriesIn
<1>4. \A e \in EntriesIn(lines) : EntryOf(lines, e.id) = e
  BY <1>2, <1>3, EntryOfWhole
<1>5. \A id \in IdsOf(lines) : \E e \in EntriesIn(lines) : e.id = id
  BY <1>1 DEF EntriesIn
<1>6. Null \notin IdsOf(lines)
  BY DEF IdsOf
<1> QED BY <1>2, <1>3, <1>4, <1>5, <1>6

\* Climbing ends at a root: each step up goes to an earlier line.
LEMMA BranchRooted ==
  ASSUME NEW n, NEW lines, Whole(lines, n), NEW from
  PROVE  /\ Rooted(lines, Branch(lines, from))
         /\ from \in IdsOf(lines) => Branch(lines, from) # <<>>
         /\ from \notin IdsOf(lines) => Branch(lines, from) = <<>>
<1> DEFINE u == Up(lines, from)
           N == Len(lines)
           Done(k) == Rooted(lines, u[k])
           Before(k) == \E pos \in 2 .. N : pos <= N - k /\ u[k][1] = lines[pos]
           P(k) == /\ u[k] \in Seq(Line)
                   /\ from \in IdsOf(lines) => u[k] # <<>> /\ (Done(k) \/ Before(k))
                   /\ from \notin IdsOf(lines) => u[k] = <<>>
           T == {k \in 0 .. N : P(k)}
<1>1. N \in Nat /\ lines \in Seq(Line) /\ DOMAIN lines = 1 .. N
  BY WholeIs DEF Whole
<1>2. /\ Branch(lines, from) = u[N] /\ u[0] = Start(lines, from)
      /\ \A k \in 0 .. N - 1 : u[k + 1] = Longer(lines, u[k])
      /\ \A k \in 0 .. N : u[k] \in Seq(Line)
  BY <1>1, UpIs
<1>3. ASSUME NEW e \in EntriesIn(lines)
      PROVE  \E pos \in 2 .. N : e = lines[pos]
  BY <1>1 DEF EntriesIn
<1> HIDE DEF u, N
<1>4. P(0)
  <2>1. CASE from \in IdsOf(lines)
    <3> DEFINE e == EntryOf(lines, from)
    <3>1. u[0] = <<e>>
      BY <1>2, <2>1 DEF Start
    <3>2. e \in EntriesIn(lines)
      BY <2>1, EntryOfWhole
    <3> HIDE DEF e
    <3>3. u[0] # <<>> /\ u[0][1] = e
      BY <3>1
    <3>4. PICK pos \in 2 .. N : e = lines[pos]
      BY <1>3, <3>2
    <3>5. pos <= N - 0
      BY <1>1
    <3> QED BY <1>1, <1>2, <2>1, <3>3, <3>4, <3>5
  <2>2. CASE from \notin IdsOf(lines)
    BY <1>1, <1>2, <2>2 DEF Start
  <2> QED BY <2>1, <2>2
<1>5. ASSUME NEW k \in 0 .. N - 1, P(k) PROVE P(k + 1)
  <2> DEFINE p == u[k]
             q == u[k + 1]
  <2>1. q = Longer(lines, p) /\ p \in Seq(Line) /\ q \in Seq(Line) /\ k + 1 \in 0 .. N
    BY <1>1, <1>2
  <2>2. CASE p = <<>>
    BY <1>5, <2>1, <2>2 DEF Longer
  <2>3. CASE p # <<>> /\ Head(p).parent \notin IdsOf(lines)
    <3>1. q = p
      BY <2>1, <2>3 DEF Longer
    <3>2. Head(p) = p[1]
      BY <2>1, <2>3
    <3> QED BY <1>5, <2>1, <2>3, <3>1, <3>2 DEF Rooted
  <2>4. CASE p # <<>> /\ Head(p).parent \in IdsOf(lines)
    <3> DEFINE e == EntryOf(lines, Head(p).parent)
    <3>1. q = <<e>> \o p
      BY <2>1, <2>4 DEF Longer
    <3>2. e \in EntriesIn(lines) /\ e.id = Head(p).parent
      BY <2>4, EntryOfWhole
    <3>3. Head(p) = p[1]
      BY <2>1, <2>4
    <3>4. Before(k) /\ from \in IdsOf(lines)
      BY <1>5, <2>4, <3>3 DEF Rooted
    <3>5. PICK pos \in 2 .. N : pos <= N - k /\ p[1] = lines[pos]
      BY <3>4
    <3>6. PICK new \in 2 .. N : e = lines[new]
      BY <1>3, <3>2
    <3>7. new < pos
      <4>1. lines[new].id < lines[pos].id
        <5>1. pos \in DOMAIN lines /\ pos # 1
          BY <1>1
        <5>2. lines[pos].parent < lines[pos].id
          BY <5>1 DEF Whole
        <5> QED BY <3>2, <3>3, <3>5, <3>6, <5>2
      <4>2. pos \in DOMAIN lines /\ new \in DOMAIN lines /\ new \in Nat /\ pos \in Nat
        BY <1>1
      <4>3. lines[new].id \in Nat /\ lines[pos].id \in Nat
        BY <4>2, WholeIs
      <4>4. pos < new => lines[pos].id < lines[new].id
        BY <4>2 DEF Whole, Ordered
      <4> QED BY <4>1, <4>2, <4>3, <4>4
    <3>8. new <= N - (k + 1)
      BY <1>1, <3>5, <3>7
    <3> HIDE DEF e
    <3>9. q # <<>> /\ q[1] = e
      <4>1. <<e>> \in Seq({e}) /\ Len(<<e>>) = 1 /\ <<e>>[1] = e
        OBVIOUS
      <4>2. e \in Line
        BY <3>2, WholeIs
      <4>3. <<e>> \in Seq(Line)
        BY <4>2
      <4> QED BY <2>1, <3>1, <4>1, <4>3, ConcatProperties, Joined
    <3> QED BY <2>1, <3>4, <3>6, <3>8, <3>9
  <2> QED BY <2>2, <2>3, <2>4
<1>6. \A k \in 0 .. N : k \in T
  <2> HIDE DEF P
  <2>1. 0 \in T /\ \A k \in 0 .. N - 1 : k \in T => k + 1 \in T
    BY <1>1, <1>4, <1>5
  <2> HIDE DEF T
  <2> QED BY <1>1, <2>1, Upwards
<1>7. P(N) /\ ~Before(N)
  <2>1. P(N)
    BY <1>1, <1>6
  <2> QED BY <1>1, <2>1
<1>8. \/ from \in IdsOf(lines) /\ u[N] # <<>> /\ Done(N)
      \/ from \notin IdsOf(lines) /\ u[N] = <<>>
  BY <1>7
<1> QED BY <1>2, <1>8 DEF Rooted

\* What a chain is, entry by entry.
LEMMA ChainSteps ==
  ASSUME NEW n, NEW lines, Whole(lines, n), NEW from, NEW path, Chain(lines, path, from)
  PROVE  /\ Len(path) \in Nat /\ DOMAIN path = 1 .. Len(path) /\ path \in Seq(Line)
         /\ \A i \in 1 .. Len(path) : path[i] \in EntriesIn(lines)
         /\ path # <<>> => Len(path) \in 1 .. Len(path) /\ path[Len(path)].id = from
         /\ \A i \in 2 .. Len(path) : path[i].parent = path[i - 1].id
<1>1. Len(path) \in Nat /\ DOMAIN path = 1 .. Len(path) /\ path \in Seq(Line)
      /\ \A i \in DOMAIN path : path[i] \in EntriesIn(lines)
  BY ChainIs
<1>2. path # <<>> => Len(path) \in 1 .. Len(path) /\ path[Len(path)].id = from
  <2>1. path # <<>> => Len(path) # 0
    BY <1>1, EmptySeq
  <2> QED BY <1>1, <2>1 DEF Chain
<1>3. \A i \in 2 .. Len(path) : path[i].parent = path[i - 1].id
  <2>1. \A i \in 2 .. Len(path) : i \in DOMAIN path /\ i # 1
    BY <1>1
  <2> QED BY <2>1 DEF Chain
<1> QED BY <1>1, <1>2, <1>3

\* Two rooted chains that end at the same entry agree from the end on.
LEMMA ChainsAgree ==
  ASSUME NEW n, NEW lines, Whole(lines, n), NEW from,
         NEW p, Chain(lines, p, from), p # <<>>, NEW q, Chain(lines, q, from), q # <<>>,
         Len(p) <= Len(q), Rooted(lines, p)
  PROVE  p = q
<1> DEFINE P == Len(p)
           Q == Len(q)
           Same(k) == k < P => p[P - k] = q[Q - k]
           T == {k \in 0 .. P : Same(k)}
<1>1. /\ P \in Nat /\ DOMAIN p = 1 .. P /\ p \in Seq(Line)
      /\ \A i \in 1 .. P : p[i] \in EntriesIn(lines)
      /\ P \in 1 .. P /\ p[P].id = from
      /\ \A i \in 2 .. P : p[i].parent = p[i - 1].id
  BY ChainSteps
<1>2. /\ Q \in Nat /\ DOMAIN q = 1 .. Q /\ q \in Seq(Line)
      /\ \A i \in 1 .. Q : q[i] \in EntriesIn(lines)
      /\ Q \in 1 .. Q /\ q[Q].id = from
      /\ \A i \in 2 .. Q : q[i].parent = q[i - 1].id
  BY ChainSteps
<1>3. \A d, e \in EntriesIn(lines) : d.id = e.id => d = e
  BY EntriesAre
<1>4. P <= Q
  OBVIOUS
<1> HIDE DEF P, Q
<1>5. Same(0)
  <2>1. p[P] = q[Q]
    BY <1>1, <1>2, <1>3
  <2>2. P - 0 = P /\ Q - 0 = Q
    BY <1>1, <1>2
  <2> QED BY <2>1, <2>2
<1>6. ASSUME NEW k \in 0 .. P - 1, Same(k) PROVE Same(k + 1)
  <2> SUFFICES ASSUME k + 1 < P PROVE p[P - (k + 1)] = q[Q - (k + 1)]
    OBVIOUS
  <2> DEFINE i == P - k
             j == Q - k
  <2>1. i \in 2 .. P /\ j \in 2 .. Q /\ i - 1 = P - (k + 1) /\ j - 1 = Q - (k + 1)
        /\ i - 1 \in 1 .. P /\ j - 1 \in 1 .. Q /\ k < P
    BY <1>1, <1>2, <1>4
  <2>2. p[i] = q[j]
    BY <1>6, <2>1
  <2> HIDE DEF i, j
  <2>3. p[i - 1].id = q[j - 1].id
    BY <1>1, <1>2, <2>1, <2>2
  <2>4. p[i - 1] = q[j - 1]
    BY <1>1, <1>2, <1>3, <2>1, <2>3
  <2> QED BY <2>1, <2>4
<1> HIDE DEF Same
<1>7. \A k \in 0 .. P : k \in T
  <2>1. 0 \in T /\ \A k \in 0 .. P - 1 : k \in T => k + 1 \in T
    BY <1>1, <1>5, <1>6
  <2> HIDE DEF T
  <2> QED BY <1>1, <2>1, Upwards
<1>8. \A i \in 1 .. P : p[i] = q[Q - P + i]
  <2> SUFFICES ASSUME NEW i \in 1 .. P PROVE p[i] = q[Q - P + i]
    OBVIOUS
  <2>1. P - i \in 0 .. P /\ P - i < P /\ P - (P - i) = i /\ Q - (P - i) = Q - P + i
    BY <1>1, <1>2
  <2>2. Same(P - i)
    BY <1>7, <2>1
  <2>3. p[P - (P - i)] = q[Q - (P - i)]
    BY <2>1, <2>2 DEF Same
  <2> QED BY <2>1, <2>3
<1>9. P = Q
  <2> SUFFICES ASSUME P < Q PROVE FALSE
    BY <1>1, <1>2, <1>4
  <2> DEFINE j == Q - P + 1
  <2>1. 1 \in 1 .. P /\ j \in 2 .. Q /\ j - 1 \in 1 .. Q
    BY <1>1, <1>2
  <2>2. p[1] = q[j]
    BY <1>8, <2>1
  <2> HIDE DEF j
  <2>3. p[1].parent = q[j - 1].id
    BY <1>2, <2>1, <2>2
  <2>4. q[j - 1].id \in IdsOf(lines)
    BY <1>2, <2>1, EntriesAre
  <2> QED BY <2>3, <2>4 DEF Rooted
<1>10. \A i \in 1 .. P : p[i] = q[i]
  <2>1. \A i \in 1 .. P : Q - P + i = i
    BY <1>1, <1>2, <1>9
  <2> QED BY <1>8, <2>1
<1> QED BY <1>1, <1>2, <1>9, <1>10, SeqEqual DEF P, Q

\* So the branch is every rooted chain.
LEMMA BranchIs ==
  ASSUME NEW n, NEW lines, Whole(lines, n), NEW from, NEW path, Chain(lines, path, from),
         Rooted(lines, path), path = <<>> => from \notin IdsOf(lines)
  PROVE  Branch(lines, from) = path
<1> DEFINE b == Branch(lines, from)
<1>1. /\ Chain(lines, b, from) /\ Rooted(lines, b)
      /\ from \in IdsOf(lines) => b # <<>>
      /\ from \notin IdsOf(lines) => b = <<>>
  BY BranchChain, BranchRooted
<1> HIDE DEF b
<1>2. CASE path = <<>>
  BY <1>1, <1>2 DEF b
<1>3. CASE path # <<>>
  <2>1. path[Len(path)].id = from /\ path[Len(path)] \in EntriesIn(lines)
    BY <1>3, ChainSteps
  <2>2. from \in IdsOf(lines)
    BY <2>1, EntriesAre
  <2>3. b # <<>>
    BY <1>1, <2>2
  <2>4. Len(b) \in Nat /\ Len(path) \in Nat
    BY <1>1, ChainSteps
  <2>5. CASE Len(b) <= Len(path)
    BY <1>1, <1>3, <2>3, <2>5, ChainsAgree DEF b
  <2>6. CASE Len(path) <= Len(b)
    BY <1>1, <1>3, <2>3, <2>6, ChainsAgree DEF b
  <2> QED BY <2>4, <2>5, <2>6
<1> QED BY <1>2, <1>3

\* A branch is the same in another list of lines that holds its entries and not the parent of the first.
LEMMA SameBranch ==
  ASSUME NEW n, NEW lines, Whole(lines, n), NEW m, NEW others, Whole(others, m), NEW from,
         \A i \in DOMAIN Branch(lines, from) : Branch(lines, from)[i] \in EntriesIn(others),
         Rooted(others, Branch(lines, from)),
         from \in IdsOf(lines) \/ from \notin IdsOf(others)
  PROVE  Branch(others, from) = Branch(lines, from)
<1> DEFINE path == Branch(lines, from)
<1>1. /\ Chain(lines, path, from)
      /\ from \in IdsOf(lines) => path # <<>>
  BY BranchChain, BranchRooted
<1>2. \A i \in DOMAIN path : path[i] \in EntriesIn(others)
  OBVIOUS
<1>3. Rooted(others, path)
  OBVIOUS
<1> HIDE DEF path
<1>4. path \in Seq(EntriesIn(others))
  <2>1. path \in Seq(Line) /\ DOMAIN path = 1 .. Len(path) /\ Len(path) \in Nat
    BY <1>1, ChainIs
  <2>2. path = [i \in 1 .. Len(path) |-> path[i]]
    BY <2>1
  <2>3. path \in [1 .. Len(path) -> EntriesIn(others)]
    BY <1>2, <2>1, <2>2
  <2> QED BY <2>1, <2>3
<1>5. Chain(others, path, from)
  BY <1>1, <1>4 DEF Chain
<1>6. path = <<>> => from \notin IdsOf(others)
  BY <1>1
<1> QED BY <1>3, <1>5, <1>6, BranchIs DEF path

\* The part of a branch before one of its entries is the branch up to that entry.
LEMMA BranchBefore ==
  ASSUME NEW n, NEW lines, Whole(lines, n), NEW from, NEW k \in DOMAIN Branch(lines, from)
  PROVE  \A i \in DOMAIN Branch(lines, Branch(lines, from)[k].id) :
           \E j \in DOMAIN Branch(lines, from) :
             Branch(lines, Branch(lines, from)[k].id)[i] = Branch(lines, from)[j]
<1> DEFINE path == Branch(lines, from)
           front == SubSeq(path, 1, k)
           E == EntriesIn(lines)
<1>1. Chain(lines, path, from) /\ Rooted(lines, path)
  BY BranchChain, BranchRooted
<1>2. k \in DOMAIN path
  OBVIOUS
<1> HIDE DEF path
<1>3. /\ Len(path) \in Nat /\ DOMAIN path = 1 .. Len(path) /\ path \in Seq(E) /\ Ordered(path)
      /\ \A i \in 2 .. Len(path) : path[i].parent = path[i - 1].id
      /\ k \in 1 .. Len(path) /\ path # <<>>
  BY <1>1, <1>2, ChainSteps DEF Chain
<1> HIDE DEF E
<1>4. /\ front \in Seq(E) /\ Len(front) = k /\ DOMAIN front = 1 .. k
      /\ \A i \in 1 .. k : front[i] = path[i]
  <2>1. 1 \in 1 .. Len(path) + 1 /\ k \in 0 .. Len(path) /\ k - 1 + 1 = k
    BY <1>3
  <2>2. /\ front \in Seq(E) /\ Len(front) = k
        /\ \A i \in 1 .. k : front[i] = path[i]
    BY <1>3, <2>1, SubSeqProperties
  <2> QED BY <2>2, LenProperties
<1> HIDE DEF front
<1>5. Chain(lines, front, path[k].id)
  <2>1. \A i \in 1 .. k : i \in DOMAIN path
    BY <1>3
  <2>2. Ordered(front)
    BY <1>3, <1>4, <2>1 DEF Ordered
  <2>3. front[Len(front)].id = path[k].id
    <3>1. k \in 1 .. k
      BY <1>3
    <3> QED BY <1>4, <3>1
  <2>4. ASSUME NEW i \in DOMAIN front, i # 1 PROVE front[i].parent = front[i - 1].id
    <3>1. i \in 2 .. Len(path) /\ i - 1 \in 1 .. k /\ i \in 1 .. k
      BY <1>3, <1>4, <2>4
    <3> QED BY <1>3, <1>4, <3>1
  <2> QED BY <1>4, <2>2, <2>3, <2>4 DEF Chain, E
<1>6. Rooted(lines, front) /\ front # <<>>
  <2>1. 1 \in 1 .. k
    BY <1>3
  <2>2. front[1] = path[1]
    BY <1>4, <2>1
  <2>3. front # <<>>
    BY <1>4, <2>1
  <2> QED BY <1>1, <1>3, <2>2, <2>3 DEF Rooted
<1>7. Branch(lines, path[k].id) = front
  BY <1>5, <1>6, BranchIs
<1>8. \A i \in DOMAIN front : \E j \in DOMAIN path : front[i] = path[j]
  <2>1. \A i \in 1 .. k : i \in DOMAIN path
    BY <1>3
  <2> QED BY <1>4, <2>1
<1> QED BY <1>7, <1>8 DEF path

----------------------------------------------------------------------------
(* Without bookmarks every reference resolves *)

\* A session without label entries whose parents, and what its compactions kept, are in it.
Tied(lines) ==
  /\ lines[1].parent = Null
  /\ \A e \in EntriesIn(lines) :
       /\ e.kind # "label"
       /\ e.parent \in IdsOf(lines) \union {Null}
       /\ e.kind = "compaction" => e.ref \in IdsOf(Branch(lines, e.parent))

\* A branch of such a session starts at an entry without a parent.
LEMMA TiedBranch ==
  ASSUME NEW n, NEW lines, Whole(lines, n), Tied(lines), NEW from
  PROVE  LET path == Branch(lines, from)
         IN  /\ path \in Seq(Line) /\ Len(path) \in Nat /\ DOMAIN path = 1 .. Len(path)
             /\ \A i \in DOMAIN path : path[i] \in EntriesIn(lines) /\ path[i].id \in IdsOf(lines)
             /\ path # <<>> => path[1].parent = Null /\ path[Len(path)].id = from /\ Len(path) \in DOMAIN path
             /\ \A i \in 2 .. Len(path) : path[i].parent = path[i - 1].id
             /\ \A others : Rooted(others, path)
<1> DEFINE path == Branch(lines, from)
<1>1. Chain(lines, path, from) /\ Rooted(lines, path)
  BY BranchChain, BranchRooted
<1> HIDE DEF path
<1>2. /\ Len(path) \in Nat /\ DOMAIN path = 1 .. Len(path) /\ path \in Seq(Line)
      /\ \A i \in 1 .. Len(path) : path[i] \in EntriesIn(lines)
      /\ path # <<>> => Len(path) \in 1 .. Len(path) /\ path[Len(path)].id = from
      /\ \A i \in 2 .. Len(path) : path[i].parent = path[i - 1].id
  BY <1>1, ChainSteps
<1>3. \A i \in DOMAIN path : path[i].id \in IdsOf(lines)
  BY <1>2, EntriesAre
<1>4. path # <<>> => path[1].parent = Null
  <2>1. path # <<>> => 1 \in 1 .. Len(path)
    BY <1>2
  <2> QED BY <1>1, <1>2, <2>1 DEF Rooted, Tied
<1>5. \A others : Rooted(others, path)
  BY <1>4 DEF Rooted, IdsOf
<1> QED BY <1>2, <1>3, <1>4, <1>5 DEF path

\* So it is a branch of every session that holds its entries.
LEMMA TiedSame ==
  ASSUME NEW n, NEW lines, Whole(lines, n), Tied(lines), NEW m, NEW others, Whole(others, m),
         NEW from \in IdsOf(lines) \union {Null},
         \A i \in DOMAIN Branch(lines, from) : Branch(lines, from)[i] \in EntriesIn(others)
  PROVE  Branch(others, from) = Branch(lines, from)
<1>1. Rooted(others, Branch(lines, from))
  BY TiedBranch
<1>2. from \in IdsOf(lines) \/ from \notin IdsOf(others)
  BY DEF IdsOf
<1> QED BY <1>1, <1>2, SameBranch

\* The next entry ties in when its references do.
LEMMA TiedAppend ==
  ASSUME NEW n \in Nat, NEW lines, Whole(lines, n), Tied(lines), NEW e \in Line, e.id = n, e.parent < n,
         e.kind \in ReadableKinds \ {"session"}, e.kind # "label",
         e.parent \in IdsOf(lines) \union {Null},
         e.kind = "compaction" => e.ref \in IdsOf(Branch(lines, e.parent))
  PROVE  Tied(Append(lines, e))
<1> DEFINE u == Append(lines, e)
           N == Len(lines)
<1>1. lines \in Seq(Line) /\ N \in Nat \ {0} /\ DOMAIN lines = 1 .. N
  BY WholeIs DEF Whole
<1>2. /\ Len(u) = N + 1 /\ DOMAIN u = 1 .. N + 1
      /\ \A i \in 1 .. N : u[i] = lines[i]
      /\ u[N + 1] = e
  BY <1>1, AppendProperties, LenProperties
<1>3. Whole(u, n + 1)
  BY WholeAppend
<1> HIDE DEF u, N
<1>4. EntriesIn(u) = EntriesIn(lines) \union {e}
  <2>1. ASSUME NEW d \in EntriesIn(u) PROVE d \in EntriesIn(lines) \union {e}
    <3>1. PICK i \in 1 .. N + 1 : d = u[i] /\ i # 1
      BY <1>2 DEF EntriesIn
    <3>2. i = N + 1 \/ (i \in DOMAIN lines /\ u[i] = lines[i])
      BY <1>1, <1>2
    <3> QED BY <1>2, <3>1, <3>2 DEF EntriesIn
  <2>2. ASSUME NEW d \in EntriesIn(lines) PROVE d \in EntriesIn(u)
    <3>1. PICK i \in DOMAIN lines \ {1} : d = lines[i]
      BY DEF EntriesIn
    <3>2. i \in DOMAIN u \ {1} /\ u[i] = lines[i]
      BY <1>1, <1>2
    <3> QED BY <3>1, <3>2 DEF EntriesIn
  <2>3. e \in EntriesIn(u)
    <3>1. N + 1 \in DOMAIN u /\ N + 1 # 1
      BY <1>1, <1>2
    <3> QED BY <1>2, <3>1 DEF EntriesIn
  <2> QED BY <2>1, <2>2, <2>3
<1>5. IdsOf(lines) \subseteq IdsOf(u)
  <2>1. ASSUME NEW id \in IdsOf(lines) PROVE id \in IdsOf(u)
    <3>1. PICK d \in EntriesIn(lines) : d.id = id
      BY EntriesAre
    <3>2. d \in EntriesIn(u)
      BY <1>4
    <3> QED BY <1>3, <3>1, <3>2, EntriesAre
  <2> QED BY <2>1
<1>6. ASSUME NEW d \in EntriesIn(u)
      PROVE  /\ d.kind # "label" /\ d.parent \in IdsOf(lines) \union {Null}
             /\ d.kind = "compaction" => d.ref \in IdsOf(Branch(lines, d.parent))
  BY <1>4 DEF Tied
<1>7. ASSUME NEW d \in EntriesIn(u) PROVE Branch(u, d.parent) = Branch(lines, d.parent)
  <2> DEFINE from == d.parent
  <2>1. from \in IdsOf(lines) \union {Null}
    BY <1>6
  <2> HIDE DEF from
  <2>2. \A i \in DOMAIN Branch(lines, from) : Branch(lines, from)[i] \in EntriesIn(u)
    BY <1>4, TiedBranch
  <2>3. Branch(u, from) = Branch(lines, from)
    BY <1>3, <2>1, <2>2, TiedSame
  <2> QED BY <2>3 DEF from
<1>8. u[1].parent = Null
  BY <1>1, <1>2 DEF Tied
<1> QED BY <1>5, <1>6, <1>7, <1>8 DEF Tied, u

\* A session with the same entries is tied too.
LEMMA TiedCopy ==
  ASSUME NEW n, NEW lines, Whole(lines, n), Tied(lines), NEW m, NEW others, Whole(others, m),
         EntriesIn(others) = EntriesIn(lines), others[1].parent = Null
  PROVE  Tied(others)
<1>1. IdsOf(others) = IdsOf(lines)
  <2>1. \A id \in IdsOf(others) : id \in IdsOf(lines)
    BY EntriesAre
  <2>2. \A id \in IdsOf(lines) : id \in IdsOf(others)
    BY EntriesAre
  <2> QED BY <2>1, <2>2
<1>2. ASSUME NEW d \in EntriesIn(others) PROVE Branch(others, d.parent) = Branch(lines, d.parent)
  <2> DEFINE from == d.parent
  <2>1. from \in IdsOf(lines) \union {Null}
    BY DEF Tied
  <2> HIDE DEF from
  <2>2. \A i \in DOMAIN Branch(lines, from) : Branch(lines, from)[i] \in EntriesIn(others)
    BY TiedBranch
  <2>3. Branch(others, from) = Branch(lines, from)
    BY <2>1, <2>2, TiedSame
  <2> QED BY <2>3 DEF from
<1> QED BY <1>1, <1>2 DEF Tied

\* A session of the entries of a branch is tied: none of them refers to an entry off the branch.
LEMMA TiedFork ==
  ASSUME NEW n, NEW lines, Whole(lines, n), Tied(lines), NEW from, NEW m, NEW others, Whole(others, m),
         EntriesIn(others) = {Branch(lines, from)[i] : i \in DOMAIN Branch(lines, from)},
         others[1].parent = Null
  PROVE  Tied(others)
<1> DEFINE path == Branch(lines, from)
<1>1. /\ path \in Seq(Line) /\ Len(path) \in Nat /\ DOMAIN path = 1 .. Len(path)
      /\ \A i \in DOMAIN path : path[i] \in EntriesIn(lines) /\ path[i].id \in IdsOf(lines)
      /\ path # <<>> => path[1].parent = Null
      /\ \A i \in 2 .. Len(path) : path[i].parent = path[i - 1].id
  BY TiedBranch
<1>2. ASSUME NEW k \in DOMAIN path
      PROVE  \A i \in DOMAIN Branch(lines, path[k].id) :
               \E j \in DOMAIN path : Branch(lines, path[k].id)[i] = path[j]
  BY BranchBefore
<1>3. EntriesIn(others) = {path[i] : i \in DOMAIN path}
  OBVIOUS
<1> HIDE DEF path
<1>4. ASSUME NEW k \in DOMAIN path
      PROVE  path[k].parent = Null \/ (k - 1 \in DOMAIN path /\ path[k].parent = path[k - 1].id)
  <2>1. CASE k = 1
    <3>1. path # <<>>
      BY <1>1
    <3> QED BY <1>1, <2>1, <3>1
  <2>2. CASE k # 1
    <3>1. k \in 2 .. Len(path) /\ k - 1 \in DOMAIN path
      BY <1>1, <2>2
    <3> QED BY <1>1, <3>1
  <2> QED BY <2>1, <2>2
<1>5. ASSUME NEW k \in DOMAIN path PROVE path[k].parent \in IdsOf(others) \union {Null}
  <2>1. CASE k - 1 \in DOMAIN path /\ path[k].parent = path[k - 1].id
    <3>1. path[k - 1] \in EntriesIn(others)
      BY <1>3, <2>1
    <3>2. path[k - 1].id \in IdsOf(others)
      BY <3>1, EntriesAre
    <3> QED BY <2>1, <3>2
  <2> QED BY <1>4, <2>1
<1>6. ASSUME NEW k \in DOMAIN path
      PROVE  Branch(others, path[k].parent) = Branch(lines, path[k].parent)
  <2> DEFINE up == path[k].parent
  <2>1. up \in IdsOf(lines) \union {Null}
    BY <1>1 DEF Tied
  <2>2. \A i \in DOMAIN Branch(lines, up) : Branch(lines, up)[i] \in EntriesIn(others)
    <3>1. CASE up = Null
      <4>1. up \notin IdsOf(lines)
        BY <3>1 DEF IdsOf
      <4> HIDE DEF up
      <4>2. Branch(lines, up) = <<>>
        BY <4>1, BranchRooted
      <4> QED BY <4>2
    <3>2. CASE k - 1 \in DOMAIN path /\ up = path[k - 1].id
      <4>1. \A i \in DOMAIN Branch(lines, path[k - 1].id) :
              \E j \in DOMAIN path : Branch(lines, path[k - 1].id)[i] = path[j]
        BY <1>2, <3>2
      <4> HIDE DEF up
      <4>2. \A i \in DOMAIN Branch(lines, up) : \E j \in DOMAIN path : Branch(lines, up)[i] = path[j]
        BY <3>2, <4>1
      <4> QED BY <1>3, <4>2
    <3> QED BY <1>4, <3>1, <3>2
  <2> HIDE DEF up
  <2>3. Branch(others, up) = Branch(lines, up)
    BY <2>1, <2>2, TiedSame
  <2> QED BY <2>3 DEF up
<1>7. ASSUME NEW k \in DOMAIN path
      PROVE  /\ path[k].kind # "label"
             /\ path[k].kind = "compaction" => path[k].ref \in IdsOf(Branch(lines, path[k].parent))
  BY <1>1 DEF Tied
<1>8. ASSUME NEW d \in EntriesIn(others)
      PROVE  /\ d.kind # "label" /\ d.parent \in IdsOf(others) \union {Null}
             /\ d.kind = "compaction" => d.ref \in IdsOf(Branch(others, d.parent))
  <2>1. PICK k \in DOMAIN path : d = path[k]
    BY <1>3
  <2>2. Branch(others, path[k].parent) = Branch(lines, path[k].parent)
    BY <1>6
  <2> QED BY <1>5, <1>7, <2>1, <2>2
<1> QED BY <1>8 DEF Tied

\* A copy under another header has the same entries.
LEMMA CopyEntries ==
  ASSUME NEW n \in Nat \ {0}, NEW lines, Whole(lines, n), NEW f \in Files
  PROVE  LET copy == <<Header(f)>> \o EntriesOf(lines)
         IN  EntriesIn(copy) = EntriesIn(lines) /\ copy[1] = Header(f)
<1> DEFINE h == <<Header(f)>>
           K == LineKinds \ {"session"}
           r == OfKinds(lines, K)
           copy == h \o EntriesOf(lines)
<1>1. h \in Seq(Line) /\ Len(h) = 1 /\ DOMAIN h = 1 .. 1 /\ h[1] = Header(f)
  BY HeaderType
<1>2. lines \in Seq(Line) /\ lines[1].kind = "session" /\ 1 \in DOMAIN lines
      /\ \A i \in DOMAIN lines : i # 1 => lines[i].kind \in ReadableKinds \ {"session"}
  BY DEF Whole
<1>3. r \in Seq(Line)
  BY <1>2, KindsAre
<1>4. /\ \A j \in DOMAIN r : r[j].kind \in K /\ \E i \in DOMAIN lines : lines[i] = r[j]
      /\ \A i \in DOMAIN lines : lines[i].kind \in K => \E j \in DOMAIN r : r[j] = lines[i]
  <2>1. r = OfKinds(lines, K)
    OBVIOUS
  <2> HIDE DEF r, K
  <2> QED BY <1>2, <2>1, KindsMembers
<1>5. copy = h \o r
  BY DEF EntriesOf
<1>6. "session" \notin K /\ \A k \in ReadableKinds \ {"session"} : k \in K
  BY DEF ReadableKinds
<1> HIDE DEF h, K, r, copy
<1>7. /\ Len(r) \in Nat /\ DOMAIN r = 1 .. Len(r) /\ DOMAIN copy = 1 .. 1 + Len(r)
      /\ copy[1] = Header(f) /\ \A i \in 2 .. 1 + Len(r) : copy[i] = r[i - 1]
  <2> DEFINE c == h \o r
  <2>1. Len(r) \in Nat /\ DOMAIN r = 1 .. Len(r)
    BY <1>3, LenProperties
  <2>2. /\ c \in Seq(Line) /\ Len(c) = Len(h) + Len(r)
        /\ \A i \in 1 .. Len(h) + Len(r) : c[i] = IF i <= Len(h) THEN h[i] ELSE r[i - Len(h)]
    BY <1>1, <1>3, ConcatProperties
  <2>3. c = copy
    BY <1>5
  <2> HIDE DEF c
  <2>4. DOMAIN copy = 1 .. 1 + Len(r)
    BY <1>1, <2>2, <2>3, LenProperties
  <2> QED BY <1>1, <2>1, <2>2, <2>3, <2>4
<1>8. ASSUME NEW e \in EntriesIn(copy) PROVE e \in EntriesIn(lines)
  <2>1. PICK i \in DOMAIN copy \ {1} : e = copy[i]
    BY DEF EntriesIn
  <2>2. i - 1 \in DOMAIN r /\ e = r[i - 1]
    BY <1>7, <2>1
  <2>3. PICK j \in DOMAIN lines : lines[j] = e /\ e.kind \in K
    BY <1>4, <2>2
  <2>4. j # 1
    BY <1>2, <1>6, <2>3
  <2> QED BY <2>3, <2>4 DEF EntriesIn
<1>9. ASSUME NEW e \in EntriesIn(lines) PROVE e \in EntriesIn(copy)
  <2>1. PICK i \in DOMAIN lines \ {1} : e = lines[i]
    BY DEF EntriesIn
  <2>2. lines[i].kind \in K
    BY <1>2, <1>6, <2>1
  <2>3. PICK j \in DOMAIN r : r[j] = e
    BY <1>4, <2>1, <2>2
  <2>4. j + 1 \in 2 .. 1 + Len(r) /\ (j + 1) - 1 = j
    BY <1>7
  <2>5. copy[j + 1] = e /\ j + 1 \in DOMAIN copy /\ j + 1 # 1
    BY <1>7, <2>3, <2>4
  <2> QED BY <2>5 DEF EntriesIn
<1> QED BY <1>7, <1>8, <1>9 DEF h, copy

\* Without labels a fork is its header and the branch.
LEMMA PlainFork ==
  ASSUME NEW s, s.labels \in Bookmarked, \A i \in Ids : s.labels[i] = NoLabel, NEW path \in Seq(Line), NEW f \in Files,
         \A i \in DOMAIN path : path[i].kind # "label", nextId \in 1 .. MaxEntries + 1
  PROVE  LET lines == BranchedEntries(s, path, f)
         IN  /\ LabelTargets(s, path) = <<>>
             /\ DOMAIN lines = 1 .. 1 + Len(path) /\ lines[1] = Header(f)
             /\ \A i \in DOMAIN path : lines[1 + i] = path[i]
             /\ lines # <<>> /\ Len(lines) = 1 + Len(path)
<1>1. Len(path) \in Nat /\ DOMAIN path = 1 .. Len(path) /\ \A i \in DOMAIN path : path[i] \in Line
  BY LenProperties, ElementOfSeq
<1>2. WithoutLabels(path) = path
  <2>1. \A i \in DOMAIN path : path[i].kind \in LineKinds \ {"label"}
    BY <1>1 DEF Line
  <2> QED BY <2>1, KindsAllOrNone DEF WithoutLabels
<1>3. LabelTargets(s, path) = <<>> /\ Len(LabelTargets(s, path)) = 0
  <2> DEFINE t == LabelTargets(s, path)
  <2>1. DOMAIN t = 1 .. Len(t) /\ Len(t) \in Nat /\ t \in Seq(Ids)
        /\ \A k \in DOMAIN t : s.labels[t[k]] # NoLabel
    BY TargetsAre
  <2> HIDE DEF t
  <2>3. \A k \in DOMAIN t : FALSE
    BY <2>1, ElementOfSeq
  <2>4. Len(t) = 0
    BY <2>1, <2>3
  <2>5. t = <<>>
    BY <2>1, <2>4, EmptySeq
  <2> QED BY <2>4, <2>5 DEF t
<1> DEFINE lines == BranchedEntries(s, path, f)
<1>4. /\ lines \in Seq(Line) /\ DOMAIN lines = 1 .. 1 + Len(path) + 0
      /\ lines[1] = Header(f)
      /\ \A i \in 1 .. Len(path) : lines[1 + i] = path[i]
  <2>1. nextId + Len(LabelTargets(s, path)) - 1 <= MaxEntries
    BY <1>3, BoundsAre
  <2> QED BY <1>2, <1>3, <2>1, BranchedIs
<1> HIDE DEF lines
<1>5. DOMAIN lines = 1 .. 1 + Len(path) /\ 1 \in DOMAIN lines
  BY <1>1, <1>4
<1>6. lines # <<>> /\ Len(lines) = 1 + Len(path)
  <2>1. DOMAIN lines = 1 .. Len(lines) /\ Len(lines) \in Nat
    BY <1>4, LenProperties
  <2> QED BY <1>1, <1>5, <2>1
<1> QED BY <1>1, <1>3, <1>4, <1>5, <1>6 DEF lines

\* A tied session shows no labels: it records none.
LEMMA TiedLabels ==
  ASSUME NEW n, NEW s, Sound(s), Whole(s.fileEntries, n), Tied(s.fileEntries)
  PROVE  s.labels \in Bookmarked /\ \A i \in Ids : s.labels[i] = NoLabel
<1>1. s.fileEntries \in Seq(Line) /\ s.labels \in Bookmarked
  BY DEF Sound, Manager, Bookmarked
<1>2. \A k \in DOMAIN s.fileEntries : ~IsLabel(s.fileEntries[k])
  BY DEF Tied, Whole, EntriesIn, IsLabel
<1>3. ASSUME NEW i \in Ids PROVE LabelsIn(s.fileEntries)[i] = NoLabel
  BY <1>1, <1>2, LabelAfter
<1> QED BY <1>1, <1>3 DEF Sound

\* Such a fork is tied, and its last entry is the one it was made from, with the same branch.
LEMMA ForkTied ==
  ASSUME StoreInv, NEW s, Sound(s), Whole(s.fileEntries, nextId),
         Tied(s.fileEntries), NEW from, Branch(s.fileEntries, from) # <<>>, NEW f \in Files
  PROVE  LET path == Branch(s.fileEntries, from)
             lines == BranchedEntries(s, path, f)
         IN  /\ Tied(lines) /\ LastId(lines) = from /\ Branch(lines, from) = path
             /\ HasAssistant(path) => HasAssistant(lines)
<1> DEFINE path == Branch(s.fileEntries, from)
           lines == BranchedEntries(s, path, f)
<1>1. /\ path \in Seq(Line) /\ Len(path) \in Nat /\ DOMAIN path = 1 .. Len(path)
      /\ \A i \in DOMAIN path : path[i] \in EntriesIn(s.fileEntries) /\ path[i].id \in IdsOf(s.fileEntries)
      /\ path # <<>> => path[1].parent = Null /\ path[Len(path)].id = from /\ Len(path) \in DOMAIN path
  BY TiedBranch
<1>2. path # <<>> /\ \A i \in DOMAIN path : path[i].kind # "label"
  BY <1>1 DEF Tied
<1>3. nextId \in 1 .. MaxEntries + 1 /\ s.labels \in Bookmarked /\ \A i \in Ids : s.labels[i] = NoLabel
  BY TiedLabels, LeafType DEF StoreInv
<1>4. /\ LabelTargets(s, path) = <<>>
      /\ DOMAIN lines = 1 .. 1 + Len(path) /\ lines[1] = Header(f)
      /\ \A i \in DOMAIN path : lines[1 + i] = path[i]
      /\ Len(lines) = 1 + Len(path)
  <2> HIDE DEF path
  <2> QED BY <1>1, <1>2, <1>3, PlainFork
<1>5. Whole(lines, nextId + 0)
  <2>1. nextId + Len(LabelTargets(s, path)) - 1 <= MaxEntries
    BY <1>3, <1>4, BoundsAre
  <2>2. Whole(lines, nextId + Len(LabelTargets(s, path)))
    BY <1>3, <2>1, ForkIsWhole
  <2> QED BY <1>4, <2>2
<1>6. s.fileEntries = s.fileEntries /\ path = Branch(s.fileEntries, from)
  OBVIOUS
<1> HIDE DEF lines
<1>7. EntriesIn(lines) = {path[i] : i \in DOMAIN path}
  <2>1. ASSUME NEW e \in EntriesIn(lines) PROVE e \in {path[i] : i \in DOMAIN path}
    <3>1. PICK i \in DOMAIN lines \ {1} : e = lines[i]
      BY DEF EntriesIn
    <3>2. i - 1 \in DOMAIN path /\ 1 + (i - 1) = i
      BY <1>1, <1>4, <3>1
    <3>3. lines[1 + (i - 1)] = path[i - 1]
      BY <1>4, <3>2
    <3> QED BY <3>1, <3>2, <3>3
  <2>2. ASSUME NEW i \in DOMAIN path PROVE path[i] \in EntriesIn(lines)
    <3>1. 1 + i \in DOMAIN lines /\ 1 + i # 1 /\ lines[1 + i] = path[i]
      BY <1>1, <1>4
    <3> QED BY <3>1 DEF EntriesIn
  <2> QED BY <2>1, <2>2
<1>8. Header(f).parent = Null
  BY HeaderType DEF Header, Entry
<1>9. Tied(lines)
  BY <1>4, <1>5, <1>7, <1>8, TiedFork
<1>10. LastId(lines) = from
  BY <1>1, <1>2, <1>4 DEF LastId
<1>11. Branch(lines, from) = path
  <2>1. from \in IdsOf(s.fileEntries)
    BY <1>1, <1>2
  <2>2. \A i \in DOMAIN path : path[i] \in EntriesIn(lines)
    BY <1>7
  <2> QED BY <1>5, <2>1, <2>2, TiedSame
<1>12. HasAssistant(path) => HasAssistant(lines)
  <2> SUFFICES ASSUME NEW i \in DOMAIN path, path[i].kind = "assistant" PROVE HasAssistant(lines)
    BY DEF HasAssistant
  <2>1. 1 + i \in DOMAIN lines /\ lines[1 + i] = path[i]
    BY <1>1, <1>4
  <2> QED BY <2>1 DEF HasAssistant
<1> QED BY <1>9, <1>10, <1>11, <1>12 DEF lines

TiedDisk(d) == \A f \in Files : d[f] # Absent => Tied(d[f])

TiedInv == crashes = 0 /\ Tied(sm.fileEntries) /\ TiedDisk(disk)

\* What pushing an entry and saving does to the session, and to the disk of one in memory.
LEMMA SavedPush ==
  ASSUME StoreInv, NEW e, Save(Pushed(sm, e))
  PROVE  /\ sm'.fileEntries = Append(sm.fileEntries, e)
         /\ ~sm.persist => disk' = disk
<1>1. sm \in Manager
  BY LeafIs
<1>2. Pushed(sm, e).fileEntries = Append(sm.fileEntries, e) /\ Pushed(sm, e).persist = sm.persist
  BY <1>1 DEF Pushed, Manager
<1>3. sm' = Persisted(Pushed(sm, e)) /\ disk' = DiskAfter(Pushed(sm, e))
  BY DEF Save
<1> DEFINE s == Pushed(sm, e)
<1>4. s.fileEntries = Append(sm.fileEntries, e) /\ s.persist = sm.persist
  BY <1>2
<1>5. sm' = Persisted(s) /\ disk' = DiskAfter(s)
  BY <1>3
<1> HIDE DEF s
<1>6. sm'.fileEntries = s.fileEntries
  BY <1>5 DEF Persisted
<1>7. ~sm.persist => disk' = disk
  BY <1>4, <1>5 DEF DiskAfter, ToWrite
<1> QED BY <1>4, <1>6, <1>7

\* One lemma for each action: the session stays tied.
LEMMA SavePushedTied ==
  ASSUME StoreInv, Clean(sm, disk, nextId), Tied(sm.fileEntries),
         NEW e \in Line, e.id = nextId, e.parent < nextId, e.kind \in ReadableKinds \ {"session"},
         e.kind # "label", e.parent \in IdsOf(sm.fileEntries) \union {Null},
         e.kind = "compaction" => e.ref \in IdsOf(Branch(sm.fileEntries, e.parent)),
         Save(Pushed(sm, e))
  PROVE  Tied(sm'.fileEntries) /\ (~sm.persist => disk' = disk)
<1>1. nextId \in Nat
  BY BoundsAre DEF StoreInv
<1>2. Tied(Append(sm.fileEntries, e))
  BY <1>1, TiedAppend DEF Clean
<1> QED BY <1>2, SavedPush

\* An entry of any other kind refers only to the leaf.
LEMMA AppendEntryTied ==
  ASSUME StoreInv, Clean(sm, disk, nextId), Tied(sm.fileEntries), NEW kind \in Kinds,
         kind # "compaction", AppendEntry(kind)
  PROVE  Tied(sm'.fileEntries) /\ (~sm.persist => disk' = disk)
<1> DEFINE e == NewEntry(kind, Null, NoLabel)
<1>1. nextId <= MaxEntries /\ Save(Pushed(sm, e))
  BY DEF AppendEntry, Save
<1>2. e \in Line /\ e.id = nextId /\ e.parent < nextId /\ e.kind = kind
  BY <1>1, LeafIs, ReadableTypes, NextEntry DEF NewEntry
<1>3. kind # "label" /\ kind \in ReadableKinds \ {"session"}
  BY KindsTypes, ReadableTypes
<1>4. e.parent \in IdsOf(sm.fileEntries) \union {Null}
  BY LeafIs DEF NewEntry, Entry
<1> HIDE DEF e
<1> QED BY <1>1, <1>2, <1>3, <1>4, SavePushedTied

\* What a compaction keeps first is an entry of the branch it is appended to.
LEMMA AppendCompactionTied ==
  ASSUME StoreInv, Clean(sm, disk, nextId), Tied(sm.fileEntries), AppendCompaction
  PROVE  Tied(sm'.fileEntries) /\ (~sm.persist => disk' = disk)
<1> DEFINE path == Branch(sm.fileEntries, sm.leafId)
<1>1. /\ path \in Seq(Line) /\ Len(path) \in Nat /\ DOMAIN path = 1 .. Len(path)
      /\ \A i \in DOMAIN path : path[i] \in EntriesIn(sm.fileEntries)
  BY TiedBranch DEF Clean
<1>2. PICK i \in KeptFrom(path) : Save(Pushed(sm, NewEntry("compaction", path[i].id, NoLabel)))
  BY DEF AppendCompaction
<1>3. i \in DOMAIN path /\ nextId <= MaxEntries
  BY <1>2 DEF KeptFrom, Save
<1> HIDE DEF path
<1> DEFINE ref == path[i].id
           e == NewEntry("compaction", ref, NoLabel)
<1>4. ref \in Ids /\ ref \in IdsOf(path)
  <2>1. path[i] \in EntriesIn(sm.fileEntries)
    BY <1>1, <1>3
  <2>2. ref \in Ids /\ ref > 0
    BY <2>1, WholeIs DEF EntriesIn, Clean
  <2> QED BY <1>3, <2>2, BoundsAre DEF IdsOf
<1>5. Save(Pushed(sm, e))
  BY <1>2
<1> HIDE DEF ref
<1>6. /\ e \in Line /\ e.id = nextId /\ e.parent < nextId /\ e.kind = "compaction" /\ e.ref = ref
      /\ e.parent = sm.leafId /\ sm.leafId \in IdsOf(sm.fileEntries) \union {Null}
  <2>1. sm.leafId \in IdsOf(sm.fileEntries) \union {Null}
    BY LeafIs
  <2>2. sm.leafId < nextId /\ sm.leafId \in Ids \union {Null} /\ nextId \in Ids
    BY <1>3, <2>1, NextParent
  <2>3. "compaction" \in LineKinds /\ NoLabel \in Labellings
    BY ReadableTypes DEF LineKinds
  <2> QED BY <1>4, <2>1, <2>2, <2>3 DEF NewEntry, Entry, Line, Labellings
<1>7. "compaction" # "label" /\ "compaction" \in ReadableKinds \ {"session"}
  BY DEF ReadableKinds, LineKinds
<1> HIDE DEF e
<1>8. e.ref \in IdsOf(Branch(sm.fileEntries, e.parent))
  BY <1>4, <1>6 DEF path
<1> QED BY <1>5, <1>6, <1>7, <1>8, SavePushedTied

\* A summary refers only to the entry it is attached to.
LEMMA SummaryTied ==
  ASSUME StoreInv, Clean(sm, disk, nextId), Tied(sm.fileEntries),
         NEW id \in Ids \union {Null}, BranchWithSummary(id)
  PROVE  Tied(sm'.fileEntries) /\ (~sm.persist => disk' = disk)
<1> DEFINE e == Entry("branch_summary", nextId, id, Null, NoLabel)
<1>1. nextId <= MaxEntries /\ Save(Pushed(sm, e)) /\ id \in IdsOf(sm.fileEntries) \union {Null}
  BY DEF BranchWithSummary, Save
<1>2. e \in Line /\ e.id = nextId /\ e.parent < nextId /\ e.kind = "branch_summary" /\ e.parent = id
  <2>1. id < nextId /\ id \in Ids \union {Null} /\ nextId \in Ids
    BY <1>1, NextParent
  <2>2. "branch_summary" \in LineKinds /\ NoLabel \in Labellings /\ Null \in Ids \union Files \union {Null}
    BY ReadableTypes DEF LineKinds, PlainKinds
  <2> QED BY <2>1, <2>2 DEF Entry, Line, Labellings
<1>3. e.kind # "label" /\ e.kind # "compaction" /\ e.kind \in ReadableKinds \ {"session"}
  BY <1>2, ReadableTypes
<1> HIDE DEF e
<1> QED BY <1>1, <1>2, <1>3, SavePushedTied

\* A new session has no entries.
LEMMA FreshTied ==
  ASSUME NEW f \in Files, NEW persist
  PROVE  Tied(Fresh(f, persist).fileEntries)
<1> DEFINE h == <<Header(f)>>
<1>1. DOMAIN h = 1 .. 1 /\ h[1] = Header(f) /\ Header(f).parent = Null
  BY HeaderType DEF Header, Entry
<1>2. Fresh(f, persist).fileEntries = h
  BY DEF Fresh
<1> HIDE DEF h
<1> QED BY <1>1, <1>2 DEF Tied, EntriesIn

\* Opening a file of a clean and tied disk.
LEMMA OpenTied ==
  ASSUME NEW n \in Nat \ {0}, NEW d \in Disks, CleanDisk(d, n), TiedDisk(d), NEW f \in Files
  PROVE  Tied(OpenedManager(d, f).fileEntries)
BY OpenClean, FreshTied DEF TiedDisk

\* A copy has the entries of its file.
LEMMA ForkFromTied ==
  ASSUME StoreInv, Clean(sm, disk, nextId), TiedDisk(disk), NEW f \in Files, ForkFrom(f)
  PROVE  Tied(sm'.fileEntries)
<1> DEFINE lines == disk[f]
           copy == <<Header(nextFile)>> \o EntriesOf(lines)
           d == [disk EXCEPT ![nextFile] = copy]
<1>1. /\ nextFile <= MaxFiles /\ Loaded(disk[f]) # <<>>
      /\ sm' = OpenedManager([disk EXCEPT ![nextFile] = <<Header(nextFile)>> \o EntriesOf(Loaded(disk[f]))],
                             nextFile)
  BY Zenon DEF ForkFrom
<1>2. nextFile \in Files /\ nextId \in Nat \ {0} /\ disk \in Disks /\ CleanDisk(disk, nextId)
  BY <1>1, BoundsAre DEF StoreInv, Clean
<1>3. Whole(lines, nextId) /\ HasAssistant(lines) /\ Loaded(disk[f]) = lines /\ Tied(lines)
  <2>1. disk[f] # Absent
    BY <1>1 DEF Loaded, HasHeader
  <2> QED BY <1>2, <2>1, WholeLoaded DEF CleanDisk, TiedDisk
<1>4. sm' = OpenedManager(d, nextFile)
  BY <1>1, <1>3
<1> HIDE DEF lines
<1>5. Whole(copy, nextId) /\ HasAssistant(copy) /\ Tied(copy)
  <2>1. Whole(copy, nextId) /\ (HasAssistant(lines) => HasAssistant(copy))
    BY <1>2, <1>3, CopyIsWhole
  <2>2. EntriesIn(copy) = EntriesIn(lines) /\ copy[1] = Header(nextFile)
    BY <1>2, <1>3, CopyEntries
  <2>3. copy[1].parent = Null
    BY <2>2 DEF Header, Entry
  <2> HIDE DEF copy
  <2> QED BY <1>3, <2>1, <2>2, <2>3, TiedCopy
<1> HIDE DEF copy
<1>6. d \in Disks /\ CleanDisk(d, nextId) /\ TiedDisk(d)
  BY <1>2, <1>5, WholeLoaded DEF Disks, CleanDisk, TiedDisk
<1> HIDE DEF d
<1> QED BY <1>2, <1>4, <1>6, OpenTied

\* What a fork of a saved session leaves, from the file it was made from.
LEMMA ForkSavedIs ==
  ASSUME StoreInv, Clean(sm, disk, nextId), Tied(sm.fileEntries), TiedDisk(disk),
         NEW id \in Ids, ForkSaved(id)
  PROVE  LET source == OpenedManager(disk, sm.file)
             from == EntryOf(sm.fileEntries, id).parent
             path == Branch(source.fileEntries, from)
         IN  /\ Tied(sm'.fileEntries)
             /\ HasAssistant(path) => sm'.leafId = from /\ Branch(sm'.fileEntries, from) = path
<1> DEFINE source == OpenedManager(disk, sm.file)
           from == EntryOf(sm.fileEntries, id).parent
           path == Branch(source.fileEntries, from)
           lines == BranchedEntries(source, path, nextFile)
           d == BranchedDisk(disk, nextFile, lines)
<1>1. nextId \in Nat \ {0} /\ disk \in Disks /\ CleanDisk(disk, nextId) /\ sm.file \in Files
  BY LeafType, BoundsAre DEF StoreInv, Clean
<1>2. OpenedDisk(disk, sm.file) = disk /\ Clean(source, disk, nextId) /\ Sound(source)
  BY <1>1, OpenClean, OpenedType
<1>3. /\ nextFile <= MaxFiles /\ path # <<>>
      /\ sm' = OpenedManager(BranchedDisk(OpenedDisk(disk, sm.file), nextFile, lines), nextFile)
  BY Zenon DEF ForkSaved, ForkPoint
<1>4. sm' = OpenedManager(d, nextFile)
  BY <1>2, <1>3
<1>5. nextFile \in Files /\ disk[nextFile] = Absent
  BY <1>2, <1>3, LeafType, BoundsAre DEF StoreInv
<1>6. Tied(source.fileEntries)
  BY <1>1, OpenTied
<1>7. Whole(source.fileEntries, nextId)
  BY <1>2 DEF Clean
<1> HIDE DEF source, from
<1>8. Tied(lines) /\ LastId(lines) = from /\ Branch(lines, from) = path
      /\ (HasAssistant(path) => HasAssistant(lines))
  BY <1>2, <1>3, <1>5, <1>6, <1>7, ForkTied
<1>9. Whole(lines, nextId)
  <2>1. path \in Seq(Line) /\ \A i \in DOMAIN path : path[i].kind # "label"
    BY <1>6, <1>7, TiedBranch DEF Tied
  <2>2. nextId \in 1 .. MaxEntries + 1
    BY DEF StoreInv
  <2>3. source.labels \in Bookmarked /\ \A i \in Ids : source.labels[i] = NoLabel
    BY <1>2, <1>6, <1>7, TiedLabels
  <2>4. Len(LabelTargets(source, path)) = 0
    <3> HIDE DEF path
    <3>1. LabelTargets(source, path) = <<>>
      BY <1>5, <2>1, <2>2, <2>3, PlainFork
    <3> QED BY <3>1
  <2>5. Whole(lines, nextId + Len(LabelTargets(source, path)))
    <3>1. nextId + Len(LabelTargets(source, path)) - 1 <= MaxEntries
      BY <2>2, <2>4, BoundsAre
    <3> QED BY <1>5, <1>7, <2>3, <3>1, ForkIsWhole
  <2> HIDE DEF path, lines
  <2> QED BY <1>1, <2>4, <2>5
<1> HIDE DEF lines
<1>10. CASE HasAssistant(lines)
  <2>1. d = [disk EXCEPT ![nextFile] = lines]
    BY <1>10 DEF BranchedDisk
  <2>2. d[nextFile] = lines /\ lines # Absent /\ Loaded(lines) = lines /\ lines # <<>>
    BY <1>1, <1>5, <1>9, <2>1, WholeLoaded DEF Disks
  <2> HIDE DEF d
  <2>3. sm' = Indexed(nextFile, TRUE, lines, TRUE)
    BY <1>4, <2>2 DEF OpenedManager
  <2>4. sm'.fileEntries = lines /\ sm'.leafId = LastId(lines)
    BY <2>3 DEF Indexed
  <2> QED BY <1>8, <2>4 DEF source, from
<1>11. CASE ~HasAssistant(lines)
  <2>1. sm' = Fresh(nextFile, TRUE)
    BY <1>4, <1>5, <1>11 DEF BranchedDisk, OpenedManager
  <2> QED BY <1>5, <1>8, <1>11, <2>1, FreshTied DEF source, from
<1> QED BY <1>10, <1>11

\* What a fork in memory leaves.
LEMMA ForkInMemoryIs ==
  ASSUME StoreInv, Clean(sm, disk, nextId), Tied(sm.fileEntries),
         NEW id \in Ids, ForkInMemory(id)
  PROVE  LET from == EntryOf(sm.fileEntries, id).parent
         IN  /\ Tied(sm'.fileEntries) /\ disk' = disk
             /\ sm'.leafId = from /\ Branch(sm'.fileEntries, from) = Branch(sm.fileEntries, from)
<1> DEFINE from == EntryOf(sm.fileEntries, id).parent
           path == Branch(sm.fileEntries, from)
           lines == BranchedEntries(sm, path, nextFile)
<1>1. /\ nextFile <= MaxFiles /\ path # <<>>
      /\ sm' = Indexed(sm.file, FALSE, lines, sm.flushed) /\ disk' = disk
  BY Zenon DEF ForkInMemory, ForkPoint
<1>2. nextFile \in Files /\ Sound(sm) /\ Whole(sm.fileEntries, nextId)
  BY <1>1, LeafType, BoundsAre DEF StoreInv, Clean
<1> HIDE DEF from
<1>3. Tied(lines) /\ LastId(lines) = from /\ Branch(lines, from) = path
  BY <1>1, <1>2, ForkTied
<1> HIDE DEF lines
<1>4. sm'.fileEntries = lines /\ sm'.leafId = LastId(lines)
  BY <1>1 DEF Indexed
<1> QED BY <1>1, <1>3, <1>4 DEF from

\* No operation counts as a crash.
LEMMA OperateCrashes ==
  ASSUME Operate(Kinds)
  PROVE  crashes' = crashes
BY DEF Operate, AppendEntry, AppendCompaction, Save, BranchTo, MoveLeaf, ResetLeaf,
       BranchWithSummary, ForkSaved, ForkInMemory, ForkAtRoot, FreshSession, NewSession, Resume,
       ForkFrom

\* Every operation keeps the session tied, and what is on the disk.
LEMMA TiedStep ==
  ASSUME StoreInv, CleanInv, TiedInv, Operate(Kinds)
  PROVE  TiedInv'
<1> DEFINE Goal == Tied(sm'.fileEntries) /\ (~sm.persist => disk' = disk)
<1>1. crashes = 0 /\ crashes' = 0
  BY OperateCrashes DEF TiedInv
<1>2. Clean(sm, disk, nextId) /\ Tied(sm.fileEntries) /\ TiedDisk(disk)
  BY <1>1 DEF CleanInv, TiedInv
<1>3. nextId \in Nat \ {0} /\ disk \in Disks /\ CleanDisk(disk, nextId)
  BY <1>2, BoundsAre DEF StoreInv, Clean
<1>4. ASSUME NEW kind \in Kinds \ {"compaction", "branch_summary"}, AppendEntry(kind) PROVE Goal
  BY <1>2, <1>4, AppendEntryTied
<1>5. ASSUME AppendCompaction PROVE Goal
  BY <1>2, <1>5, AppendCompactionTied
<1>6. ASSUME NEW id \in Ids \union {Null}, BranchWithSummary(id) PROVE Goal
  BY <1>2, <1>6, SummaryTied
<1>7. ASSUME NEW id \in Ids \union {Null}, BranchTo(id) \/ ResetLeaf PROVE Goal
  <2>1. MoveLeaf(id) \/ MoveLeaf(Null)
    BY <1>7 DEF BranchTo, ResetLeaf
  <2>2. ASSUME NEW leaf, MoveLeaf(leaf) PROVE sm'.fileEntries = sm.fileEntries /\ disk' = disk
    BY <2>2 DEF MoveLeaf
  <2>3. sm'.fileEntries = sm.fileEntries /\ disk' = disk
    BY <2>1, <2>2
  <2> QED BY <1>2, <2>3
<1>8. ASSUME NEW id \in Ids, ForkSaved(id) PROVE Goal
  <2>1. sm.persist
    BY <1>8 DEF ForkSaved
  <2> QED BY <1>2, <1>8, <2>1, ForkSavedIs
<1>9. ASSUME NEW id \in Ids, ForkInMemory(id) PROVE Goal
  BY <1>2, <1>9, ForkInMemoryIs
<1>10. ASSUME NEW persist, FreshSession(persist) PROVE Goal
  <2>1. nextFile \in Files /\ sm' = Fresh(nextFile, persist) /\ disk' = disk
    BY <1>10, BoundsAre DEF FreshSession, StoreInv
  <2> QED BY <2>1, FreshTied
<1>11. ASSUME NEW f \in Files, Resume(f) PROVE Goal
  <2>1. sm' = OpenedManager(disk, f) /\ disk' = OpenedDisk(disk, f)
    BY <1>11 DEF Resume
  <2> QED BY <1>2, <1>3, <2>1, OpenClean, OpenTied
<1>12. ASSUME NEW f \in Files, ForkFrom(f) PROVE Goal
  <2>1. sm.persist
    BY <1>12 DEF ForkFrom
  <2> QED BY <1>2, <1>12, <2>1, ForkFromTied
<1>13. Goal
  <2> HIDE DEF Goal
  <2> QED BY <1>1, <1>4, <1>5, <1>6, <1>7, <1>8, <1>9, <1>10, <1>11, <1>12 DEF Operate, NewSession, ForkAtRoot
<1>14. CASE ~sm.persist
  BY <1>1, <1>2, <1>13, <1>14 DEF TiedInv
<1>15. CASE sm.persist
  <2>1. Logged
    BY <1>1, CleanStep DEF Next
  <2>2. \/ disk' = disk
        \/ sm'.file \in Files /\ disk' = [disk EXCEPT ![sm'.file] = sm'.fileEntries]
    <3>1. sm.file \in Files
      BY LeafType DEF StoreInv
    <3> QED BY <1>15, <2>1, <3>1 DEF Logged, Stays, Adds, Switches, Starts
  <2>3. TiedDisk(disk')
    BY <1>2, <1>3, <1>13, <2>2 DEF TiedDisk, Disks
  <2> QED BY <1>1, <1>13, <2>3 DEF TiedInv
<1> QED BY <1>14, <1>15

\* A step that changes nothing.
LEMMA StutterTied ==
  ASSUME TiedInv, UNCHANGED vars
  PROVE  TiedInv'
BY DEF TiedInv, TiedDisk, Tied, vars

\* The first session is tied.
LEMMA InitTied ==
  ASSUME Init
  PROVE  TiedInv
<1>1. crashes = 0 /\ 1 \in Files /\ \A f \in Files : disk[f] = Absent
  BY BoundsAre DEF Init
<1>2. PICK persist \in BOOLEAN : sm = Fresh(1, persist)
  BY PersistsAssumption DEF Init
<1> QED BY <1>1, <1>2, FreshTied DEF TiedInv, TiedDisk

\* What a tied session says of references.
LEMMA TiedSays ==
  ASSUME StoreInv, CleanInv, TiedInv
  PROVE  ParentsPresent /\ CompactionKeepsItsTail
<1>1. Whole(sm.fileEntries, nextId) /\ Tied(sm.fileEntries)
  BY DEF CleanInv, Clean, TiedInv
<1>2. ASSUME NEW i \in DOMAIN sm.fileEntries, i # 1
      PROVE  sm.fileEntries[i] \in EntriesIn(sm.fileEntries)
  BY <1>2 DEF EntriesIn
<1>3. sm.fileEntries[1].parent = Null /\ sm.fileEntries[1].kind = "session"
  BY <1>1 DEF Whole, Tied
<1>4. ParentsPresent
  BY <1>1, <1>2, <1>3 DEF Tied, ParentsPresent
<1>5. CompactionKeepsItsTail
  BY <1>1, <1>2, <1>3 DEF Tied, CompactionKeepsItsTail
<1> QED BY <1>4, <1>5

\* What holds of a session that no user has bookmarked and no crash has cut.
PlainInv == StoreInv /\ CleanInv /\ TiedInv

\* The first session is such a one.
LEMMA PlainInit ==
  ASSUME Init
  PROVE  PlainInv
BY InitStore, InitClean, InitTied DEF PlainInv

\* Every operation leaves such a one.
LEMMA PlainStep ==
  ASSUME PlainInv, [Operate(Kinds)]_vars
  PROVE  PlainInv'
<1>1. CASE Operate(Kinds)
  BY <1>1, StoreStep, CleanStep, TiedStep DEF PlainInv, Next
<1>2. CASE UNCHANGED vars
  BY <1>2, StutterStore, StutterClean, StutterTied DEF PlainInv
<1> QED BY <1>1, <1>2

\* ReferencesTheorem: without bookmarks and crashes every parent is in the session, and the first
\* entry a compaction keeps is on the branch it was appended to, through branches, forks, copies
\* and reloads: no fork leaves behind what an entry it keeps refers to.
THEOREM ReferencesTheorem ==
  Init /\ [][Operate(Kinds)]_vars => [](ParentsPresent /\ CompactionKeepsItsTail)
<1>1. Init => PlainInv
  BY PlainInit
<1>2. PlainInv /\ [Operate(Kinds)]_vars => PlainInv'
  BY PlainStep
<1>3. PlainInv => ParentsPresent /\ CompactionKeepsItsTail
  BY TiedSays DEF PlainInv
<1> QED BY <1>1, <1>2, <1>3, PTL

\* A fork of an answered branch starts from its context.
LEMMA ForkContextStep ==
  ASSUME StoreInv, Clean(sm, disk, nextId), Tied(sm.fileEntries), TiedDisk(disk),
         NEW id \in Ids, ForkSaved(id) \/ ForkInMemory(id) \/ ForkAtRoot(id),
         HasAssistant(Branch(sm.fileEntries, EntryOf(sm.fileEntries, id).parent))
  PROVE  ForkKeeps(id)
<1> DEFINE from == EntryOf(sm.fileEntries, id).parent
           path == Branch(sm.fileEntries, from)
<1>1. Whole(sm.fileEntries, nextId) /\ path # <<>>
  BY DEF Clean, HasAssistant
<1>2. ASSUME sm'.leafId = from, Branch(sm'.fileEntries, from) = path PROVE ForkKeeps(id)
  <2>1. Context(sm'.fileEntries, from) = Context(sm.fileEntries, from)
    BY <1>2, Zenon DEF Context
  <2> QED BY <1>2, <2>1 DEF ForkKeeps
<1>3. ASSUME ForkAtRoot(id) PROVE FALSE
  <2>1. from = Null
    BY <1>3 DEF ForkAtRoot
  <2>2. from \notin IdsOf(sm.fileEntries)
    BY <2>1 DEF IdsOf
  <2> HIDE DEF from
  <2> QED BY <1>1, <2>2, BranchRooted
<1>4. ASSUME ForkInMemory(id) PROVE ForkKeeps(id)
  <2>1. sm'.leafId = from /\ Branch(sm'.fileEntries, from) = path
    BY <1>4, ForkInMemoryIs
  <2> QED BY <1>2, <2>1
<1>5. ASSUME ForkSaved(id) PROVE ForkKeeps(id)
  <2>1. HasAssistant(sm.fileEntries) /\ sm.persist
    <3>1. \A i \in DOMAIN path : path[i] \in EntriesIn(sm.fileEntries)
      BY <1>1, TiedBranch
    <3>2. PICK i \in DOMAIN path : path[i].kind = "assistant"
      BY DEF HasAssistant
    <3>3. path[i] \in EntriesIn(sm.fileEntries)
      BY <3>1
    <3> HIDE DEF path
    <3> QED BY <1>5, <3>2, <3>3 DEF EntriesIn, HasAssistant, ForkSaved
  <2>2. OpenedManager(disk, sm.file).fileEntries = sm.fileEntries
    <3>1. disk[sm.file] = sm.fileEntries /\ sm.fileEntries # Absent
      BY <1>1, <2>1, WholeLoaded DEF Clean
    <3>2. nextId \in Nat \ {0} /\ disk \in Disks /\ CleanDisk(disk, nextId) /\ sm.file \in Files
      BY LeafType, BoundsAre DEF StoreInv, Clean
    <3> QED BY <3>1, <3>2, OpenClean
  <2> DEFINE source == OpenedManager(disk, sm.file)
             found == Branch(source.fileEntries, EntryOf(sm.fileEntries, id).parent)
  <2>3. HasAssistant(found) => sm'.leafId = from /\ Branch(sm'.fileEntries, from) = found
    BY <1>5, ForkSavedIs
  <2>4. found = path
    BY <2>2
  <2> QED BY <1>2, <2>3, <2>4
<1> QED BY <1>3, <1>4, <1>5

\* ForkContextTheorem: without bookmarks and crashes a fork of a branch that holds an answer starts
\* from the context that branch had, whether it was made in memory or from the file.
THEOREM ForkContextTheorem ==
  Init /\ [][Operate(Kinds)]_vars => AnsweredForkKeepsContext
<1>1. Init => PlainInv
  BY PlainInit
<1>2. PlainInv /\ [Operate(Kinds)]_vars => PlainInv'
  BY PlainStep
<1>3. PlainInv => AnsweredForkKeeps
  <2> SUFFICES ASSUME PlainInv, NEW id \in Ids,
                      ForkSaved(id) \/ ForkInMemory(id) \/ ForkAtRoot(id),
                      HasAssistant(Branch(sm.fileEntries, EntryOf(sm.fileEntries, id).parent))
               PROVE  ForkKeeps(id)
    BY DEF AnsweredForkKeeps
  <2> QED BY ForkContextStep DEF PlainInv, CleanInv, TiedInv
<1>4. PlainInv /\ [Operate(Kinds)]_vars => [AnsweredForkKeeps]_vars
  BY <1>3
<1> QED BY <1>1, <1>2, <1>4, PTL DEF AnsweredForkKeepsContext

----------------------------------------------------------------------------
(* The scenarios: what SessionManager proves of a store, for both kinds of session, and  *)
(* that a store without bookmarks and crashes implements ConversationLog. *)

\* A plain session is a saved one that nobody has bookmarked and no crash has cut.
ScenarioInv ==
  /\ scenario \in {"plain", "marked"}
  /\ StoreInv /\ CleanInv
  /\ scenario = "plain" => TiedInv /\ sm.persist

\* A step of a scenario is a step of the store; one of a plain session is an operation.
LEMMA ScenarioSteps ==
  ASSUME scenario \in {"plain", "marked"}, [ScenarioNext]_<<vars, scenario>>
  PROVE  /\ scenario' = scenario /\ [Next]_vars
         /\ scenario = "plain" => [Operate(Kinds)]_vars
<1>1. Operate(Chat) => Operate(Kinds)
  BY ChatAssumption DEF Operate
<1>2. Crash(Chat) => Crash(Kinds)
  BY ChatAssumption DEF Crash
<1> QED BY <1>1, <1>2 DEF ScenarioNext, Next, vars

\* Both kinds of session start like this.
LEMMA ScenarioStarts ==
  ASSUME ScenarioInit
  PROVE  ScenarioInv
BY InitStore, InitClean, InitTied DEF ScenarioInit, ScenarioInv

\* Every step keeps what holds of both kinds of session.
LEMMA ScenarioStep ==
  ASSUME ScenarioInv, [ScenarioNext]_<<vars, scenario>>
  PROVE  /\ ScenarioInv'
         /\ scenario = "plain" => (Operate(Kinds) /\ Logged) \/ UNCHANGED vars
<1>1. /\ scenario' = scenario /\ [Next]_vars
      /\ scenario = "plain" => [Operate(Kinds)]_vars
  BY ScenarioSteps DEF ScenarioInv
<1>2. StoreInv' /\ CleanInv'
  BY <1>1, StoreStep, StutterStore, CleanStep, StutterClean DEF ScenarioInv
<1>3. CASE scenario = "plain" /\ Operate(Kinds)
  <2>1. TiedInv'
    BY <1>3, TiedStep DEF ScenarioInv
  <2>2. Logged
    BY <1>3, <2>1, CleanStep DEF ScenarioInv, TiedInv, Next
  <2>3. sm'.persist
    BY <1>3, <2>2 DEF ScenarioInv, Logged
  <2> QED BY <1>1, <1>2, <1>3, <2>1, <2>2, <2>3 DEF ScenarioInv
<1>4. CASE scenario = "plain" /\ UNCHANGED vars
  <2>1. TiedInv'
    BY <1>4, StutterTied DEF ScenarioInv
  <2> QED BY <1>1, <1>2, <1>4, <2>1 DEF ScenarioInv, vars
<1>5. CASE scenario # "plain"
  BY <1>1, <1>2, <1>5 DEF ScenarioInv
<1> QED BY <1>1, <1>3, <1>4, <1>5

\* FileTheorem: a saved session with an answer is what its file holds, and no file of a session
\* without bookmarks and crashes holds an entry or a header twice.
THEOREM FileTheorem == ScenarioSpec => []FileIsMemory
<1>1. ScenarioInit => ScenarioInv
  BY ScenarioStarts
<1>2. ScenarioInv /\ [ScenarioNext]_<<vars, scenario>> => ScenarioInv'
  BY ScenarioStep
<1>3. ScenarioInv => FileIsMemory
  BY CleanSays DEF ScenarioInv, TiedInv, FileIsMemory
<1> QED BY <1>1, <1>2, <1>3, PTL DEF ScenarioSpec

\* ResolveTheorem: every parent, and the first entry a compaction has kept, is in the session.
THEOREM ResolveTheorem == ScenarioSpec => []ReferencesResolve
<1>1. ScenarioInit => ScenarioInv
  BY ScenarioStarts
<1>2. ScenarioInv /\ [ScenarioNext]_<<vars, scenario>> => ScenarioInv'
  BY ScenarioStep
<1>3. ScenarioInv => ReferencesResolve
  BY TiedSays DEF ScenarioInv, ReferencesResolve
<1> QED BY <1>1, <1>2, <1>3, PTL DEF ScenarioSpec

\* ContextTheorem: a fork of an answered branch starts from the context of that branch.
THEOREM ContextTheorem == ScenarioSpec => ForkKeepsContext
<1> DEFINE A == scenario = "plain" => AnsweredForkKeeps
<1>1. ScenarioInit => ScenarioInv
  BY ScenarioStarts
<1>2. ScenarioInv /\ [ScenarioNext]_<<vars, scenario>> => ScenarioInv'
  BY ScenarioStep
<1>3. ScenarioInv => A
  <2> SUFFICES ASSUME ScenarioInv, scenario = "plain", NEW id \in Ids,
                      ForkSaved(id) \/ ForkInMemory(id) \/ ForkAtRoot(id),
                      HasAssistant(Branch(sm.fileEntries, EntryOf(sm.fileEntries, id).parent))
               PROVE  ForkKeeps(id)
    BY DEF AnsweredForkKeeps
  <2> QED BY ForkContextStep DEF ScenarioInv, CleanInv, TiedInv
<1>4. ScenarioInv /\ [ScenarioNext]_<<vars, scenario>> => [A]_vars
  BY <1>3
<1>5. ForkKeepsContext <=> [][A]_vars
  BY DEF ForkKeepsContext
<1> HIDE DEF A
<1> QED BY <1>1, <1>2, <1>4, <1>5, PTL DEF ScenarioSpec

----------------------------------------------------------------------------
(* A plain session store is a conversation log *)

\* What a restart would find of a clean disk.
DurableOf(d) == [f \in Files |-> IF HasHeader(d[f]) THEN Tail(Loaded(d[f])) ELSE <<>>]

\* It is what comes after the header of each file there is.
LEMMA DurableIs ==
  ASSUME NEW n, NEW d, CleanDisk(d, n)
  PROVE  DurableOf(d) = [f \in Files |-> IF d[f] = Absent THEN <<>> ELSE Tail(d[f])]
<1> SUFFICES ASSUME NEW f \in Files
             PROVE  (IF HasHeader(d[f]) THEN Tail(Loaded(d[f])) ELSE <<>>)
                      = (IF d[f] = Absent THEN <<>> ELSE Tail(d[f]))
  BY DEF DurableOf
<1>1. CASE d[f] = Absent
  BY <1>1 DEF HasHeader
<1>2. CASE d[f] # Absent
  <2>1. Loaded(d[f]) = d[f] /\ d[f] # <<>>
    BY <1>2, WholeLoaded DEF CleanDisk
  <2>2. HasHeader(d[f])
    BY <2>1 DEF Loaded
  <2> QED BY <1>2, <2>1, <2>2
<1> QED BY <1>1, <1>2

\* The entries of a session are its lines after the header.
LEMMA TailIs ==
  ASSUME NEW n, NEW lines, Whole(lines, n)
  PROVE  /\ Tail(lines) \in Seq(Line) /\ Len(lines) \in Nat \ {0}
         /\ Len(Tail(lines)) = Len(lines) - 1
         /\ \A i \in 1 .. Len(lines) - 1 : Tail(lines)[i] = lines[i + 1]
         /\ HasAssistant(Tail(lines)) <=> HasAssistant(lines)
<1>1. lines \in Seq(Line) /\ Len(lines) \in Nat \ {0} /\ DOMAIN lines = 1 .. Len(lines) /\ lines # <<>>
  BY WholeIs, WholeLoaded DEF Whole
<1> DEFINE t == Tail(lines)
<1>2. /\ t \in Seq(Line) /\ Len(t) = Len(lines) - 1
      /\ \A i \in 1 .. Len(t) : t[i] = lines[i + 1]
  BY <1>1, HeadTailProperties
<1> HIDE DEF t
<1>3. DOMAIN t = 1 .. Len(lines) - 1
  BY <1>2, LenProperties
<1>4. lines[1].kind # "assistant"
  BY DEF Whole
<1>5. HasAssistant(t) => HasAssistant(lines)
  <2>1. \A i \in DOMAIN t : i + 1 \in DOMAIN lines /\ t[i] = lines[i + 1]
    BY <1>1, <1>2, <1>3
  <2> QED BY <2>1 DEF HasAssistant
<1>6. HasAssistant(lines) => HasAssistant(t)
  <2> SUFFICES ASSUME NEW i \in DOMAIN lines, lines[i].kind = "assistant" PROVE HasAssistant(t)
    BY DEF HasAssistant
  <2>1. i # 1
    BY <1>4
  <2>2. i - 1 \in DOMAIN t /\ t[i - 1] = lines[i]
    BY <1>1, <1>2, <1>3, <2>1
  <2> QED BY <2>2 DEF HasAssistant
<1> QED BY <1>1, <1>2, <1>5, <1>6 DEF t

\* One more line is one more entry.
LEMMA FrontIs ==
  ASSUME NEW n, NEW lines, Whole(lines, n), NEW m, NEW e, Whole(Append(lines, e), m)
  PROVE  Tail(Append(lines, e)) # <<>> /\ Tail(lines) = Front(Tail(Append(lines, e)))
<1> DEFINE u == Append(lines, e)
           t == Tail(lines)
           v == Tail(u)
<1>1. lines \in Seq(Line)
  BY DEF Whole
<1>2. Len(u) = Len(lines) + 1 /\ \A i \in 1 .. Len(lines) : u[i] = lines[i]
  <2>1. lines \in Seq(Line \union {e})
    BY <1>1, SeqMonotonic
  <2> QED BY <2>1, AppendProperties
<1>3. Whole(u, m)
  OBVIOUS
<1> HIDE DEF u
<1>4. /\ t \in Seq(Line) /\ Len(lines) \in Nat \ {0} /\ Len(t) = Len(lines) - 1
      /\ \A i \in 1 .. Len(lines) - 1 : t[i] = lines[i + 1]
  BY TailIs
<1>5. /\ v \in Seq(Line) /\ Len(v) = Len(lines)
      /\ \A i \in 1 .. Len(lines) : v[i] = u[i + 1]
  <2>1. /\ v \in Seq(Line) /\ Len(v) = Len(u) - 1
        /\ \A i \in 1 .. Len(u) - 1 : v[i] = u[i + 1]
    BY <1>3, TailIs
  <2> QED BY <1>2, <1>4, <2>1
<1> HIDE DEF t, v
<1>6. v # <<>>
  BY <1>4, <1>5
<1> DEFINE w == SubSeq(v, 1, Len(v) - 1)
<1>7. /\ w \in Seq(Line) /\ Len(w) = Len(lines) - 1
      /\ \A i \in 1 .. Len(lines) - 1 : w[i] = v[i]
  <2>1. 1 \in 1 .. Len(v) + 1 /\ Len(v) - 1 \in 0 .. Len(v) /\ (Len(v) - 1) - 1 + 1 = Len(lines) - 1
    BY <1>4, <1>5
  <2> QED BY <1>4, <1>5, <2>1, SubSeqProperties
<1> HIDE DEF w
<1>8. \A i \in 1 .. Len(lines) - 1 : t[i] = w[i]
  <2>1. \A i \in 1 .. Len(lines) - 1 : i \in 1 .. Len(lines) /\ i + 1 \in 1 .. Len(lines)
    BY <1>4
  <2> QED BY <1>2, <1>4, <1>5, <1>7, <2>1
<1>9. t = w
  BY <1>4, <1>7, <1>8, SeqEqual
<1> QED BY <1>6, <1>9 DEF Front, w, t, v, u

\* What each kind of step of a plain session does to the log.
LEMMA LogStep ==
  ASSUME ScenarioInv, ScenarioInv', scenario = "plain", scenario' = "plain", Logged,
         NEW F, F = DurableOf(disk), NEW G, G = DurableOf(disk'),
         NEW live, live = Tail(sm.fileEntries), NEW next, next = Tail(sm'.fileEntries)
  PROVE  \/ sm'.file = sm.file /\ next = live /\ G = F
         \/ /\ sm'.file = sm.file /\ next # <<>> /\ live = Front(next)
            /\ G = IF HasAssistant(next) THEN [F EXCEPT ![sm.file] = next] ELSE F
         \/ sm'.file \in Files /\ next = F[sm'.file] /\ G = F
         \/ /\ sm'.file \in Files /\ HasAssistant(next) /\ F[sm'.file] = <<>>
            /\ G = [F EXCEPT ![sm'.file] = next]
<1>1. /\ Clean(sm, disk, nextId) /\ Clean(sm', disk', nextId') /\ sm.persist
      /\ disk \in Disks /\ disk' \in Disks /\ sm.file \in Files
  BY LeafType DEF ScenarioInv, TiedInv, CleanInv, StoreInv
<1>2. /\ F = [f \in Files |-> IF disk[f] = Absent THEN <<>> ELSE Tail(disk[f])]
      /\ G = [f \in Files |-> IF disk'[f] = Absent THEN <<>> ELSE Tail(disk'[f])]
  BY <1>1, DurableIs DEF Clean
<1>3. HasAssistant(next) <=> HasAssistant(sm'.fileEntries)
  BY <1>1, TailIs DEF Clean
<1>4. sm'.fileEntries # Absent
  BY <1>1, WholeLoaded DEF Clean
<1>5. ASSUME NEW f \in Files, disk' = [disk EXCEPT ![f] = sm'.fileEntries]
      PROVE  G = [F EXCEPT ![f] = next]
  BY <1>1, <1>2, <1>4, <1>5 DEF Disks
<1>6. CASE Stays
  BY <1>6 DEF Stays
<1>7. CASE Adds
  <2>1. PICK e : sm'.fileEntries = Append(sm.fileEntries, e)
    BY <1>7 DEF Adds
  <2>2. next # <<>> /\ live = Front(next)
    <3>1. Whole(Append(sm.fileEntries, e), nextId') /\ Whole(sm.fileEntries, nextId)
      BY <1>1, <2>1 DEF Clean
    <3>2. /\ Tail(Append(sm.fileEntries, e)) # <<>>
          /\ Tail(sm.fileEntries) = Front(Tail(Append(sm.fileEntries, e)))
      BY <3>1, FrontIs
    <3> QED BY <2>1, <3>2
  <2>3. CASE HasAssistant(next)
    <3>1. disk' = [disk EXCEPT ![sm.file] = sm'.fileEntries]
      BY <1>3, <1>7, <2>3 DEF Adds
    <3> QED BY <1>1, <1>5, <1>7, <2>2, <2>3, <3>1 DEF Adds
  <2>4. CASE ~HasAssistant(next)
    <3>1. disk' = disk
      BY <1>3, <1>7, <2>4 DEF Adds
    <3> QED BY <1>7, <2>2, <2>4, <3>1 DEF Adds
  <2> QED BY <2>3, <2>4
<1>8. CASE Switches
  <2>1. sm'.file \in Files /\ disk' = disk
    BY <1>8 DEF Switches
  <2>2. next = F[sm'.file]
    <3>1. CASE disk[sm'.file] = Absent
      <4>1. sm'.fileEntries = <<Header(sm'.file)>>
        BY <1>8, <3>1 DEF Switches
      <4>2. next = <<>>
        BY <4>1
      <4> QED BY <1>2, <2>1, <3>1, <4>2
    <3>2. CASE disk[sm'.file] # Absent
      BY <1>2, <1>8, <2>1, <3>2 DEF Switches
    <3> QED BY <3>1, <3>2
  <2> QED BY <2>1, <2>2
<1>9. CASE Starts
  <2>1. sm'.file \in Files /\ disk[sm'.file] = Absent /\ HasAssistant(next)
        /\ disk' = [disk EXCEPT ![sm'.file] = sm'.fileEntries]
    BY <1>3, <1>9 DEF Starts
  <2>2. F[sm'.file] = <<>>
    BY <1>2, <2>1
  <2> QED BY <1>5, <2>1, <2>2
<1> QED BY <1>1, <1>6, <1>7, <1>8, <1>9 DEF Logged

\* LogTheorem: a session store without bookmarks and crashes implements ConversationLog: from the
\* first answer on every entry is durable when it is added, and switching back brings all of it
\* back. Appends are its Add, resumed and new sessions its Switch, answered forks its Start.
THEOREM LogTheorem == ScenarioSpec => LogSpec
<1>1. ScenarioInit => ScenarioInv
  BY ScenarioStarts
<1>2. ScenarioInv /\ [ScenarioNext]_<<vars, scenario>> => ScenarioInv'
  BY ScenarioStep
<1>3. ScenarioInit => Store!Init
  <2> SUFFICES ASSUME ScenarioInit PROVE Store!Init
    OBVIOUS
  <2>1. ScenarioInv
    BY ScenarioStarts
  <2>2. 1 \in Files /\ \A f \in Files : ~HasHeader(disk[f])
    BY BoundsAre DEF ScenarioInit, Init, HasHeader
  <2>3. sm.file = 1 /\ sm.fileEntries = <<Header(1)>>
    BY DEF ScenarioInit, Init, Fresh
  <2>4. Tail(sm.fileEntries) = <<>>
    BY <2>3
  <2> QED BY <2>2, <2>3, <2>4 DEF Store!Init
<1>4. ASSUME ScenarioInv, [ScenarioNext]_<<vars, scenario>>
      PROVE  [Store!Next]_(Store!vars)
  <2>1. ScenarioInv' /\ scenario' = scenario
    BY <1>4, ScenarioStep, ScenarioSteps DEF ScenarioInv
  <2>2. CASE scenario # "plain"
    BY <2>1, <2>2 DEF Store!vars
  <2>3. CASE UNCHANGED vars
    BY <2>1, <2>3 DEF vars, Store!vars
  <2>4. CASE scenario = "plain" /\ Logged
    <3> DEFINE F == DurableOf(disk)
               G == DurableOf(disk')
               live == Tail(sm.fileEntries)
               next == Tail(sm'.fileEntries)
    <3>1. \/ sm'.file = sm.file /\ next = live /\ G = F
          \/ /\ sm'.file = sm.file /\ next # <<>> /\ live = Front(next)
             /\ G = IF HasAssistant(next) THEN [F EXCEPT ![sm.file] = next] ELSE F
          \/ sm'.file \in Files /\ next = F[sm'.file] /\ G = F
          \/ /\ sm'.file \in Files /\ HasAssistant(next) /\ F[sm'.file] = <<>>
             /\ G = [F EXCEPT ![sm'.file] = next]
      BY <1>4, <2>1, <2>4, LogStep
    <3>2. /\ F = [f \in Files |-> IF scenario = "plain" /\ HasHeader(disk[f])
                                 THEN Tail(Loaded(disk[f])) ELSE <<>>]
          /\ G = [f \in Files |-> IF scenario' = "plain" /\ HasHeader(disk'[f])
                                 THEN Tail(Loaded(disk'[f])) ELSE <<>>]
      BY <2>1, <2>4 DEF DurableOf
    <3>3. (\E i \in DOMAIN next : IsAssistant(next[i])) <=> HasAssistant(next)
      BY DEF HasAssistant, IsAssistant
    <3> HIDE DEF F, G, live, next
    <3> QED BY <2>1, <2>4, <3>1, <3>2, <3>3
         DEF Store!Next, Store!Add, Store!Switch, Store!Start, Store!Answered, Store!vars,
             Store!Front, Front, live, next
  <2> QED BY <1>4, <2>2, <2>3, <2>4, ScenarioStep DEF ScenarioInv
<1> QED BY <1>1, <1>2, <1>3, <1>4, PTL DEF ScenarioSpec, LogSpec, Store!Spec
=============================================================================
