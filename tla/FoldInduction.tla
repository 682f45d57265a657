---------------------------- MODULE FoldInduction ----------------------------
(***************************************************************************)
(* What FoldLeft computes, for sequences of any length.  The operation is  *)
(* a constant of this module, so that an instance of it has the theorem    *)
(* for the operation of a fold in the models.  Then what a recursive       *)
(* function computes, with FlattenSeq as the first example.                *)
(***************************************************************************)
EXTENDS Integers, SequencesExt, SequenceTheorems, NaturalsInduction, WellFoundedInduction,
        TLAPS

CONSTANT op(_, _)

LEMMA LeastNatural ==
  ASSUME NEW T \in SUBSET Nat, T # {}
  PROVE  \E n \in T : \A m \in T : n <= m
  <1>1. PICK n \in T : \A m \in T : ~(<<m, n>> \in OpToRel(<, Nat))
    BY NatLessThanWellFounded, WFMin
  <1>2. \A m \in T : ~(m < n)
    BY <1>1 DEF OpToRel
  <1>3. QED
    BY <1>2

\* Induction over the numbers up to n, for a set of them.
LEMMA UpTo ==
  ASSUME NEW n \in Nat, NEW T, 0 \in T, \A k \in 0 .. n - 1 : k \in T => k + 1 \in T
  PROVE  \A k \in 0 .. n : k \in T
  <1> DEFINE out == {k \in 0 .. n : k \notin T}
  <1>1. CASE out # {}
    <2>1. out \in SUBSET Nat
      OBVIOUS
    <2>2. PICK k \in out : \A m \in out : k <= m
      <3> HIDE DEF out
      <3>1. QED
        BY <1>1, <2>1, LeastNatural
    <2>3. k \in 1 .. n /\ k \notin T
      OBVIOUS
    <2>4. k - 1 \in 0 .. n - 1 /\ k - 1 \in T
      BY <2>2, <2>3
    <2>5. QED
      BY <2>3, <2>4
  <1>2. QED
    BY <1>1

-----------------------------------------------------------------------------
(* FoldLeft is defined over the sets of indices, from the largest down.     *)

LEMMA MaxOfIndices ==
  ASSUME NEW k \in Nat, NEW s \in SUBSET (1 .. k + 1), k + 1 \in s
  PROVE  Max(s) = k + 1
  <1>1. \A x \in s : (\A y \in s : x >= y) <=> x = k + 1
    OBVIOUS
  <1>2. QED
    BY <1>1 DEF Max

Iterates(seq, base, S, g) ==
  g = [s \in SUBSET S |-> IF s = {} THEN base ELSE op(g[s \ {Max(s)}], seq[Max(s)])]

LEMMA FoldIterates ==
  ASSUME NEW seq, NEW base
  PROVE  FoldLeft(op, base, seq) = (CHOOSE g : Iterates(seq, base, DOMAIN seq, g))[DOMAIN seq]
  BY DEF FoldLeft, MapThenFoldSet, Iterates

LEMMA IterationExists ==
  ASSUME NEW seq, NEW base, NEW n \in Nat
  PROVE  \E g : Iterates(seq, base, 1 .. n, g)
  <1> DEFINE T == {k \in 0 .. n : \E g : Iterates(seq, base, 1 .. k, g)}
  <1>1. 0 \in T
    <2>1. Iterates(seq, base, 1 .. 0, [s \in SUBSET (1 .. 0) |-> base])
      BY DEF Iterates
    <2>2. QED
      BY <2>1
  <1>2. ASSUME NEW k \in 0 .. n - 1, k \in T PROVE k + 1 \in T
    <2>1. PICK g : Iterates(seq, base, 1 .. k, g)
      BY <1>2
    <2> DEFINE h == [s \in SUBSET (1 .. k + 1) |->
                       IF k + 1 \in s THEN op(g[s \ {k + 1}], seq[k + 1]) ELSE g[s]]
    <2>2. ASSUME NEW s \in SUBSET (1 .. k + 1)
          PROVE  h[s] = IF s = {} THEN base ELSE op(h[s \ {Max(s)}], seq[Max(s)])
      <3>1. CASE k + 1 \in s
        <4>1. s \ {k + 1} \in SUBSET (1 .. k) /\ s \ {k + 1} \in SUBSET (1 .. k + 1)
          OBVIOUS
        <4>2. h[s \ {k + 1}] = g[s \ {k + 1}]
          BY <4>1
        <4>3. Max(s) = k + 1 /\ s # {}
          BY <3>1, MaxOfIndices
        <4>4. h[s] = op(g[s \ {k + 1}], seq[k + 1])
          BY <3>1
        <4>5. QED
          BY <4>2, <4>3, <4>4
      <3>2. CASE k + 1 \notin s
        <4>1. s \in SUBSET (1 .. k)
          BY <3>2
        <4>2. g[s] = IF s = {} THEN base ELSE op(g[s \ {Max(s)}], seq[Max(s)])
          BY <2>1, <4>1 DEF Iterates
        <4>3. h[s] = g[s] /\ h[s \ {Max(s)}] = g[s \ {Max(s)}]
          BY <3>2, <4>1
        <4>4. QED
          BY <4>2, <4>3
      <3>3. QED
        BY <3>1, <3>2
    <2> HIDE DEF h
    <2>3. Iterates(seq, base, 1 .. k + 1, h)
      BY <2>2 DEF Iterates, h
    <2>4. QED
      BY <2>3
  <1> HIDE DEF T
  <1>3. n \in T
    BY <1>1, <1>2, UpTo
  <1>4. QED
    BY <1>3 DEF T

\* The values of the fold of a sequence of length n, from the base on.
Steps(f, seq, base, n) ==
  /\ f[0] = base
  /\ \A k \in 0 .. n - 1 : f[k + 1] = op(f[k], seq[k + 1])

(***************************************************************************)
(* FoldLeft applies the operation to one element after the other.          *)
(***************************************************************************)
LEMMA FoldLeftSteps ==
  ASSUME NEW seq, NEW base, NEW n \in Nat, DOMAIN seq = 1 .. n
  PROVE  \E f : Steps(f, seq, base, n) /\ FoldLeft(op, base, seq) = f[n]
  <1> DEFINE g == CHOOSE g : Iterates(seq, base, 1 .. n, g)
  <1>1. Iterates(seq, base, 1 .. n, g)
    BY IterationExists
  <1>2. FoldLeft(op, base, seq) = g[1 .. n]
    BY FoldIterates
  <1> HIDE DEF g
  <1>3. g[1 .. 0] = base
    BY <1>1 DEF Iterates
  <1>4. ASSUME NEW k \in 0 .. n - 1
        PROVE  g[1 .. k + 1] = op(g[1 .. k], seq[k + 1])
    <2>1. k + 1 \in 1 .. k + 1 /\ (1 .. k + 1) \ {k + 1} = 1 .. k
      OBVIOUS
    <2>2. 1 .. k + 1 \in SUBSET (1 .. n)
      OBVIOUS
    <2>3. Max(1 .. k + 1) = k + 1
      BY MaxOfIndices
    <2>4. QED
      BY <1>1, <2>1, <2>2, <2>3 DEF Iterates
  <1> DEFINE f == [k \in 0 .. n |-> g[1 .. k]]
  <1>5. f[0] = base /\ f[n] = g[1 .. n]
    BY <1>3
  <1>6. \A k \in 0 .. n - 1 : f[k + 1] = op(f[k], seq[k + 1])
    BY <1>4
  <1>7. QED
    BY <1>2, <1>5, <1>6 DEF Steps

-----------------------------------------------------------------------------
(* Recursive functions.                                                     *)

\* The body D of a recursive function over S, with values in T, uses the
\* function only for arguments of a smaller measure.
WellFounded(D, S, T, m) ==
  /\ D \in [[S -> T] -> [S -> T]] /\ m \in [S -> Nat] /\ T # {}
  /\ \A f, g \in [S -> T], x \in S :
       (\A y \in S : m[y] < m[x] => f[y] = g[y]) => D[f][x] = D[g][x]

\* f has the right values where the measure is below n.
RightBelow(f, n, D, S, T, m) == f \in [S -> T] /\ \A x \in S : m[x] < n => f[x] = D[f][x]

LEMMA RightAgree ==
  ASSUME NEW S, NEW T, NEW m, NEW D, WellFounded(D, S, T, m),
         NEW n \in Nat, NEW f, RightBelow(f, n, D, S, T, m),
         NEW k \in Nat, NEW g, RightBelow(g, k, D, S, T, m)
  PROVE  \A x \in S : m[x] < n /\ m[x] < k => f[x] = g[x]
  <1> DEFINE bad == {x \in S : m[x] < n /\ m[x] < k /\ f[x] # g[x]}
             M == {m[x] : x \in bad}
  <1>1. CASE bad # {}
    <2>1. M \in SUBSET Nat /\ M # {}
      BY <1>1 DEF WellFounded
    <2>2. PICK b \in M : \A c \in M : b <= c
      <3> HIDE DEF M
      <3>1. QED
        BY <2>1, LeastNatural
    <2>3. PICK x \in bad : b = m[x]
      BY <2>2
    <2>4. \A y \in S : m[x] \in Nat /\ m[y] \in Nat
      BY <2>3 DEF WellFounded
    <2>5. ASSUME NEW y \in S, m[y] < m[x] PROVE f[y] = g[y]
      <3>1. m[y] < n /\ m[y] < k
        BY <2>3, <2>4, <2>5
      <3>2. y \notin bad
        BY <2>2, <2>3, <2>4, <2>5
      <3>3. QED
        BY <3>1, <3>2
    <2>6. D[f][x] = D[g][x]
      BY <2>3, <2>5 DEF WellFounded, RightBelow
    <2>7. QED
      BY <2>3, <2>6 DEF RightBelow
  <1>2. QED
    BY <1>1

Satisfies(f, D, S, T) == f \in [S -> T] /\ f = D[f]

(***************************************************************************)
(* Such a body has a function that satisfies the recursive definition.     *)
(***************************************************************************)
LEMMA FixedPoint ==
  ASSUME NEW S, NEW T, NEW m, NEW D, WellFounded(D, S, T, m)
  PROVE  \E f : Satisfies(f, D, S, T)
  <1> DEFINE N == {n \in Nat : \E f : RightBelow(f, n, D, S, T, m)}
  <1>1. 0 \in N
    <2>1. PICK t \in T : TRUE
      BY DEF WellFounded
    <2>2. RightBelow([x \in S |-> t], 0, D, S, T, m)
      BY <2>1 DEF RightBelow, WellFounded
    <2>3. QED
      BY <2>2
  <1>2. ASSUME NEW n \in Nat, n \in N PROVE n + 1 \in N
    <2>1. PICK f : RightBelow(f, n, D, S, T, m)
      BY <1>2
    <2>2. PICK g : g = D[f]
      OBVIOUS
    <2>3. g \in [S -> T]
      BY <2>1, <2>2 DEF RightBelow, WellFounded
    <2>4. ASSUME NEW x \in S, m[x] < n + 1 PROVE g[x] = D[g][x]
      <3>1. \A y \in S : m[x] \in Nat /\ m[y] \in Nat
        BY DEF WellFounded
      <3>2. \A y \in S : m[y] < m[x] => f[y] = g[y]
        BY <2>1, <2>2, <2>4, <3>1 DEF RightBelow
      <3>3. D[f][x] = D[g][x]
        BY <2>1, <2>3, <3>2 DEF RightBelow, WellFounded
      <3>4. QED
        BY <2>2, <3>3
    <2>5. RightBelow(g, n + 1, D, S, T, m)
      BY <2>3, <2>4 DEF RightBelow
    <2>6. QED
      BY <2>5
  <1>3. \A n \in Nat : n \in N
    <2> HIDE DEF N
    <2>1. ASSUME NEW n \in Nat PROVE n \in N
      <3>1. \A k \in 0 .. n - 1 : k \in N => k + 1 \in N
        BY <1>2
      <3>2. QED
        BY <1>1, <3>1, UpTo
    <2>2. QED
      BY <2>1
  <1> DEFINE F == [n \in Nat |-> CHOOSE f : RightBelow(f, n, D, S, T, m)]
             f == [x \in S |-> F[m[x] + 1][x]]
  <1>4. \A n \in Nat : RightBelow(F[n], n, D, S, T, m)
    BY <1>3
  <1>5. \A x \in S : m[x] \in Nat /\ m[x] + 1 \in Nat /\ m[x] < m[x] + 1
    BY DEF WellFounded
  <1> HIDE DEF N, F
  <1>6. f \in [S -> T]
    BY <1>4, <1>5 DEF RightBelow
  <1>7. ASSUME NEW x \in S PROVE f[x] = D[f][x]
    <2>1. PICK g : g = F[m[x] + 1] /\ RightBelow(g, m[x] + 1, D, S, T, m)
      BY <1>4, <1>5
    <2>2. ASSUME NEW y \in S, m[y] < m[x] PROVE f[y] = g[y]
      <3>1. RightBelow(F[m[y] + 1], m[y] + 1, D, S, T, m)
        BY <1>4, <1>5
      <3>2. m[y] < m[x] + 1 /\ m[y] < m[y] + 1 /\ m[x] + 1 \in Nat /\ m[y] + 1 \in Nat
        BY <1>5, <2>2
      <3>3. F[m[y] + 1][y] = g[y]
        BY <2>1, <3>1, <3>2, RightAgree
      <3>4. QED
        BY <3>3
    <2> HIDE DEF f
    <2>3. D[f][x] = D[g][x]
      BY <1>6, <2>1, <2>2 DEF RightBelow, WellFounded
    <2>4. D[g][x] = g[x]
      BY <1>5, <2>1 DEF RightBelow
    <2>5. QED
      BY <2>1, <2>3, <2>4 DEF f
  <1>8. D[f] \in [S -> T]
    BY <1>6 DEF WellFounded
  <1>9. f = D[f]
    <2> HIDE DEF f
    <2>1. QED
      BY <1>6, <1>7, <1>8
  <1>10. QED
    BY <1>6, <1>9 DEF Satisfies

-----------------------------------------------------------------------------
(* FlattenSeq is such a function.                                           *)

\* f holds the concatenations of the first elements of ss.
Flattening(f, ss) ==
  f = [i \in 1 .. Len(ss) |-> IF i = 1 THEN ss[i] ELSE f[i - 1] \o ss[i]]

LEMMA FlattenByFunction ==
  ASSUME NEW E, NEW ss \in Seq(Seq(E)), NEW n \in Nat \ {0}, n = Len(ss)
  PROVE  \E f : Flattening(f, ss) /\ FlattenSeq(ss) = f[n]
  <1> DEFINE S == 1 .. n
             T == Seq(E)
             D == [f \in [S -> T] |-> [i \in S |-> IF i = 1 THEN ss[i] ELSE f[i - 1] \o ss[i]]]
             m == [i \in S |-> i]
  <1>1. \A i \in S : ss[i] \in T
    OBVIOUS
  <1>2. ASSUME NEW i \in S, i # 1 PROVE i - 1 \in S /\ m[i - 1] < m[i]
    BY <1>2
  <1>3. ASSUME NEW f \in [S -> T], NEW i \in S
        PROVE  D[f][i] \in T
    <2>1. CASE i = 1
      BY <1>1, <2>1
    <2>2. CASE i # 1
      <3>1. f[i - 1] \in T /\ ss[i] \in T
        <4> HIDE DEF T
        <4>1. QED
          BY <1>1, <1>2, <2>2
      <3>2. f[i - 1] \o ss[i] \in T
        BY <3>1
      <3>3. QED
        BY <2>2, <3>2
    <2>3. QED
      BY <2>1, <2>2
  <1>4. D \in [[S -> T] -> [S -> T]]
    BY <1>3
  <1>5. ASSUME NEW f \in [S -> T], NEW g \in [S -> T], NEW i \in S,
               \A j \in S : m[j] < m[i] => f[j] = g[j]
        PROVE  D[f][i] = D[g][i]
    <2>1. i # 1 => f[i - 1] = g[i - 1]
      BY <1>2, <1>5
    <2>2. QED
      BY <2>1
  <1>6. WellFounded(D, S, T, m)
    <2>1. m \in [S -> Nat]
      OBVIOUS
    <2>2. T # {}
      BY EmptySeq
    <2> HIDE DEF D, m, S, T
    <2>3. QED
      BY <1>4, <1>5, <2>1, <2>2 DEF WellFounded
  <1>7. \E f : Satisfies(f, D, S, T)
    <2> HIDE DEF D, m, S, T
    <2>1. QED
      BY <1>6, FixedPoint
  <1>8. PICK f : Flattening(f, ss)
    BY <1>7 DEF Satisfies, Flattening
  <1>9. FlattenSeq(ss) = (CHOOSE g : Flattening(g, ss))[n]
    BY DEF FlattenSeq, Flattening
  <1>10. QED
    BY <1>8, <1>9

Concats(f, ss, n) ==
  /\ f[1] = ss[1]
  /\ \A i \in 1 .. n - 1 : f[i + 1] = f[i] \o ss[i + 1]
  /\ FlattenSeq(ss) = f[n]

LEMMA FlattenSteps ==
  ASSUME NEW E, NEW ss \in Seq(Seq(E)), NEW n \in Nat \ {0}, n = Len(ss)
  PROVE  \E f : Concats(f, ss, n)
  <1>1. PICK f : Flattening(f, ss) /\ FlattenSeq(ss) = f[n]
    BY FlattenByFunction
  <1>2. f = [i \in 1 .. n |-> IF i = 1 THEN ss[i] ELSE f[i - 1] \o ss[i]]
    BY <1>1 DEF Flattening
  <1>3. f[1] = ss[1]
    <2>1. 1 \in 1 .. n
      OBVIOUS
    <2>2. QED
      BY <1>2, <2>1
  <1>4. ASSUME NEW i \in 1 .. n - 1 PROVE f[i + 1] = f[i] \o ss[i + 1]
    <2>1. i + 1 \in 1 .. n /\ i + 1 # 1 /\ (i + 1) - 1 = i
      OBVIOUS
    <2>2. QED
      BY <1>2, <2>1
  <1>5. QED
    BY <1>1, <1>3, <1>4 DEF Concats
=============================================================================
