------------------------------ MODULE LinkProofs ------------------------------
(***************************************************************************)
(* The Ethernet example implements FrameLink, for rings of all sizes and   *)
(* frames in any number.  The queue of a flow is in four pieces, one for   *)
(* each kind of ring: every step moves one frame at most, from the head of *)
(* a piece to the end of the next, or out.                                 *)
(***************************************************************************)
EXTENDS EthernetProofs

\* For its lemmas on recursive functions, whatever the operation.
Induction == INSTANCE FoldInduction WITH op <- Append

-----------------------------------------------------------------------------
(***************************************************************************)
(* The frames of a flow, as numbers.                                       *)
(***************************************************************************)
Takes(of, f) ==
  [s \in Seq(Frame) |-> IF s = <<>> THEN <<>>
                        ELSE IF FlowOf(Head(s)) = f THEN <<Head(s).n>> \o of[Tail(s)]
                        ELSE of[Tail(s)]]

LEMMA FrameFields == \A x \in Frame : x.port \in Port /\ x.kind \in Kind /\ x.n \in Nat
  BY DEF Frame

LEMMA TailShorter ==
  ASSUME NEW S, NEW s \in Seq(S), s # <<>>
  PROVE  Head(s) \in S /\ Tail(s) \in Seq(S) /\ Len(Tail(s)) = Len(s) - 1 /\ Len(s) \in Nat \ {0}
  OBVIOUS

LEMMA OneElement == ASSUME NEW S, NEW x \in S PROVE <<x>> \in Seq(S) /\ Len(<<x>>) = 1
  OBVIOUS

LEMMA ByTails ==
  ASSUME NEW S, NEW P, <<>> \in P, \A s \in Seq(S) : s # <<>> /\ Tail(s) \in P => s \in P
  PROVE  \A s \in Seq(S) : s \in P
  <1> SUFFICES ASSUME NEW s \in Seq(S) PROVE s \in P
    OBVIOUS
  <1>l. PICK l \in Nat : l = Len(s)
    OBVIOUS
  <1> DEFINE N == {n \in 0 .. l : \A r \in Seq(S) : Len(r) = n => r \in P}
  <1>1. 0 \in N
    <2>1. \A r \in Seq(S) : Len(r) = 0 => r = <<>>
      OBVIOUS
    <2>2. QED
      BY <2>1
  <1>2. ASSUME NEW n \in 0 .. l - 1, n \in N PROVE n + 1 \in N
    <2>1. ASSUME NEW r \in Seq(S), Len(r) = n + 1 PROVE r \in P
      <3>1. r # <<>> /\ Tail(r) \in Seq(S) /\ Len(Tail(r)) = n
        BY <2>1
      <3>2. QED
        BY <1>2, <3>1
    <2>2. QED
      BY <2>1
  <1> HIDE DEF N
  <1>3. \A n \in 0 .. l : n \in N
    BY <1>1, <1>2, Induction!UpTo
  <1>4. l \in N
    BY <1>3
  <1>5. QED
    BY <1>l, <1>4 DEF N

LEMMA NumbersByFunction ==
  ASSUME NEW f
  PROVE  \E of : of = Takes(of, f) /\ \A s : Numbers(s, f) = of[s]
  <1> DEFINE S == Seq(Frame)
             T == Seq(Nat)
             D == [of \in [S -> T] |-> Takes(of, f)]
             m == [s \in S |-> Len(s)]
  <1>1. ASSUME NEW of \in [S -> T], NEW s \in S PROVE Takes(of, f)[s] \in T
    <2>1. CASE s = <<>>
      BY <2>1 DEF Takes
    <2>2. CASE s # <<>>
      <3>1. Head(s).n \in Nat /\ Tail(s) \in S
        BY <2>2, TailShorter DEF Frame
      <3>2. <<Head(s).n>> \in T /\ of[Tail(s)] \in T
        BY <3>1, OneElement
      <3>3. <<Head(s).n>> \o of[Tail(s)] \in T
        BY <3>2
      <3>4. QED
        BY <2>2, <3>2, <3>3 DEF Takes
    <2>3. QED
      BY <2>1, <2>2
  <1>2. D \in [[S -> T] -> [S -> T]]
    BY <1>1 DEF Takes
  <1>3. ASSUME NEW g \in [S -> T], NEW h \in [S -> T], NEW s \in S,
               \A r \in S : m[r] < m[s] => g[r] = h[r]
        PROVE  D[g][s] = D[h][s]
    <2>1. ASSUME s # <<>> PROVE g[Tail(s)] = h[Tail(s)]
      <3>1. Tail(s) \in S /\ Len(Tail(s)) = Len(s) - 1 /\ Len(s) \in Nat
        BY <2>1, TailShorter
      <3>2. m[Tail(s)] < m[s]
        BY <3>1
      <3>3. QED
        BY <1>3, <3>1, <3>2
    <2>2. Takes(g, f)[s] = Takes(h, f)[s]
      BY <2>1 DEF Takes
    <2>3. QED
      BY <2>2
  <1>4. Induction!WellFounded(D, S, T, m)
    <2>1. m \in [S -> Nat]
      OBVIOUS
    <2>2. T # {}
      BY EmptySeq
    <2> HIDE DEF D, m, S, T
    <2>3. QED
      BY <1>2, <1>3, <2>1, <2>2 DEF Induction!WellFounded
  <1>5. \E of : Induction!Satisfies(of, D, S, T)
    <2> HIDE DEF D, m, S, T
    <2>1. QED
      BY <1>4, Induction!FixedPoint
  <1>6. \E of : of = Takes(of, f)
    BY <1>5 DEF Induction!Satisfies
  <1> HIDE DEF S, T, D, m
  <1>7. \A s : Numbers(s, f) = (CHOOSE of : of = Takes(of, f))[s]
    BY DEF Numbers, Takes
  <1>8. QED
    BY <1>6, <1>7

One(x, f) == IF FlowOf(x) = f THEN <<x.n>> ELSE <<>>

LEMMA NumbersOf ==
  ASSUME NEW f
  PROVE  /\ Numbers(<<>>, f) = <<>>
         /\ \A s \in Seq(Frame) :
              /\ Numbers(s, f) \in Seq(Nat)
              /\ s # <<>> => Numbers(s, f) = One(Head(s), f) \o Numbers(Tail(s), f)
  <1>1. PICK of : of = Takes(of, f) /\ \A s : Numbers(s, f) = of[s]
    BY NumbersByFunction
  <1>2. Numbers(<<>>, f) = <<>>
    BY <1>1, EmptySeq DEF Takes
  <1>3. ASSUME NEW s \in Seq(Frame), s # <<>>
        PROVE  Numbers(s, f) = IF FlowOf(Head(s)) = f THEN <<Head(s).n>> \o Numbers(Tail(s), f)
                               ELSE Numbers(Tail(s), f)
    BY <1>1, <1>3 DEF Takes
  <1> DEFINE P == {s \in Seq(Frame) : Numbers(s, f) \in Seq(Nat)}
  <1>4. <<>> \in P
    BY <1>2, EmptySeq
  <1>5. ASSUME NEW s \in Seq(Frame), s # <<>>, Tail(s) \in P PROVE s \in P
    <2>1. Head(s).n \in Nat
      BY <1>5, TailShorter, FrameFields
    <2>2. PICK r \in Seq(Nat) : r = Numbers(Tail(s), f)
      BY <1>5
    <2>3. <<Head(s).n>> \o r \in Seq(Nat)
      BY <2>1
    <2>4. QED
      BY <1>3, <1>5, <2>2, <2>3
  <1> HIDE DEF P
  <1>6. \A s \in Seq(Frame) : s \in P
    BY <1>4, <1>5, ByTails
  <1>7. ASSUME NEW s \in Seq(Frame), s # <<>>
        PROVE  Numbers(s, f) = One(Head(s), f) \o Numbers(Tail(s), f)
    <2>1. Numbers(Tail(s), f) \in Seq(Nat)
      BY <1>6, <1>7, TailShorter DEF P
    <2>2. <<>> \o Numbers(Tail(s), f) = Numbers(Tail(s), f)
      BY <2>1
    <2>3. QED
      BY <1>3, <1>7, <2>2 DEF One
  <1>8. QED
    BY <1>2, <1>6, <1>7 DEF P

LEMMA OneNumber == ASSUME NEW x \in Frame, NEW f PROVE One(x, f) \in Seq(Nat)
  <1>1. x.n \in Nat
    BY FrameFields
  <1>2. <<x.n>> \in Seq(Nat)
    BY <1>1, OneElement
  <1>3. QED
    BY <1>2, EmptySeq DEF One

LEMMA NatsAssociate == \A a, b, c \in Seq(Nat) : (a \o b) \o c = a \o (b \o c)
  BY ConcatAssociative

LEMMA NumbersAppend ==
  ASSUME NEW f, NEW s \in Seq(Frame), NEW x \in Frame
  PROVE  Numbers(Append(s, x), f) = Numbers(s, f) \o One(x, f)
  <1> DEFINE P == {r \in Seq(Frame) : Numbers(Append(r, x), f) = Numbers(r, f) \o One(x, f)}
  <1>1. <<>> \in P
    <2>1. <<x>> \in Seq(Frame) /\ <<x>> # <<>> /\ Head(<<x>>) = x /\ Tail(<<x>>) = <<>>
      OBVIOUS
    <2>2. Numbers(<<x>>, f) = One(x, f) \o <<>>
      BY <2>1, NumbersOf
    <2>3. One(x, f) \o <<>> = One(x, f) /\ <<>> \o One(x, f) = One(x, f)
      BY OneNumber, ConcatEmptySeq
    <2>4. Append(<<>>, x) = <<x>>
      OBVIOUS
    <2>5. QED
      BY <2>2, <2>3, <2>4, NumbersOf, EmptySeq
  <1>2. ASSUME NEW r \in Seq(Frame), r # <<>>, Tail(r) \in P PROVE r \in P
    <2>1. PICK t \in Seq(Frame) : t = Tail(r)
      BY <1>2, TailShorter
    <2>2. PICK h \in Frame : h = Head(r)
      BY <1>2, TailShorter
    <2>3. PICK q \in Seq(Frame) : q = Append(r, x)
      BY AppendProperties
    <2>4. q # <<>> /\ Head(q) = h /\ Tail(q) = Append(t, x)
      BY <1>2, <2>1, <2>2, <2>3, AppendProperties, HeadTailAppend
    <2>5. Numbers(q, f) = One(h, f) \o Numbers(Append(t, x), f)
      BY <2>4, NumbersOf
    <2>6. Numbers(r, f) = One(h, f) \o Numbers(t, f)
      BY <1>2, <2>1, <2>2, NumbersOf
    <2>7. Numbers(Append(t, x), f) = Numbers(t, f) \o One(x, f)
      BY <1>2, <2>1
    <2>8. One(h, f) \in Seq(Nat) /\ One(x, f) \in Seq(Nat) /\ Numbers(t, f) \in Seq(Nat)
      BY OneNumber, NumbersOf
    <2>9. (One(h, f) \o Numbers(t, f)) \o One(x, f) = One(h, f) \o (Numbers(t, f) \o One(x, f))
      BY <2>8, NatsAssociate, Zenon
    <2>10. QED
      BY <2>3, <2>5, <2>6, <2>7, <2>9
  <1> HIDE DEF P
  <1>3. s \in P
    BY <1>1, <1>2, ByTails
  <1>4. QED
    BY <1>3 DEF P

\* Each number is that of a frame of the flow.
LEMMA NumbersAre ==
  ASSUME NEW f, NEW s \in Seq(Frame), NEW i \in DOMAIN Numbers(s, f)
  PROVE  \E k \in DOMAIN s : FlowOf(s[k]) = f /\ Numbers(s, f)[i] = s[k].n
  <1> DEFINE Among(r, n) == \E k \in DOMAIN r : FlowOf(r[k]) = f /\ n = r[k].n
             P == {r \in Seq(Frame) : \A j \in DOMAIN Numbers(r, f) : Among(r, Numbers(r, f)[j])}
  <1>1. <<>> \in P
    <2>1. DOMAIN Numbers(<<>>, f) = {}
      BY NumbersOf
    <2>2. QED
      BY <2>1, EmptySeq
  <1>2. ASSUME NEW r \in Seq(Frame), r # <<>>, Tail(r) \in P PROVE r \in P
    <2>1. PICK t \in Seq(Frame) : t = Tail(r)
      BY <1>2, TailShorter
    <2>2. ASSUME NEW n, Among(t, n) PROVE Among(r, n)
      <3>1. PICK k \in DOMAIN t : FlowOf(t[k]) = f /\ n = t[k].n
        BY <2>2
      <3>2. k \in 1 .. Len(r) - 1 /\ t[k] = r[k + 1]
        BY <1>2, <2>1, HeadTailProperties
      <3>3. k + 1 \in DOMAIN r
        BY <3>2
      <3>4. QED
        BY <3>1, <3>2, <3>3
    <2>3. PICK h \in Frame : h = Head(r) /\ h = r[1] /\ 1 \in DOMAIN r
      BY <1>2, TailShorter
    <2>4. ASSUME NEW j \in DOMAIN One(h, f) PROVE Among(r, One(h, f)[j])
      BY <2>3, <2>4 DEF One
    <2>5. ASSUME NEW j \in DOMAIN Numbers(t, f) PROVE Among(r, Numbers(t, f)[j])
      BY <1>2, <2>1, <2>2, <2>5
    <2>6. Numbers(r, f) = One(h, f) \o Numbers(t, f)
      BY <1>2, <2>1, <2>3, NumbersOf
    <2>7. PICK a, b \in Seq(Nat) : a = One(h, f) /\ b = Numbers(t, f)
      BY OneNumber, NumbersOf
    <2> HIDE DEF Among
    <2>8. ASSUME NEW j \in DOMAIN (a \o b) PROVE Among(r, (a \o b)[j])
      <3>1. CASE j \in DOMAIN a
        <4>1. (a \o b)[j] = a[j]
          BY <3>1
        <4>2. QED
          BY <2>4, <2>7, <3>1, <4>1
      <3>2. CASE j \notin DOMAIN a
        <4>1. j - Len(a) \in DOMAIN b /\ (a \o b)[j] = b[j - Len(a)]
          BY <3>2
        <4>2. QED
          BY <2>5, <2>7, <4>1
      <3>3. QED
        BY <3>1, <3>2
    <2>9. QED
      BY <2>6, <2>7, <2>8
  <1> HIDE DEF P
  <1>3. s \in P
    BY <1>1, <1>2, ByTails
  <1>4. QED
    BY <1>3 DEF P

-----------------------------------------------------------------------------
(***************************************************************************)
(* The frames in a ring.                                                   *)
(***************************************************************************)
\* The slot k places after slot i.
Spot(i, k, size) == IF i + k < size THEN i + k ELSE i + k - size

LEMMA Wraps ==
  ASSUME NEW size \in Nat \ {0}, NEW i \in 0 .. size - 1, NEW k \in 0 .. size
  PROVE  (i + k) % size = Spot(i, k, size) /\ Spot(i, k, size) \in 0 .. size - 1
  BY DEF Spot

\* Slot i and those after it are full, up to the n-th, or all are.
Run(ring, size, i, n) ==
  /\ n \in 0 .. size
  /\ \A k \in 0 .. n - 1 : ring[Spot(i, k, size)].full
  /\ n < size => ~ring[Spot(i, n, size)].full

LEMMA RunExists ==
  ASSUME NEW size \in Nat \ {0}, NEW i \in 0 .. size - 1, NEW ring
  PROVE  \E n : Run(ring, size, i, n)
  <1> DEFINE E == {n \in 0 .. size : n < size => ~ring[Spot(i, n, size)].full}
  <1>1. E \in SUBSET Nat /\ E # {}
    <2>1. size \in E
      OBVIOUS
    <2>2. QED
      BY <2>1
  <1>2. PICK n \in E : \A m \in E : n <= m
    <2> HIDE DEF E
    <2>1. QED
      BY <1>1, Induction!LeastNatural
  <1>3. ASSUME NEW k \in 0 .. n - 1 PROVE ring[Spot(i, k, size)].full
    <2>1. k \in 0 .. size /\ k < size /\ k \notin E
      BY <1>2
    <2>2. QED
      BY <2>1
  <1>4. QED
    BY <1>2, <1>3 DEF Run

LEMMA RunUnique ==
  ASSUME NEW size \in Nat \ {0}, NEW i \in 0 .. size - 1, NEW ring,
         NEW n, Run(ring, size, i, n), NEW m, Run(ring, size, i, m)
  PROVE  m = n
  <1>1. n \in 0 .. size /\ m \in 0 .. size
    BY DEF Run
  <1>2. ~(n < m)
    <2>1. ASSUME n < m PROVE FALSE
      <3>1. n \in 0 .. m - 1 /\ n < size
        BY <1>1, <2>1
      <3>2. QED
        BY <3>1 DEF Run
    <2>2. QED
      BY <2>1
  <1>3. ~(m < n)
    <2>1. ASSUME m < n PROVE FALSE
      <3>1. m \in 0 .. n - 1 /\ m < size
        BY <1>1, <2>1
      <3>2. QED
        BY <3>1 DEF Run
    <2>2. QED
      BY <2>1
  <1>4. QED
    BY <1>1, <1>2, <1>3

Frames(ring, size, i, n) == [k \in 1 .. n |-> ring[Spot(i, k - 1, size)].frame]

LEMMA FromRun ==
  ASSUME NEW size \in Nat \ {0}, NEW i \in 0 .. size - 1, NEW ring,
         NEW n, Run(ring, size, i, n)
  PROVE  From(ring, size, i) = Frames(ring, size, i, n)
  <1> DEFINE Q(m) == /\ \A k \in 0 .. m - 1 : ring[(i + k) % size].full
                     /\ m < size => ~ring[(i + m) % size].full
  <1>1. ASSUME NEW m \in 0 .. size PROVE Q(m) <=> Run(ring, size, i, m)
    <2>1. (i + m) % size = Spot(i, m, size)
      BY Wraps
    <2>2. ASSUME NEW k \in 0 .. m - 1 PROVE (i + k) % size = Spot(i, k, size)
      <3>1. k \in 0 .. size
        OBVIOUS
      <3>2. QED
        BY <3>1, Wraps
    <2>3. QED
      BY <2>1, <2>2 DEF Run
  <1>2. n \in 0 .. size
    BY DEF Run
  <1>3. (CHOOSE m \in 0 .. size : Q(m)) = n
    <2>1. \A m \in 0 .. size : Q(m) <=> m = n
      BY <1>1, <1>2, RunUnique
    <2> HIDE DEF Q
    <2>2. QED
      BY <1>2, <2>1
  <1>4. From(ring, size, i) = [k \in 1 .. n |-> ring[(i + (k - 1)) % size].frame]
    BY <1>3 DEF From
  <1>5. ASSUME NEW k \in 1 .. n
        PROVE  ring[(i + (k - 1)) % size].frame = ring[Spot(i, k - 1, size)].frame
    <2>1. k - 1 \in 0 .. size
      BY <1>2
    <2>2. QED
      BY <2>1, Wraps
  <1>6. QED
    BY <1>4, <1>5 DEF Frames

LEMMA FromTyped ==
  ASSUME NEW size \in Nat \ {0}, NEW i \in 0 .. size - 1, NEW ring \in Slots(size)
  PROVE  /\ From(ring, size, i) \in Seq(Frame)
         /\ ring[i].full => From(ring, size, i) # <<>> /\ Head(From(ring, size, i)) = ring[i].frame
         /\ ~ring[i].full => From(ring, size, i) = <<>>
         /\ \A x \in Range(From(ring, size, i)) :
              \E k \in 0 .. size - 1 : ring[k].full /\ x = ring[k].frame
  <1>1. PICK n : Run(ring, size, i, n)
    BY RunExists
  <1>2. n \in 0 .. size /\ (n # 0 <=> ring[i].full)
    BY <1>1 DEF Run, Spot
  <1>3. ASSUME NEW k \in 1 .. n
        PROVE  /\ Spot(i, k - 1, size) \in 0 .. size - 1
               /\ ring[Spot(i, k - 1, size)].full
               /\ ring[Spot(i, k - 1, size)].frame \in Frame
    <2>1. k - 1 \in 0 .. n - 1 /\ k - 1 \in 0 .. size
      BY <1>2
    <2>2. PICK j \in 0 .. size - 1 : j = Spot(i, k - 1, size)
      BY <2>1, Wraps
    <2>3. ring[j].frame \in Frame
      BY DEF Slots, SlotState
    <2>4. QED
      BY <1>1, <2>1, <2>2, <2>3 DEF Run
  <1>4. PICK s : s = Frames(ring, size, i, n)
    OBVIOUS
  <1>5. s = From(ring, size, i)
    BY <1>1, <1>4, FromRun
  <1>6. s \in Seq(Frame) /\ Len(s) = n
    BY <1>2, <1>3, <1>4 DEF Frames
  <1>7. n # 0 => s # <<>> /\ Head(s) = ring[i].frame
    <2>1. ASSUME n # 0 PROVE s # <<>> /\ Head(s) = ring[i].frame
      <3>1. 1 \in 1 .. n /\ Spot(i, 1 - 1, size) = i
        BY <1>2, <2>1 DEF Spot
      <3>2. s[1] = ring[i].frame
        BY <1>4, <3>1 DEF Frames
      <3>3. s # <<>> /\ Head(s) = s[1]
        BY <1>6, <2>1
      <3>4. QED
        BY <3>2, <3>3
    <2>2. QED
      BY <2>1
  <1>8. n = 0 => s = <<>>
    BY <1>6
  <1>9. \A x \in Range(s) : \E k \in 0 .. size - 1 : ring[k].full /\ x = ring[k].frame
    <2>1. Range(s) = {s[k] : k \in 1 .. n}
      BY <1>6 DEF Range
    <2>2. QED
      BY <1>3, <1>4, <2>1 DEF Frames
  <1>10. QED
    BY <1>2, <1>5, <1>6, <1>7, <1>8, <1>9

\* What does not concern a full slot does not change them.
LEMMA FromSame ==
  ASSUME NEW size \in Nat \ {0}, NEW i \in 0 .. size - 1, NEW ring, NEW next,
         \A k \in 0 .. size - 1 : /\ next[k].full = ring[k].full
                                  /\ ring[k].full => next[k].frame = ring[k].frame
  PROVE  From(next, size, i) = From(ring, size, i)
  <1>1. PICK n : Run(ring, size, i, n)
    BY RunExists
  <1>2. n \in 0 .. size
    BY <1>1 DEF Run
  <1>3. \A k \in 0 .. size : Spot(i, k, size) \in 0 .. size - 1
    BY Wraps
  <1>4. Run(next, size, i, n)
    BY <1>1, <1>2, <1>3 DEF Run
  <1>5. ASSUME NEW k \in 1 .. n
        PROVE  next[Spot(i, k - 1, size)].frame = ring[Spot(i, k - 1, size)].frame
    <2>1. k - 1 \in 0 .. n - 1 /\ k - 1 \in 0 .. size
      BY <1>2
    <2>2. ring[Spot(i, k - 1, size)].full
      BY <1>1, <2>1 DEF Run
    <2>3. QED
      BY <1>3, <2>1, <2>2
  <1>6. Frames(next, size, i, n) = Frames(ring, size, i, n)
    BY <1>5 DEF Frames
  <1>7. QED
    BY <1>1, <1>4, <1>6, FromRun

\* The consumer empties the slot at its index and moves on.
LEMMA FromEmptied ==
  ASSUME NEW size \in Nat \ {0}, NEW head \in 0 .. size - 1,
         NEW ring \in Slots(size), NEW next \in Slots(size),
         ring[head].full, ~next[head].full,
         \A k \in (0 .. size - 1) \ {head} : next[k] = ring[k]
  PROVE  From(next, size, After(head, size)) = Tail(From(ring, size, head))
  <1>1. PICK n : Run(ring, size, head, n)
    BY RunExists
  <1>2. n \in 1 .. size
    BY <1>1 DEF Run, Spot
  <1>3. PICK i \in 0 .. size - 1 : i = After(head, size)
    BY Sizes
  <1>4. ASSUME NEW k \in 0 .. size - 1
        PROVE  Spot(i, k, size) = Spot(head, k + 1, size)
    BY <1>3 DEF Spot, After
  <1>5. ASSUME NEW k \in 1 .. size
        PROVE  /\ Spot(head, k, size) \in 0 .. size - 1
               /\ Spot(head, k, size) = head <=> k = size
    BY DEF Spot
  <1>6. Run(next, size, i, n - 1)
    <2>1. ASSUME NEW k \in 0 .. n - 2 PROVE next[Spot(i, k, size)].full
      <3>1. k \in 0 .. size - 1 /\ k + 1 \in 1 .. size /\ k + 1 # size /\ k + 1 \in 0 .. n - 1
        BY <1>2
      <3>2. Spot(i, k, size) = Spot(head, k + 1, size)
        BY <1>4, <3>1
      <3>3. PICK j \in (0 .. size - 1) \ {head} : j = Spot(head, k + 1, size)
        BY <1>5, <3>1
      <3>4. ring[j].full
        BY <1>1, <3>1, <3>3 DEF Run
      <3>5. QED
        BY <3>2, <3>3, <3>4
    <2>2. ~next[Spot(i, n - 1, size)].full
      <3>1. n - 1 \in 0 .. size - 1
        BY <1>2
      <3>2. Spot(i, n - 1, size) = Spot(head, n, size)
        BY <1>2, <1>4, <3>1
      <3>3. CASE n = size
        BY <1>2, <1>5, <3>2, <3>3
      <3>4. CASE n # size
        <4>1. PICK j \in (0 .. size - 1) \ {head} : j = Spot(head, n, size)
          BY <1>2, <1>5, <3>4
        <4>2. ~ring[j].full
          BY <1>1, <1>2, <3>4, <4>1 DEF Run
        <4>3. QED
          BY <3>2, <4>1, <4>2
      <3>5. QED
        BY <3>3, <3>4
    <2>3. n - 1 \in 0 .. size
      BY <1>2
    <2>4. QED
      BY <1>2, <2>1, <2>2, <2>3 DEF Run
  <1>7. PICK s \in Seq(Frame) : s = From(ring, size, head)
    BY FromTyped
  <1>8. s = Frames(ring, size, head, n) /\ Len(s) = n
    BY <1>1, <1>2, <1>7, FromRun DEF Frames
  <1>9. PICK t \in Seq(Frame) : t = From(next, size, i)
    BY FromTyped
  <1>10. t = Frames(next, size, i, n - 1) /\ Len(t) = n - 1
    <2>1. t = Frames(next, size, i, n - 1)
      BY <1>6, <1>9, FromRun
    <2>2. n - 1 \in Nat
      BY <1>2
    <2>3. QED
      BY <2>1, <2>2 DEF Frames
  <1>11. ASSUME NEW k \in 1 .. n - 1 PROVE t[k] = s[k + 1]
    <2>1. k - 1 \in 0 .. size - 1 /\ k \in 1 .. size /\ k # size /\ k + 1 \in 1 .. n
          /\ (k - 1) + 1 = k /\ (k + 1) - 1 = k
      BY <1>2
    <2>2. PICK j \in (0 .. size - 1) \ {head} : j = Spot(head, k, size)
      BY <1>5, <2>1
    <2>3. t[k] = next[Spot(i, k - 1, size)].frame
      BY <1>10 DEF Frames
    <2>4. Spot(i, k - 1, size) = Spot(head, k, size)
      BY <1>4, <2>1
    <2>5. s[k + 1] = ring[Spot(head, k, size)].frame
      BY <1>8, <2>1 DEF Frames
    <2>6. QED
      BY <2>2, <2>3, <2>4, <2>5
  <1>12. t = Tail(s)
    <2>1. s # <<>>
      BY <1>2, <1>8
    <2>2. PICK r \in Seq(Frame) : r = Tail(s)
      BY <2>1, HeadTailProperties
    <2>3. Len(r) = n - 1 /\ \A k \in 1 .. Len(r) : r[k] = s[k + 1]
      BY <1>8, <2>1, <2>2, HeadTailProperties
    <2>4. Len(t) = Len(r) /\ \A k \in 1 .. Len(t) : t[k] = r[k]
      BY <1>10, <1>11, <2>3
    <2>5. QED
      BY <2>2, <2>4, SeqEqual
  <1>13. QED
    BY <1>3, <1>7, <1>9, <1>12

\* The producer fills the slot at its index, which is empty.
LEMMA FromFilled ==
  ASSUME NEW size \in Nat \ {0}, NEW head \in 0 .. size - 1, NEW tail \in 0 .. size - 1,
         NEW ring \in Slots(size), NEW next \in Slots(size),
         Ring(ring, size, head, tail), ~ring[tail].full, next[tail].full,
         \A k \in (0 .. size - 1) \ {tail} : next[k] = ring[k]
  PROVE  From(next, size, head) = Append(From(ring, size, head), next[tail].frame)
  <1>1. PICK n : Run(ring, size, head, n)
    BY RunExists
  <1>2. PICK m \in 0 .. size - 1 : Spot(head, m, size) = tail
    <2>1. CASE head <= tail
      <3>1. tail - head \in 0 .. size - 1 /\ Spot(head, tail - head, size) = tail
        BY <2>1 DEF Spot
      <3>2. QED
        BY <3>1
    <2>2. CASE tail < head
      <3>1. tail + size - head \in 0 .. size - 1 /\ Spot(head, tail + size - head, size) = tail
        BY <2>2 DEF Spot
      <3>2. QED
        BY <3>1
    <2>3. QED
      BY <2>1, <2>2
  <1>3. ASSUME NEW k \in 0 .. size - 1
        PROVE  /\ Spot(head, k, size) \in 0 .. size - 1
               /\ Spot(head, k, size) = tail <=> k = m
               /\ ring[Spot(head, k, size)].full <=> k < m
    <2>1. PICK j \in 0 .. size - 1 : j = Spot(head, k, size)
      <3>1. k \in 0 .. size
        OBVIOUS
      <3>2. QED
        BY <3>1, Wraps
    <2>2. j = tail <=> k = m
      BY <1>2, <2>1 DEF Spot
    <2>3. CASE \A i \in 0 .. size - 1 : ring[i].full <=> Between(i, head, tail)
      <3>1. head # tail
        BY <2>3 DEF Between
      <3>2. Between(j, head, tail) <=> k < m
        BY <1>2, <2>1, <3>1 DEF Spot, Between
      <3>3. QED
        BY <2>1, <2>2, <2>3, <3>2
    <2>4. CASE head = tail /\ \A i \in 0 .. size - 1 : ~ring[i].full
      <3>1. m = 0
        BY <1>2, <2>4 DEF Spot
      <3>2. QED
        BY <2>1, <2>2, <2>4, <3>1
    <2>5. QED
      BY <2>3, <2>4 DEF Ring
  <1>4. Run(ring, size, head, m)
    BY <1>3 DEF Run
  <1>5. Run(next, size, head, m + 1)
    <2>1. ASSUME NEW k \in 0 .. m PROVE next[Spot(head, k, size)].full
      <3>1. CASE k = m
        BY <1>2, <3>1
      <3>2. CASE k # m
        <4>1. k \in 0 .. size - 1 /\ k < m
          BY <3>2
        <4>2. PICK j \in (0 .. size - 1) \ {tail} : j = Spot(head, k, size)
          BY <1>3, <3>2, <4>1
        <4>3. ring[j].full
          BY <1>3, <4>1, <4>2
        <4>4. QED
          BY <4>2, <4>3
      <3>3. QED
        BY <3>1, <3>2
    <2>2. ASSUME m + 1 < size PROVE ~next[Spot(head, m + 1, size)].full
      <3>1. m + 1 \in 0 .. size - 1 /\ m + 1 # m /\ ~(m + 1 < m)
        BY <2>2
      <3>2. PICK j \in (0 .. size - 1) \ {tail} : j = Spot(head, m + 1, size)
        BY <1>3, <3>1
      <3>3. ~ring[j].full
        BY <1>3, <3>1, <3>2
      <3>4. QED
        BY <3>2, <3>3
    <2>3. m + 1 \in 0 .. size /\ (m + 1) - 1 = m
      OBVIOUS
    <2>4. QED
      BY <2>1, <2>2, <2>3 DEF Run
  <1>6. PICK s \in Seq(Frame) : s = From(ring, size, head)
    BY FromTyped
  <1>7. s = Frames(ring, size, head, m) /\ Len(s) = m
    BY <1>4, <1>6, FromRun DEF Frames
  <1>8. PICK t \in Seq(Frame) : t = From(next, size, head)
    BY FromTyped
  <1>9. t = Frames(next, size, head, m + 1) /\ Len(t) = m + 1
    BY <1>5, <1>8, FromRun DEF Frames
  <1>10. PICK x \in Frame : x = next[tail].frame
    BY DEF Slots, SlotState
  <1>11. PICK r \in Seq(Frame) : /\ r = Append(s, x) /\ Len(r) = m + 1 /\ r[m + 1] = x
                                /\ \A k \in 1 .. m : r[k] = s[k]
    <2>1. PICK r \in Seq(Frame) : r = Append(s, x)
      BY AppendProperties
    <2>2. Len(r) = m + 1 /\ r[m + 1] = x /\ \A k \in 1 .. m : r[k] = s[k]
      BY <1>7, <2>1, AppendProperties
    <2>3. QED
      BY <2>1, <2>2
  <1>12. ASSUME NEW k \in 1 .. m + 1 PROVE t[k] = r[k]
    <2>1. t[k] = next[Spot(head, k - 1, size)].frame
      BY <1>9 DEF Frames
    <2>2. CASE k = m + 1
      BY <1>2, <1>10, <1>11, <2>1, <2>2
    <2>3. CASE k # m + 1
      <3>1. k \in 1 .. m /\ k - 1 \in 0 .. size - 1 /\ k - 1 # m
        BY <2>3
      <3>2. PICK j \in (0 .. size - 1) \ {tail} : j = Spot(head, k - 1, size)
        BY <1>3, <3>1
      <3>3. s[k] = ring[j].frame
        BY <1>7, <3>1, <3>2 DEF Frames
      <3>4. QED
        BY <1>11, <2>1, <3>1, <3>2, <3>3
    <2>4. QED
      BY <2>2, <2>3
  <1>13. t = r
    BY <1>9, <1>11, <1>12, SeqEqual
  <1>14. QED
    BY <1>6, <1>8, <1>10, <1>11, <1>13

-----------------------------------------------------------------------------
(***************************************************************************)
(* The steps of FrameLink, by the pieces of the queue.                     *)
(***************************************************************************)
LEMMA NatsConcat ==
  \A a, b \in Seq(Nat) : a \o b \in Seq(Nat) /\ a \o <<>> = a /\ <<>> \o a = a
  BY ConcatProperties, ConcatEmptySeq

Associate(a, b, c) == (a \o b) \o c = a \o (b \o c)

LEMMA PiecesAssociate ==
  ASSUME NEW a, a \in Seq(Nat), NEW b, b \in Seq(Nat), NEW c, c \in Seq(Nat)
  PROVE  Associate(a, b, c)
  BY NatsAssociate, Zenon DEF Associate

\* What a part of a sequence is.
PartIs(s, m, n) ==
  \E r \in Seq(Nat) : /\ r = SubSeq(s, m, n)
                      /\ Len(r) = (IF m <= n THEN n - m + 1 ELSE 0)
                      /\ \A i \in 1 .. n - m + 1 : r[i] = s[m + i - 1]

LEMMA SubNats ==
  ASSUME NEW s, NEW m \in Nat, NEW n \in Nat, \A i \in m .. n : s[i] \in Nat
  PROVE  PartIs(s, m, n)
  <1>1. m \in Int /\ n \in Int
    OBVIOUS
  <1>2. /\ SubSeq(s, m, n) \in Seq(Nat)
        /\ Len(SubSeq(s, m, n)) = (IF m <= n THEN n - m + 1 ELSE 0)
        /\ \A i \in 1 .. n - m + 1 : SubSeq(s, m, n)[i] = s[m + i - 1]
    BY <1>1, SubSeqProperties
  <1>3. QED
    BY <1>2 DEF PartIs

\* The piece x goes from the sequence q, and q2 is left.
Lost(q, q2, x) == \E u, v \in Seq(Nat) : q = u \o (x \o v) /\ q2 = u \o v

LEMMA LostFirst ==
  ASSUME NEW x \in Seq(Nat), NEW q \in Seq(Nat), NEW q2 \in Seq(Nat), q = x \o q2
  PROVE  Lost(q, q2, x)
  <1>1. x \o q2 \in Seq(Nat)
    BY NatsConcat
  <1>2. q = <<>> \o (x \o q2) /\ q2 = <<>> \o q2
    BY <1>1, NatsConcat
  <1>3. QED
    BY <1>2, EmptySeq DEF Lost

LEMMA LostBehind ==
  ASSUME NEW x \in Seq(Nat), NEW q \in Seq(Nat), NEW q2 \in Seq(Nat), Lost(q, q2, x),
         NEW a \in Seq(Nat)
  PROVE  Lost(a \o q, a \o q2, x)
  <1>1. PICK u, v \in Seq(Nat) : q = u \o (x \o v) /\ q2 = u \o v
    BY DEF Lost
  <1>2. PICK w \in Seq(Nat) : w = a \o u
    BY NatsConcat
  <1>3. PICK y \in Seq(Nat) : y = x \o v
    BY NatsConcat
  <1>4. Associate(a, u, y) /\ Associate(a, u, v)
    BY PiecesAssociate
  <1>5. a \o q = w \o (x \o v) /\ a \o q2 = w \o v
    BY <1>1, <1>2, <1>3, <1>4, Zenon DEF Associate
  <1>6. QED
    BY <1>5, Zenon DEF Lost

LEMMA LostBefore ==
  ASSUME NEW x \in Seq(Nat), NEW q \in Seq(Nat), NEW q2 \in Seq(Nat), Lost(q, q2, x),
         NEW b \in Seq(Nat)
  PROVE  Lost(q \o b, q2 \o b, x)
  <1>1. PICK u, v \in Seq(Nat) : q = u \o (x \o v) /\ q2 = u \o v
    BY DEF Lost
  <1>2. PICK w \in Seq(Nat) : w = v \o b
    BY NatsConcat
  <1>3. PICK y \in Seq(Nat) : y = x \o v
    BY NatsConcat
  <1>4. Associate(u, y, b) /\ Associate(u, v, b) /\ Associate(x, v, b)
    BY PiecesAssociate
  <1>5. y \o b = x \o w
    BY <1>2, <1>3, <1>4, Zenon DEF Associate
  <1>6. q \o b = u \o (x \o w) /\ q2 \o b = u \o w
    BY <1>1, <1>2, <1>3, <1>4, <1>5, Zenon DEF Associate
  <1>7. QED
    BY <1>6, Zenon DEF Lost

\* What FrameLink does in a step, if anything.
Arrives(q, t, q2, t2) ==
  /\ t2 = t
  /\ \E n \in Nat : /\ q2 = q \o <<n>>
                    /\ \A i \in DOMAIN q : q[i] < n
                    /\ \A i \in DOMAIN t : t[i] < n
Leaves(q, t, q2, t2) == \E n \in Nat : q = <<n>> \o q2 /\ t2 = t \o <<n>>
Loses(q, t, q2, t2) == t2 = t /\ \E n \in Nat : Lost(q, q2, <<n>>)
LinkStep(q, t, q2, t2) ==
  \/ q2 = q /\ t2 = t
  \/ Arrives(q, t, q2, t2) \/ Leaves(q, t, q2, t2) \/ Loses(q, t, q2, t2)

\* The same in the words of FrameLink.
FrontOf(s) == SubSeq(s, 1, Len(s) - 1)
Without(s, i) == SubSeq(s, 1, i - 1) \o SubSeq(s, i + 1, Len(s))
RangeOf(s) == {s[i] : i \in DOMAIN s}
FrameLinkStep(q, t, q2, t2) ==
  \/ <<q2, t2>> = <<q, t>>
  \/ /\ Len(q2) = Len(q) + 1
     /\ FrontOf(q2) = q
     /\ \A n \in RangeOf(q) \cup RangeOf(t) : n < q2[Len(q2)]
     /\ t2 = t
  \/ q # <<>> /\ t2 = Append(t, Head(q)) /\ q2 = Tail(q)
  \/ /\ Len(q2) = Len(q) - 1
     /\ \E i \in DOMAIN q : q2 = Without(q, i)
     /\ t2 = t

\* What a and b, of lengths l and m, make together.
ConcatIs(a, b, l, m) ==
  /\ a \o b \in Seq(Nat) /\ Len(a \o b) = l + m
  /\ \A i \in 1 .. l : (a \o b)[i] = a[i]
  /\ \A i \in 1 .. m : (a \o b)[l + i] = b[i]

LEMMA ConcatElements ==
  ASSUME NEW a \in Seq(Nat), NEW b \in Seq(Nat),
         NEW l \in Nat, l = Len(a), NEW m \in Nat, m = Len(b)
  PROVE  ConcatIs(a, b, l, m)
  <1>1. PICK c \in Seq(Nat) : c = a \o b /\ Len(c) = l + m
    BY ConcatProperties
  <1>2. \A i \in 1 .. l + m : c[i] = IF i <= l THEN a[i] ELSE b[i - l]
    BY <1>1, ConcatProperties
  <1>3. ASSUME NEW i \in 1 .. m PROVE c[l + i] = b[i]
    <2>1. l + i \in 1 .. l + m /\ ~(l + i <= l) /\ (l + i) - l = i
      OBVIOUS
    <2>2. QED
      BY <1>2, <2>1
  <1>4. \A i \in 1 .. l : c[i] = a[i]
    BY <1>2
  <1>5. QED
    BY <1>1, <1>3, <1>4 DEF ConcatIs

LEMMA ArrivesIsStep ==
  ASSUME NEW q \in Seq(Nat), NEW t \in Seq(Nat), NEW q2, NEW t2, Arrives(q, t, q2, t2)
  PROVE  FrameLinkStep(q, t, q2, t2)
  <1>1. PICK n \in Nat : q2 = q \o <<n>> /\ t2 = t
                         /\ (\A i \in DOMAIN q : q[i] < n) /\ (\A i \in DOMAIN t : t[i] < n)
    BY DEF Arrives
  <1>2. PICK l \in Nat : l = Len(q) /\ DOMAIN q = 1 .. l
    OBVIOUS
  <1>3. <<n>> \in Seq(Nat) /\ Len(<<n>>) = 1 /\ <<n>>[1] = n
    OBVIOUS
  <1>4. q2 \in Seq(Nat) /\ Len(q2) = l + 1 /\ q2[l + 1] = n /\ \A i \in 1 .. l : q2[i] = q[i]
    <2>1. ConcatIs(q, <<n>>, l, 1)
      BY <1>2, <1>3, ConcatElements
    <2>2. QED
      BY <1>1, <1>3, <2>1 DEF ConcatIs
  <1>5. FrontOf(q2) = q
    <2>1. \A i \in 1 .. l : q2[i] \in Nat
      BY <1>2, <1>4
    <2>2. PICK r \in Seq(Nat) : /\ r = SubSeq(q2, 1, l)
                                /\ Len(r) = (IF 1 <= l THEN l - 1 + 1 ELSE 0)
                                /\ \A i \in 1 .. l - 1 + 1 : r[i] = q2[1 + i - 1]
      <3>1. PartIs(q2, 1, l)
        BY <2>1, SubNats
      <3>2. QED
        BY <3>1 DEF PartIs
    <2>3. Len(r) = l /\ \A i \in 1 .. l : r[i] = q2[i]
      BY <2>2
    <2>4. r = q
      BY <1>2, <1>4, <2>2, <2>3, SeqEqual
    <2>5. (l + 1) - 1 = l
      OBVIOUS
    <2>6. QED
      BY <1>4, <2>2, <2>4, <2>5 DEF FrontOf
  <1>6. \A m \in RangeOf(q) \cup RangeOf(t) : m < q2[Len(q2)]
    BY <1>1, <1>4 DEF RangeOf
  <1>7. QED
    BY <1>1, <1>2, <1>4, <1>5, <1>6 DEF FrameLinkStep

LEMMA LeavesIsStep ==
  ASSUME NEW q \in Seq(Nat), NEW t \in Seq(Nat), NEW q2 \in Seq(Nat), NEW t2,
         Leaves(q, t, q2, t2)
  PROVE  FrameLinkStep(q, t, q2, t2)
  <1>1. PICK n \in Nat : q = <<n>> \o q2 /\ t2 = t \o <<n>>
    BY DEF Leaves
  <1>2. PICK m \in Nat : m = Len(q2)
    OBVIOUS
  <1>3. <<n>> \in Seq(Nat) /\ Len(<<n>>) = 1 /\ <<n>>[1] = n
    OBVIOUS
  <1>4. Len(q) = 1 + m /\ q[1] = n /\ \A i \in 1 .. m : q[1 + i] = q2[i]
    <2>1. ConcatIs(<<n>>, q2, 1, m)
      BY <1>2, <1>3, ConcatElements
    <2>2. QED
      BY <1>1, <1>3, <2>1 DEF ConcatIs
  <1>5. q # <<>> /\ Head(q) = n
    BY <1>4
  <1>6. Tail(q) = q2
    <2>1. PICK r \in Seq(Nat) : r = Tail(q)
      BY <1>5, HeadTailProperties
    <2>2. Len(r) = m /\ \A i \in 1 .. m : r[i] = q[i + 1]
      BY <1>4, <1>5, <2>1, HeadTailProperties
    <2>3. \A i \in 1 .. m : r[i] = q2[i]
      BY <1>4, <2>2
    <2>4. r = q2
      BY <1>2, <2>2, <2>3, SeqEqual
    <2>5. QED
      BY <2>1, <2>4
  <1>7. t2 = Append(t, n)
    BY <1>1, AppendIsConcat
  <1>8. QED
    BY <1>5, <1>6, <1>7 DEF FrameLinkStep

LEMMA LosesIsStep ==
  ASSUME NEW q \in Seq(Nat), NEW t \in Seq(Nat), NEW q2 \in Seq(Nat), NEW t2,
         Loses(q, t, q2, t2)
  PROVE  FrameLinkStep(q, t, q2, t2)
  <1>1. PICK n \in Nat : t2 = t /\ Lost(q, q2, <<n>>)
    BY DEF Loses
  <1>2. PICK u, v \in Seq(Nat) : q = u \o (<<n>> \o v) /\ q2 = u \o v
    BY <1>1 DEF Lost
  <1>3. PICK l, m \in Nat : l = Len(u) /\ m = Len(v)
    OBVIOUS
  <1>4. <<n>> \in Seq(Nat) /\ Len(<<n>>) = 1
    OBVIOUS
  <1>5. PICK w \in Seq(Nat) : w = <<n>> \o v /\ Len(w) = 1 + m /\ \A i \in 1 .. m : w[1 + i] = v[i]
    <2>1. PICK w \in Seq(Nat) : w = <<n>> \o v
      BY <1>4, NatsConcat
    <2>2. Len(w) = 1 + m /\ \A i \in 1 .. m : w[1 + i] = v[i]
      <3>1. ConcatIs(<<n>>, v, 1, m)
        BY <1>3, <1>4, ConcatElements
      <3>2. QED
        BY <2>1, <3>1 DEF ConcatIs
    <2>3. QED
      BY <2>1, <2>2
  <1>6. PICK k \in Nat : k = 1 + m /\ k = Len(w)
    BY <1>5
  <1>7. /\ Len(q) = l + k
        /\ \A i \in 1 .. l : q[i] = u[i]
        /\ \A i \in 1 .. k : q[l + i] = w[i]
    <2>1. ConcatIs(u, w, l, k)
      BY <1>3, <1>6, ConcatElements
    <2>2. QED
      BY <1>2, <1>5, <2>1 DEF ConcatIs
  <1>8. Len(q2) = l + m
    <2>1. ConcatIs(u, v, l, m)
      BY <1>3, ConcatElements
    <2>2. QED
      BY <1>2, <2>1 DEF ConcatIs
  <1>9. l + 1 \in DOMAIN q /\ Len(q) = l + m + 1
    <2>1. Len(q) = l + k
      BY <1>7
    <2>2. l + k = l + m + 1
      BY <1>3, <1>6
    <2>3. DOMAIN q = 1 .. Len(q)
      OBVIOUS
    <2>4. l + 1 \in 1 .. l + m + 1
      BY <1>3
    <2>5. QED
      BY <2>1, <2>2, <2>3, <2>4
  <1>10. SubSeq(q, 1, l) = u
    <2>1. \A i \in 1 .. l : q[i] \in Nat
      BY <1>3, <1>7
    <2>2. PICK r \in Seq(Nat) : /\ r = SubSeq(q, 1, l)
                                /\ Len(r) = (IF 1 <= l THEN l - 1 + 1 ELSE 0)
                                /\ \A i \in 1 .. l - 1 + 1 : r[i] = q[1 + i - 1]
      <3>1. PartIs(q, 1, l)
        BY <2>1, SubNats
      <3>2. QED
        BY <3>1 DEF PartIs
    <2>3. Len(r) = l /\ \A i \in 1 .. l : r[i] = q[i]
      BY <2>2
    <2>4. r = u
      BY <1>2, <1>3, <1>7, <2>2, <2>3, SeqEqual
    <2>5. QED
      BY <2>2, <2>4
  <1>11. SubSeq(q, l + 2, l + m + 1) = v
    <2>1. ASSUME NEW i \in 1 .. m PROVE q[l + 1 + i] = v[i]
      <3>1. 1 + i \in 1 .. k /\ l + (1 + i) = l + 1 + i
        BY <1>6
      <3>2. QED
        BY <1>5, <1>7, <3>1
    <2>2. ASSUME NEW i \in l + 2 .. l + m + 1 PROVE q[i] \in Nat
      BY <1>9
    <2>3. PICK a, b \in Nat : a = l + 2 /\ b = l + m + 1
      OBVIOUS
    <2>4. PICK r \in Seq(Nat) : /\ r = SubSeq(q, a, b)
                                /\ Len(r) = (IF a <= b THEN b - a + 1 ELSE 0)
                                /\ \A i \in 1 .. b - a + 1 : r[i] = q[a + i - 1]
      <3>1. PartIs(q, a, b)
        BY <2>2, <2>3, SubNats
      <3>2. QED
        BY <3>1 DEF PartIs
    <2>5. Len(r) = m /\ \A i \in 1 .. m : a + i - 1 = l + 1 + i /\ i \in 1 .. b - a + 1
      BY <2>3, <2>4
    <2>6. \A i \in 1 .. m : r[i] = v[i]
      BY <2>1, <2>4, <2>5
    <2>7. r = v
      BY <1>2, <1>3, <2>4, <2>5, <2>6, SeqEqual
    <2>8. QED
      BY <2>3, <2>4, <2>7
  <1>12. q2 = Without(q, l + 1)
    <2>1. (l + 1) - 1 = l /\ (l + 1) + 1 = l + 2
      OBVIOUS
    <2>2. QED
      BY <1>2, <1>9, <1>10, <1>11, <2>1 DEF Without
  <1>13. Len(q2) = Len(q) - 1
    BY <1>8, <1>9
  <1>14. QED
    BY <1>1, <1>9, <1>12, <1>13 DEF FrameLinkStep

LEMMA LinkStepIsStep ==
  ASSUME NEW q \in Seq(Nat), NEW t \in Seq(Nat), NEW q2 \in Seq(Nat), NEW t2,
         LinkStep(q, t, q2, t2)
  PROVE  FrameLinkStep(q, t, q2, t2)
  BY ArrivesIsStep, LeavesIsStep, LosesIsStep DEF LinkStep, FrameLinkStep

-----------------------------------------------------------------------------
(***************************************************************************)
(* A queue in pieces: what waits for the interface that transmits, in the  *)
(* ring from pass, in the ring to pass, and in the ring of the receiver.   *)
(***************************************************************************)
Joined(t, i, o, r) == t \o (i \o (o \o r))

LEMMA JoinedNats ==
  ASSUME NEW t \in Seq(Nat), NEW i \in Seq(Nat), NEW o \in Seq(Nat), NEW r \in Seq(Nat)
  PROVE  o \o r \in Seq(Nat) /\ i \o (o \o r) \in Seq(Nat) /\ Joined(t, i, o, r) \in Seq(Nat)
  <1>1. o \o r \in Seq(Nat)
    BY NatsConcat, Zenon
  <1>2. i \o (o \o r) \in Seq(Nat)
    BY <1>1, NatsConcat, Zenon
  <1>3. t \o (i \o (o \o r)) \in Seq(Nat)
    BY <1>2, NatsConcat, Zenon
  <1>4. QED
    BY <1>1, <1>2, <1>3 DEF Joined

\* A piece that moves from one ring to the next stays where it is in the queue.
PieceMoves(t, i, o, r, x) ==
  /\ Joined(t, i, o \o x, r) = Joined(t, i, o, x \o r)
  /\ Joined(t, i \o x, o, r) = Joined(t, i, x \o o, r)
  /\ Joined(t \o x, i, o, r) = Joined(t, x \o i, o, r)
  /\ Joined(t \o x, <<>>, <<>>, r) = Joined(t, <<>>, <<>>, x \o r)

LEMMA PiecesMove ==
  ASSUME NEW t \in Seq(Nat), NEW i \in Seq(Nat), NEW o \in Seq(Nat), NEW r \in Seq(Nat),
         NEW x \in Seq(Nat)
  PROVE  PieceMoves(t, i, o, r, x)
  <1>1. o \o r \in Seq(Nat) /\ x \o r \in Seq(Nat) /\ i \o (o \o r) \in Seq(Nat)
    BY JoinedNats, NatsConcat, Zenon
  <1>2. Associate(o, x, r)
    BY PiecesAssociate
  <1>3. (i \o x) \o (o \o r) = i \o ((x \o o) \o r)
    <2>1. Associate(x, o, r)
      BY PiecesAssociate
    <2>2. Associate(i, x, o \o r)
      BY <1>1, PiecesAssociate
    <2>3. QED
      BY <2>1, <2>2, Zenon DEF Associate
  <1>4. (t \o x) \o (i \o (o \o r)) = t \o ((x \o i) \o (o \o r))
    <2>1. Associate(x, i, o \o r)
      BY <1>1, PiecesAssociate
    <2>2. Associate(t, x, i \o (o \o r))
      BY <1>1, PiecesAssociate
    <2>3. QED
      BY <2>1, <2>2, Zenon DEF Associate
  <1>5. Associate(t, x, r)
    BY PiecesAssociate
  <1>6. <<>> \o (<<>> \o r) = r /\ <<>> \o (<<>> \o (x \o r)) = x \o r
    BY <1>1, NatsConcat, Zenon
  <1>7. QED
    BY <1>2, <1>3, <1>4, <1>5, <1>6, Zenon DEF PieceMoves, Joined, Associate

\* A piece is added at the end, or taken at the front.
PieceComesAndGoes(t, i, o, r, x) ==
  /\ Joined(t, i, o, r \o x) = Joined(t, i, o, r) \o x
  /\ Joined(x \o t, i, o, r) = x \o Joined(t, i, o, r)

LEMMA PiecesComeAndGo ==
  ASSUME NEW t \in Seq(Nat), NEW i \in Seq(Nat), NEW o \in Seq(Nat), NEW r \in Seq(Nat),
         NEW x \in Seq(Nat)
  PROVE  PieceComesAndGoes(t, i, o, r, x)
  <1>1. o \o r \in Seq(Nat) /\ i \o (o \o r) \in Seq(Nat)
    BY JoinedNats, Zenon
  <1>2. Associate(o, r, x)
    BY PiecesAssociate
  <1>3. Associate(i, o \o r, x)
    BY <1>1, PiecesAssociate
  <1>4. Associate(t, i \o (o \o r), x)
    BY <1>1, PiecesAssociate
  <1>5. Associate(x, t, i \o (o \o r))
    BY <1>1, PiecesAssociate
  <1>6. QED
    BY <1>2, <1>3, <1>4, <1>5, Zenon DEF PieceComesAndGoes, Joined, Associate

\* A piece that is at the front of a ring is lost.
PieceLost(t, i, o, r, x) ==
  /\ Lost(Joined(t, i, o, x \o r), Joined(t, i, o, r), x)
  /\ Lost(Joined(t, i, x \o o, r), Joined(t, i, o, r), x)
  /\ Lost(Joined(t, x \o i, o, r), Joined(t, i, o, r), x)

LEMMA PiecesLost ==
  ASSUME NEW t \in Seq(Nat), NEW i \in Seq(Nat), NEW o \in Seq(Nat), NEW r \in Seq(Nat),
         NEW x \in Seq(Nat)
  PROVE  PieceLost(t, i, o, r, x)
  <1>1. ASSUME NEW a \in Seq(Nat) PROVE x \o a \in Seq(Nat) /\ Lost(x \o a, a, x)
    <2>1. x \o a \in Seq(Nat)
      BY NatsConcat, Zenon
    <2>2. QED
      BY <2>1, LostFirst
  <1>2. ASSUME NEW a \in Seq(Nat), NEW b \in Seq(Nat), NEW c \in Seq(Nat), Lost(a, b, x)
        PROVE  c \o a \in Seq(Nat) /\ c \o b \in Seq(Nat) /\ Lost(c \o a, c \o b, x)
    BY <1>2, LostBehind, NatsConcat
  <1>3. ASSUME NEW a \in Seq(Nat), NEW c \in Seq(Nat)
        PROVE  /\ (x \o a) \o c \in Seq(Nat) /\ a \o c \in Seq(Nat)
               /\ Lost((x \o a) \o c, a \o c, x)
    BY <1>1, LostBefore, NatsConcat
  <1>4. Lost(Joined(t, i, o, x \o r), Joined(t, i, o, r), x)
    <2>1. /\ o \o (x \o r) \in Seq(Nat) /\ o \o r \in Seq(Nat)
          /\ Lost(o \o (x \o r), o \o r, x)
      BY <1>1, <1>2
    <2>2. /\ i \o (o \o (x \o r)) \in Seq(Nat) /\ i \o (o \o r) \in Seq(Nat)
          /\ Lost(i \o (o \o (x \o r)), i \o (o \o r), x)
      BY <1>2, <2>1
    <2>3. QED
      BY <1>2, <2>2 DEF Joined
  <1>5. Lost(Joined(t, i, x \o o, r), Joined(t, i, o, r), x)
    <2>1. /\ (x \o o) \o r \in Seq(Nat) /\ o \o r \in Seq(Nat)
          /\ Lost((x \o o) \o r, o \o r, x)
      BY <1>3
    <2>2. /\ i \o ((x \o o) \o r) \in Seq(Nat) /\ i \o (o \o r) \in Seq(Nat)
          /\ Lost(i \o ((x \o o) \o r), i \o (o \o r), x)
      BY <1>2, <2>1
    <2>3. QED
      BY <1>2, <2>2 DEF Joined
  <1>6. Lost(Joined(t, x \o i, o, r), Joined(t, i, o, r), x)
    <2>1. o \o r \in Seq(Nat)
      BY NatsConcat
    <2>2. /\ (x \o i) \o (o \o r) \in Seq(Nat) /\ i \o (o \o r) \in Seq(Nat)
          /\ Lost((x \o i) \o (o \o r), i \o (o \o r), x)
      BY <1>3, <2>1
    <2>3. QED
      BY <1>2, <2>2 DEF Joined
  <1>7. QED
    BY <1>4, <1>5, <1>6 DEF PieceLost

-----------------------------------------------------------------------------
(***************************************************************************)
(* The frames in the rings of one kind, at each port, and the steps of     *)
(* frames from ring to ring.                                               *)
(***************************************************************************)
Views == [Port -> Seq(Frame)]

\* From views F to G, the ring of p loses its first frame, x, or gets x at its end.
Gives(F, G, p, x) ==
  /\ \A q \in Port \ {p} : G[q] = F[q]
  /\ F[p] # <<>> /\ Head(F[p]) = x /\ G[p] = Tail(F[p])
Gets(F, G, p, x) ==
  /\ \A q \in Port \ {p} : G[q] = F[q]
  /\ G[p] = Append(F[p], x)

\* The part of x that concerns flow f if x goes to or from port p, and f to or from a.
Part(f, a, p, x) == IF a = p THEN One(x, f) ELSE <<>>

LEMMA PartTyped ==
  ASSUME NEW f, NEW a, NEW p, NEW x \in Frame
  PROVE  Part(f, a, p, x) \in Seq(Nat) /\ (Part(f, a, p, x) = <<>> \/ Part(f, a, p, x) = <<x.n>>)
  BY OneNumber, EmptySeq DEF Part, One

NumbersGiven(f, a, F, G, p, x) == Numbers(F[a], f) = Part(f, a, p, x) \o Numbers(G[a], f)
NumbersGot(f, a, F, G, p, x) == Numbers(G[a], f) = Numbers(F[a], f) \o Part(f, a, p, x)

LEMMA GivesNumbers ==
  ASSUME NEW F \in Views, NEW G \in Views, NEW p \in Port, NEW x \in Frame, Gives(F, G, p, x),
         NEW f, NEW a \in Port
  PROVE  NumbersGiven(f, a, F, G, p, x)
  <1>1. PICK s \in Seq(Frame) : s = F[a]
    BY DEF Views
  <1>2. CASE a = p
    <2>1. s # <<>> /\ Head(s) = x /\ G[a] = Tail(s)
      BY <1>1, <1>2 DEF Gives
    <2>2. Numbers(s, f) = One(x, f) \o Numbers(G[a], f)
      BY <2>1, NumbersOf
    <2>3. QED
      BY <1>1, <1>2, <2>2 DEF Part, NumbersGiven
  <1>3. CASE a # p
    <2>1. G[a] = s
      BY <1>1, <1>3 DEF Gives
    <2>2. Numbers(s, f) \in Seq(Nat)
      BY NumbersOf
    <2>3. <<>> \o Numbers(s, f) = Numbers(s, f)
      BY <2>2, NatsConcat, Zenon
    <2>4. QED
      BY <1>1, <1>3, <2>1, <2>3, Zenon DEF Part, NumbersGiven
  <1>4. QED
    BY <1>2, <1>3

LEMMA GetsNumbers ==
  ASSUME NEW F \in Views, NEW G \in Views, NEW p \in Port, NEW x \in Frame, Gets(F, G, p, x),
         NEW f, NEW a \in Port
  PROVE  NumbersGot(f, a, F, G, p, x)
  <1>1. PICK s \in Seq(Frame) : s = F[a]
    BY DEF Views
  <1>2. CASE a = p
    <2>1. Numbers(Append(s, x), f) = Numbers(s, f) \o One(x, f)
      BY NumbersAppend
    <2>2. QED
      BY <1>1, <1>2, <2>1 DEF Part, Gets, NumbersGot
  <1>3. CASE a # p
    <2>1. G[a] = s
      BY <1>1, <1>3 DEF Gets
    <2>2. Numbers(s, f) \in Seq(Nat)
      BY NumbersOf
    <2>3. Numbers(s, f) \o <<>> = Numbers(s, f)
      BY <2>2, NatsConcat, Zenon
    <2>4. QED
      BY <1>1, <1>3, <2>1, <2>3, Zenon DEF Part, NumbersGot
  <1>4. QED
    BY <1>2, <1>3

\* What is on the way for flow f, of the frames in the rings T, I, O and R; and
\* the pieces of it: answers do not pass the rings I and O.
Queued(f, T, I, O, R) ==
  IF f[1] = f[2] THEN Numbers(T[f[2]], f) \o Numbers(R[f[1]], f)
  ELSE Numbers(T[f[2]], f) \o Numbers(I[f[2]], f) \o Numbers(O[f[1]], f) \o Numbers(R[f[1]], f)

Through(f, s) == IF f[1] = f[2] THEN <<>> ELSE Numbers(s, f)

InPieces(f, a, b, T, I, O, R) ==
  LET q == Queued(f, T, I, O, R)
  IN /\ q = Joined(Numbers(T[b], f), Through(f, I[b]), Through(f, O[a]), Numbers(R[a], f))
     /\ q \in Seq(Nat)

LEMMA NumbersTyped ==
  ASSUME NEW F \in Views, NEW f, NEW a \in Port
  PROVE  Numbers(F[a], f) \in Seq(Nat) /\ Through(f, F[a]) \in Seq(Nat)
  BY NumbersOf, EmptySeq DEF Views, Through

LEMMA QueuedPieces ==
  ASSUME NEW T \in Views, NEW I \in Views, NEW O \in Views, NEW R \in Views,
         NEW f, NEW a \in Port, NEW b \in Port, a = f[1], b = f[2]
  PROVE  InPieces(f, a, b, T, I, O, R)
  <1>1. PICK t, i, o, r \in Seq(Nat) :
          /\ t = Numbers(T[b], f) /\ i = Through(f, I[b])
          /\ o = Through(f, O[a]) /\ r = Numbers(R[a], f)
    BY NumbersTyped
  <1>2. Joined(t, i, o, r) \in Seq(Nat)
    BY <1>1, JoinedNats
  <1>3. CASE f[1] = f[2]
    <2>1. i = <<>> /\ o = <<>>
      BY <1>1, <1>3 DEF Through
    <2>2. <<>> \o (<<>> \o r) = r
      BY <1>1, NatsConcat, Zenon
    <2>3. t \o r = Joined(t, i, o, r)
      BY <2>1, <2>2, Zenon DEF Joined
    <2>4. Queued(f, T, I, O, R) = t \o r
      BY <1>1, <1>3 DEF Queued
    <2>5. QED
      BY <1>1, <1>2, <2>3, <2>4 DEF InPieces
  <1>4. CASE f[1] # f[2]
    <2>1. ((t \o i) \o o) \o r = Joined(t, i, o, r)
      <3>1. t \o i \in Seq(Nat) /\ o \o r \in Seq(Nat)
        BY <1>1, NatsConcat, Zenon
      <3>2. Associate(t \o i, o, r)
        BY <1>1, <3>1, PiecesAssociate
      <3>3. Associate(t, i, o \o r)
        BY <1>1, <3>1, PiecesAssociate
      <3>4. QED
        BY <3>2, <3>3, Zenon DEF Associate, Joined
    <2>2. i = Numbers(I[b], f) /\ o = Numbers(O[a], f)
      BY <1>1, <1>4 DEF Through
    <2>3. Queued(f, T, I, O, R) = ((t \o i) \o o) \o r
      BY <1>1, <1>4, <2>2 DEF Queued
    <2>4. QED
      BY <1>1, <1>2, <2>1, <2>3 DEF InPieces
  <1>5. QED
    BY <1>3, <1>4

\* A frame that pass has to copy is of another flow than one a driver answers.
LEMMA ThroughOrNot ==
  ASSUME NEW x \in Frame, NEW f \in Flow
  PROVE  (x.kind = "through" <=> f[1] = f[2]) => One(x, f) = <<>>
  <1>1. Other(x.port) # x.port
    BY FrameFields, PortsDiffer
  <1>2. FlowOf(x)[1] = x.port /\ (x.kind = "through" <=> FlowOf(x)[1] # FlowOf(x)[2])
    BY <1>1 DEF FlowOf
  <1>3. QED
    BY <1>2 DEF One

LEMMA FlowEnds == \A f \in Flow : /\ f \in Port \X Port /\ f[1] \in Port /\ f[2] \in Port
                                  /\ \A p \in Port : f[1] # f[2] => (f[1] = p <=> f[2] = Other(p))
  BY OtherPort DEF Flow, Port

ThroughPart(f, a, p, x) == IF f[1] = f[2] THEN <<>> ELSE Part(f, a, p, x)

LEMMA ThroughPartTyped ==
  ASSUME NEW f, NEW a, NEW p, NEW x \in Frame
  PROVE  /\ ThroughPart(f, a, p, x) \in Seq(Nat)
         /\ ThroughPart(f, a, p, x) = <<>> \/ ThroughPart(f, a, p, x) = <<x.n>>
  BY PartTyped, EmptySeq DEF ThroughPart

ThroughGiven(f, a, F, G, p, x) ==
  Through(f, F[a]) = ThroughPart(f, a, p, x) \o Through(f, G[a])
ThroughGot(f, a, F, G, p, x) ==
  Through(f, G[a]) = Through(f, F[a]) \o ThroughPart(f, a, p, x)

LEMMA ThroughNumbers ==
  ASSUME NEW F \in Views, NEW G \in Views, NEW p \in Port, NEW x \in Frame, NEW f, NEW a \in Port
  PROVE  /\ Gives(F, G, p, x) => ThroughGiven(f, a, F, G, p, x)
         /\ Gets(F, G, p, x) => ThroughGot(f, a, F, G, p, x)
  <1>1. <<>> \in Seq(Nat) /\ <<>> \o <<>> = <<>>
    BY EmptySeq, NatsConcat
  <1>2. CASE f[1] = f[2]
    BY <1>1, <1>2 DEF ThroughGiven, ThroughGot, ThroughPart, Through
  <1>3. CASE f[1] # f[2]
    <2>1. Gives(F, G, p, x) => NumbersGiven(f, a, F, G, p, x)
      BY GivesNumbers
    <2>2. Gets(F, G, p, x) => NumbersGot(f, a, F, G, p, x)
      BY GetsNumbers
    <2>3. QED
      BY <1>3, <2>1, <2>2
      DEF ThroughGiven, ThroughGot, ThroughPart, Through, NumbersGiven, NumbersGot
  <1>4. QED
    BY <1>2, <1>3

LEMMA LostIsStep ==
  ASSUME NEW q \in Seq(Nat), NEW q2 \in Seq(Nat), NEW t, NEW n \in Nat, NEW y,
         y = <<>> \/ y = <<n>>, Lost(q, q2, y)
  PROVE  LinkStep(q, t, q2, t)
  <1>1. CASE y = <<n>>
    BY <1>1 DEF LinkStep, Loses
  <1>2. CASE y = <<>>
    <2>1. PICK u, v \in Seq(Nat) : q = u \o (<<>> \o v) /\ q2 = u \o v
      BY <1>2 DEF Lost
    <2>2. <<>> \o v = v
      BY <2>1, NatsConcat, Zenon
    <2>3. q = q2
      BY <2>1, <2>2, Zenon
    <2>4. QED
      BY <2>3 DEF LinkStep
  <1>3. QED
    BY <1>1, <1>2

(***************************************************************************)
(* The steps of FrameLink that the steps of frames are.                    *)
(***************************************************************************)
LinkSteps(T, I, O, R, S, T2, I2, O2, R2, S2) ==
  \A f \in Flow : LinkStep(Queued(f, T, I, O, R), Numbers(S[f[2]], f),
                           Queued(f, T2, I2, O2, R2), Numbers(S2[f[2]], f))

\* A frame is dropped.
LEMMA DropsLink ==
  ASSUME NEW T \in Views, NEW I \in Views, NEW O \in Views, NEW R \in Views, NEW S \in Views,
         NEW G \in Views, NEW p \in Port, NEW x \in Frame
  PROVE  /\ Gives(R, G, p, x) => LinkSteps(T, I, O, R, S, T, I, O, G, S)
         /\ Gives(O, G, p, x) => LinkSteps(T, I, O, R, S, T, I, G, R, S)
         /\ Gives(I, G, p, x) => LinkSteps(T, I, O, R, S, T, G, O, R, S)
  <1> SUFFICES ASSUME NEW f \in Flow, NEW s, s = Numbers(S[f[2]], f),
                      NEW q, q = Queued(f, T, I, O, R)
               PROVE  /\ Gives(R, G, p, x) => LinkStep(q, s, Queued(f, T, I, O, G), s)
                      /\ Gives(O, G, p, x) => LinkStep(q, s, Queued(f, T, I, G, R), s)
                      /\ Gives(I, G, p, x) => LinkStep(q, s, Queued(f, T, G, O, R), s)
    BY DEF LinkSteps
  <1>1. PICK a, b \in Port : a = f[1] /\ b = f[2]
    BY FlowEnds
  <1>2. PICK n \in Nat : n = x.n
    BY FrameFields
  <1> DEFINE t == Numbers(T[b], f)
             i == Through(f, I[b])
             o == Through(f, O[a])
             r == Numbers(R[a], f)
             y == Part(f, a, p, x)
             zo == ThroughPart(f, a, p, x)
             zi == ThroughPart(f, b, p, x)
  <1>3. t \in Seq(Nat) /\ i \in Seq(Nat) /\ o \in Seq(Nat) /\ r \in Seq(Nat)
    BY NumbersTyped
  <1>4. y \in Seq(Nat) /\ (y = <<>> \/ y = <<n>>)
    BY <1>2, PartTyped
  <1>5. zo \in Seq(Nat) /\ (zo = <<>> \/ zo = <<n>>) /\ zi \in Seq(Nat) /\ (zi = <<>> \/ zi = <<n>>)
    BY <1>2, ThroughPartTyped
  <1>6. InPieces(f, a, b, T, I, O, R)
    BY <1>1, QueuedPieces
  <1>7. ASSUME Gives(R, G, p, x) PROVE LinkStep(q, s, Queued(f, T, I, O, G), s)
    <2> DEFINE g == Numbers(G[a], f)
    <2>1. g \in Seq(Nat)
      BY NumbersTyped
    <2>2. InPieces(f, a, b, T, I, O, G)
      BY <1>1, QueuedPieces
    <2>3. NumbersGiven(f, a, R, G, p, x)
      BY <1>7, GivesNumbers
    <2>4. r = y \o g
      BY <2>3 DEF NumbersGiven
    <2>5. PICK q2 : q2 = Queued(f, T, I, O, G)
      OBVIOUS
    <2>6. q = Joined(t, i, o, r) /\ q \in Seq(Nat) /\ q2 = Joined(t, i, o, g) /\ q2 \in Seq(Nat)
      BY <1>6, <2>2, <2>5, Zenon DEF InPieces
    <2> HIDE DEF t, i, o, r, y, zo, zi, g
    <2>7. PieceLost(t, i, o, g, y)
      BY <1>3, <1>4, <1>5, <2>1, PiecesLost
    <2>8. Lost(q, q2, y)
      BY <2>4, <2>6, <2>7, Zenon DEF PieceLost
    <2>9. QED
      BY <1>2, <1>4, <1>5, <2>5, <2>6, <2>8, LostIsStep
  <1>8. ASSUME Gives(O, G, p, x) PROVE LinkStep(q, s, Queued(f, T, I, G, R), s)
    <2> DEFINE g == Through(f, G[a])
    <2>1. g \in Seq(Nat)
      BY NumbersTyped
    <2>2. InPieces(f, a, b, T, I, G, R)
      BY <1>1, QueuedPieces
    <2>3. ThroughGiven(f, a, O, G, p, x)
      BY <1>8, ThroughNumbers
    <2>4. o = zo \o g
      BY <2>3 DEF ThroughGiven
    <2>5. PICK q2 : q2 = Queued(f, T, I, G, R)
      OBVIOUS
    <2>6. q = Joined(t, i, o, r) /\ q \in Seq(Nat) /\ q2 = Joined(t, i, g, r) /\ q2 \in Seq(Nat)
      BY <1>6, <2>2, <2>5, Zenon DEF InPieces
    <2> HIDE DEF t, i, o, r, y, zo, zi, g
    <2>7. PieceLost(t, i, g, r, zo)
      BY <1>3, <1>4, <1>5, <2>1, PiecesLost
    <2>8. Lost(q, q2, zo)
      BY <2>4, <2>6, <2>7, Zenon DEF PieceLost
    <2>9. QED
      BY <1>2, <1>4, <1>5, <2>5, <2>6, <2>8, LostIsStep
  <1>9. ASSUME Gives(I, G, p, x) PROVE LinkStep(q, s, Queued(f, T, G, O, R), s)
    <2> DEFINE g == Through(f, G[b])
    <2>1. g \in Seq(Nat)
      BY NumbersTyped
    <2>2. InPieces(f, a, b, T, G, O, R)
      BY <1>1, QueuedPieces
    <2>3. ThroughGiven(f, b, I, G, p, x)
      BY <1>9, ThroughNumbers
    <2>4. i = zi \o g
      BY <2>3 DEF ThroughGiven
    <2>5. PICK q2 : q2 = Queued(f, T, G, O, R)
      OBVIOUS
    <2>6. q = Joined(t, i, o, r) /\ q \in Seq(Nat) /\ q2 = Joined(t, g, o, r) /\ q2 \in Seq(Nat)
      BY <1>6, <2>2, <2>5, Zenon DEF InPieces
    <2> HIDE DEF t, i, o, r, y, zo, zi, g
    <2>7. PieceLost(t, g, o, r, zi)
      BY <1>3, <1>4, <1>5, <2>1, PiecesLost
    <2>8. Lost(q, q2, zi)
      BY <2>4, <2>6, <2>7, Zenon DEF PieceLost
    <2>9. QED
      BY <1>2, <1>4, <1>5, <2>5, <2>6, <2>8, LostIsStep
  <1>10. QED
    BY <1>7, <1>8, <1>9

\* A frame goes from one ring to the next.
LEMMA MovesLink ==
  ASSUME NEW T \in Views, NEW I \in Views, NEW O \in Views, NEW R \in Views, NEW S \in Views,
         NEW F \in Views, NEW G \in Views, NEW p \in Port, NEW x \in Frame
  PROVE  /\ Gives(R, F, p, x) /\ Gets(O, G, p, x) /\ x.kind = "through"
              => LinkSteps(T, I, O, R, S, T, I, G, F, S)
         /\ Gives(O, F, p, x) /\ Gets(I, G, Other(p), x)
              => LinkSteps(T, I, O, R, S, T, G, F, R, S)
         /\ Gives(I, F, p, x) /\ Gets(T, G, p, x) /\ x.kind = "through"
              => LinkSteps(T, I, O, R, S, G, F, O, R, S)
         /\ Gives(R, F, p, x) /\ Gets(T, G, p, x) /\ x.kind # "through"
              => LinkSteps(T, I, O, R, S, G, I, O, F, S)
  <1> SUFFICES ASSUME NEW f \in Flow, NEW q, q = Queued(f, T, I, O, R)
               PROVE  /\ Gives(R, F, p, x) /\ Gets(O, G, p, x) /\ x.kind = "through"
                           => q = Queued(f, T, I, G, F)
                      /\ Gives(O, F, p, x) /\ Gets(I, G, Other(p), x)
                           => q = Queued(f, T, G, F, R)
                      /\ Gives(I, F, p, x) /\ Gets(T, G, p, x) /\ x.kind = "through"
                           => q = Queued(f, G, F, O, R)
                      /\ Gives(R, F, p, x) /\ Gets(T, G, p, x) /\ x.kind # "through"
                           => q = Queued(f, G, I, O, F)
    BY DEF LinkSteps, LinkStep
  <1>1. PICK a, b \in Port : a = f[1] /\ b = f[2] /\ (a # b => (a = p <=> b = Other(p)))
    BY FlowEnds
  <1>2. (x.kind = "through" <=> a = b) => One(x, f) = <<>>
    BY <1>1, ThroughOrNot
  <1> DEFINE t == Numbers(T[b], f)
             i == Through(f, I[b])
             o == Through(f, O[a])
             r == Numbers(R[a], f)
             y == Part(f, a, p, x)
             w == Part(f, b, p, x)
             z == ThroughPart(f, a, p, x)
  <1>3. t \in Seq(Nat) /\ i \in Seq(Nat) /\ o \in Seq(Nat) /\ r \in Seq(Nat)
    BY NumbersTyped
  <1>4. y \in Seq(Nat) /\ w \in Seq(Nat) /\ z \in Seq(Nat)
    BY PartTyped, ThroughPartTyped
  <1>5. InPieces(f, a, b, T, I, O, R)
    BY <1>1, QueuedPieces
  <1>6. q = Joined(t, i, o, r)
    BY <1>5, Zenon DEF InPieces
  <1>7. ASSUME Gives(R, F, p, x), Gets(O, G, p, x), x.kind = "through"
        PROVE  q = Queued(f, T, I, G, F)
    <2> DEFINE g == Numbers(F[a], f)
    <2>1. g \in Seq(Nat)
      BY NumbersTyped
    <2>2. z = y
      BY <1>1, <1>2, <1>7 DEF ThroughPart, Part
    <2>3. NumbersGiven(f, a, R, F, p, x) /\ ThroughGot(f, a, O, G, p, x)
      BY <1>7, GivesNumbers, ThroughNumbers
    <2>4. r = y \o g /\ Through(f, G[a]) = o \o y
      BY <2>2, <2>3 DEF NumbersGiven, ThroughGot
    <2>5. InPieces(f, a, b, T, I, G, F)
      BY <1>1, QueuedPieces
    <2>6. Queued(f, T, I, G, F) = Joined(t, i, o \o y, g)
      BY <2>4, <2>5, Zenon DEF InPieces
    <2> HIDE DEF t, i, o, r, y, w, z, g
    <2>7. PieceMoves(t, i, o, g, y)
      BY <1>3, <1>4, <2>1, PiecesMove
    <2>8. QED
      BY <1>6, <2>4, <2>6, <2>7, Zenon DEF PieceMoves
  <1>8. ASSUME Gives(O, F, p, x), Gets(I, G, Other(p), x)
        PROVE  q = Queued(f, T, G, F, R)
    <2> DEFINE g == Through(f, F[a])
    <2>1. g \in Seq(Nat)
      BY NumbersTyped
    <2>2. ThroughPart(f, b, Other(p), x) = z
      BY <1>1, <1>2, <1>8 DEF ThroughPart, Part
    <2>3. ThroughGiven(f, a, O, F, p, x) /\ ThroughGot(f, b, I, G, Other(p), x)
      BY <1>8, ThroughNumbers, ThroughNumbers, PortsDiffer
    <2>4. o = z \o g /\ Through(f, G[b]) = i \o z
      BY <2>2, <2>3 DEF ThroughGiven, ThroughGot
    <2>5. InPieces(f, a, b, T, G, F, R)
      BY <1>1, QueuedPieces
    <2>6. Queued(f, T, G, F, R) = Joined(t, i \o z, g, r)
      BY <2>4, <2>5, Zenon DEF InPieces
    <2> HIDE DEF t, i, o, r, y, w, z, g
    <2>7. PieceMoves(t, i, g, r, z)
      BY <1>3, <1>4, <2>1, PiecesMove
    <2>8. QED
      BY <1>6, <2>4, <2>6, <2>7, Zenon DEF PieceMoves
  <1>9. ASSUME Gives(I, F, p, x), Gets(T, G, p, x), x.kind = "through"
        PROVE  q = Queued(f, G, F, O, R)
    <2> DEFINE g == Through(f, F[b])
    <2>1. g \in Seq(Nat)
      BY NumbersTyped
    <2>2. ThroughPart(f, b, p, x) = w
      BY <1>1, <1>2, <1>9 DEF ThroughPart, Part
    <2>3. ThroughGiven(f, b, I, F, p, x) /\ NumbersGot(f, b, T, G, p, x)
      BY <1>9, ThroughNumbers, GetsNumbers
    <2>4. i = w \o g /\ Numbers(G[b], f) = t \o w
      BY <2>2, <2>3 DEF ThroughGiven, NumbersGot
    <2>5. InPieces(f, a, b, G, F, O, R)
      BY <1>1, QueuedPieces
    <2>6. Queued(f, G, F, O, R) = Joined(t \o w, g, o, r)
      BY <2>4, <2>5, Zenon DEF InPieces
    <2> HIDE DEF t, i, o, r, y, w, z, g
    <2>7. PieceMoves(t, g, o, r, w)
      BY <1>3, <1>4, <2>1, PiecesMove
    <2>8. QED
      BY <1>6, <2>4, <2>6, <2>7, Zenon DEF PieceMoves
  <1>10. ASSUME Gives(R, F, p, x), Gets(T, G, p, x), x.kind # "through"
        PROVE  q = Queued(f, G, I, O, F)
    <2> DEFINE g == Numbers(F[a], f)
    <2>1. g \in Seq(Nat)
      BY NumbersTyped
    <2>2. NumbersGiven(f, a, R, F, p, x) /\ NumbersGot(f, b, T, G, p, x)
      BY <1>10, GivesNumbers, GetsNumbers
    <2>3. r = y \o g /\ Numbers(G[b], f) = t \o w
      BY <2>2 DEF NumbersGiven, NumbersGot
    <2>4. InPieces(f, a, b, G, I, O, F)
      BY <1>1, QueuedPieces
    <2>5. Queued(f, G, I, O, F) = Joined(t \o w, i, o, g)
      BY <2>3, <2>4, Zenon DEF InPieces
    <2>6. CASE a = b
      <3>1. i = <<>> /\ o = <<>> /\ w = y
        BY <1>1, <2>6 DEF Through
      <3> HIDE DEF t, i, o, r, y, w, z, g
      <3>2. PieceMoves(t, i, o, g, y)
        BY <1>3, <1>4, <2>1, PiecesMove
      <3>3. QED
        BY <1>6, <2>3, <2>5, <3>1, <3>2, Zenon DEF PieceMoves
    <2>7. CASE a # b
      <3>1. y = <<>> /\ w = <<>>
        BY <1>2, <1>10, <2>7 DEF Part
      <3> HIDE DEF t, i, o, r, y, w, z, g
      <3>2. t \o <<>> = t /\ <<>> \o g = g
        BY <1>3, <2>1, NatsConcat, Zenon
      <3>3. QED
        BY <1>6, <2>3, <2>5, <3>1, <3>2, Zenon
    <2>8. QED
      BY <2>6, <2>7
  <1>11. QED
    BY <1>7, <1>8, <1>9, <1>10

\* A frame leaves.
LEMMA TransmitsLink ==
  ASSUME NEW T \in Views, NEW I \in Views, NEW O \in Views, NEW R \in Views, NEW S \in Views,
         NEW G \in Views, NEW H \in Views, NEW p \in Port, NEW x \in Frame,
         Gives(T, G, p, x), Gets(S, H, p, x)
  PROVE  LinkSteps(T, I, O, R, S, G, I, O, R, H)
  <1> SUFFICES ASSUME NEW f \in Flow, NEW q, q = Queued(f, T, I, O, R)
               PROVE  LinkStep(q, Numbers(S[f[2]], f), Queued(f, G, I, O, R), Numbers(H[f[2]], f))
    BY DEF LinkSteps
  <1>1. PICK a, b \in Port : a = f[1] /\ b = f[2]
    BY FlowEnds
  <1>2. PICK n \in Nat : n = x.n
    BY FrameFields
  <1> DEFINE t == Numbers(T[b], f)
             g == Numbers(G[b], f)
             i == Through(f, I[b])
             o == Through(f, O[a])
             r == Numbers(R[a], f)
             s == Numbers(S[b], f)
             y == Part(f, b, p, x)
  <1>3. /\ t \in Seq(Nat) /\ i \in Seq(Nat) /\ o \in Seq(Nat) /\ r \in Seq(Nat)
        /\ g \in Seq(Nat) /\ s \in Seq(Nat)
    BY NumbersTyped
  <1>4. y \in Seq(Nat) /\ (y = <<>> \/ y = <<n>>)
    BY <1>2, PartTyped
  <1>5. InPieces(f, a, b, T, I, O, R) /\ InPieces(f, a, b, G, I, O, R)
    BY <1>1, QueuedPieces
  <1>6. NumbersGiven(f, b, T, G, p, x) /\ NumbersGot(f, b, S, H, p, x)
    BY GivesNumbers, GetsNumbers
  <1>7. t = y \o g /\ Numbers(H[b], f) = s \o y
    BY <1>6 DEF NumbersGiven, NumbersGot
  <1>8. PICK q2 : q2 = Queued(f, G, I, O, R)
    OBVIOUS
  <1>9. q = Joined(t, i, o, r) /\ q2 = Joined(g, i, o, r) /\ q2 \in Seq(Nat)
    BY <1>5, <1>8, Zenon DEF InPieces
  <1> HIDE DEF t, g, i, o, r, s, y
  <1>10. PieceComesAndGoes(g, i, o, r, y)
    BY <1>3, <1>4, PiecesComeAndGo
  <1>11. q = y \o q2
    BY <1>7, <1>9, <1>10, Zenon DEF PieceComesAndGoes
  <1>12. LinkStep(q, s, q2, s \o y)
    <2>1. CASE y = <<>>
      <3>1. <<>> \o q2 = q2 /\ s \o <<>> = s
        BY <1>3, <1>9, NatsConcat, Zenon
      <3>2. QED
        BY <1>11, <2>1, <3>1, Zenon DEF LinkStep
    <2>2. CASE y = <<n>>
      <3>1. Leaves(q, s, q2, s \o y)
        BY <1>2, <1>11, <2>2, Zenon DEF Leaves
      <3>2. QED
        BY <3>1 DEF LinkStep
    <2>3. QED
      BY <1>4, <2>1, <2>2
  <1>13. QED
    BY <1>1, <1>7, <1>8, <1>12, Zenon DEF s

AllBelow(s, n) == \A i \in DOMAIN s : s[i] < n

LEMMA BelowJoined ==
  ASSUME NEW n \in Nat, NEW t \in Seq(Nat), NEW i \in Seq(Nat), NEW o \in Seq(Nat),
         NEW r \in Seq(Nat), AllBelow(t, n), AllBelow(i, n), AllBelow(o, n), AllBelow(r, n)
  PROVE  AllBelow(Joined(t, i, o, r), n)
  <1>1. ASSUME NEW a \in Seq(Nat), NEW b \in Seq(Nat), AllBelow(a, n), AllBelow(b, n)
        PROVE  a \o b \in Seq(Nat) /\ AllBelow(a \o b, n)
    <2>1. PICK l, m \in Nat : /\ l = Len(a) /\ DOMAIN a = 1 .. l
                              /\ m = Len(b) /\ DOMAIN b = 1 .. m
      OBVIOUS
    <2>2. PICK c \in Seq(Nat) : c = a \o b
      BY NatsConcat
    <2>3. /\ Len(c) = l + m /\ DOMAIN c = 1 .. l + m
          /\ \A k \in 1 .. l : c[k] = a[k]
          /\ \A k \in 1 .. m : c[l + k] = b[k]
      BY <2>1, <2>2, ConcatElements
    <2>4. ASSUME NEW k \in 1 .. l + m PROVE c[k] < n
      <3>1. CASE k <= l
        <4>1. k \in 1 .. l
          BY <3>1
        <4>2. a[k] < n
          BY <1>1, <2>1, <4>1 DEF AllBelow
        <4>3. QED
          BY <2>3, <4>1, <4>2
      <3>2. CASE ~(k <= l)
        <4>1. PICK j \in 1 .. m : k = l + j
          <5>1. k - l \in 1 .. m /\ k = l + (k - l)
            BY <3>2
          <5>2. QED
            BY <5>1
        <4>2. b[j] < n
          BY <1>1, <2>1, <4>1 DEF AllBelow
        <4>3. QED
          BY <2>3, <4>1, <4>2
      <3>3. QED
        BY <3>1, <3>2
    <2>5. AllBelow(c, n)
      BY <2>2, <2>3, <2>4 DEF AllBelow
    <2>6. QED
      BY <2>2, <2>5
  <1>2. o \o r \in Seq(Nat) /\ AllBelow(o \o r, n)
    BY <1>1
  <1>3. i \o (o \o r) \in Seq(Nat) /\ AllBelow(i \o (o \o r), n)
    BY <1>1, <1>2
  <1>4. QED
    BY <1>1, <1>3 DEF Joined

\* In these rings all frames from port p have numbers below n.
Older(F, p, n) == \A q \in Port : \A k \in DOMAIN F[q] : F[q][k].port = p => F[q][k].n < n

LEMMA OlderBelow ==
  ASSUME NEW F \in Views, NEW p \in Port, NEW n \in Nat, Older(F, p, n), NEW f, f[1] = p, NEW a \in Port
  PROVE  AllBelow(Numbers(F[a], f), n) /\ AllBelow(Through(f, F[a]), n)
  <1>1. PICK s \in Seq(Frame) : s = F[a]
    BY DEF Views
  <1>2. ASSUME NEW i \in DOMAIN Numbers(s, f) PROVE Numbers(s, f)[i] < n
    <2>1. PICK k \in DOMAIN s : FlowOf(s[k]) = f /\ Numbers(s, f)[i] = s[k].n
      BY NumbersAre
    <2>2. s[k].port = p
      BY <2>1 DEF FlowOf
    <2>3. QED
      BY <1>1, <2>1, <2>2 DEF Older
  <1>3. AllBelow(Numbers(s, f), n)
    BY <1>2 DEF AllBelow
  <1>4. AllBelow(<<>>, n)
    BY EmptySeq DEF AllBelow
  <1>5. QED
    BY <1>1, <1>3, <1>4 DEF Through

\* A frame arrives, and is newer than all those that arrived at its port.
LEMMA ReceivesLink ==
  ASSUME NEW T \in Views, NEW I \in Views, NEW O \in Views, NEW R \in Views, NEW S \in Views,
         NEW G \in Views, NEW p \in Port, NEW x \in Frame, x.port = p, Gets(R, G, p, x),
         Older(T, p, x.n), Older(I, p, x.n), Older(O, p, x.n), Older(R, p, x.n), Older(S, p, x.n)
  PROVE  LinkSteps(T, I, O, R, S, T, I, O, G, S)
  <1> SUFFICES ASSUME NEW f \in Flow, NEW q, q = Queued(f, T, I, O, R)
               PROVE  LinkStep(q, Numbers(S[f[2]], f), Queued(f, T, I, O, G), Numbers(S[f[2]], f))
    BY DEF LinkSteps
  <1>1. PICK a, b \in Port : a = f[1] /\ b = f[2]
    BY FlowEnds
  <1>2. PICK n \in Nat : n = x.n
    BY FrameFields
  <1> DEFINE t == Numbers(T[b], f)
             i == Through(f, I[b])
             o == Through(f, O[a])
             r == Numbers(R[a], f)
             s == Numbers(S[b], f)
             y == Part(f, a, p, x)
  <1>3. t \in Seq(Nat) /\ i \in Seq(Nat) /\ o \in Seq(Nat) /\ r \in Seq(Nat) /\ s \in Seq(Nat)
    BY NumbersTyped
  <1>4. y \in Seq(Nat) /\ (y = <<>> \/ y = <<n>>)
    BY <1>2, PartTyped
  <1>5. InPieces(f, a, b, T, I, O, R) /\ InPieces(f, a, b, T, I, O, G)
    BY <1>1, QueuedPieces
  <1>6. NumbersGot(f, a, R, G, p, x)
    BY GetsNumbers
  <1>7. Numbers(G[a], f) = r \o y
    BY <1>6 DEF NumbersGot
  <1>8. PICK q2 : q2 = Queued(f, T, I, O, G)
    OBVIOUS
  <1>9. q = Joined(t, i, o, r) /\ q \in Seq(Nat) /\ q2 = Joined(t, i, o, r \o y)
    BY <1>5, <1>7, <1>8, Zenon DEF InPieces
  <1>10. y = <<n>> => /\ AllBelow(t, n) /\ AllBelow(i, n) /\ AllBelow(o, n) /\ AllBelow(r, n)
                      /\ AllBelow(s, n)
    <2>1. ASSUME a = p PROVE /\ AllBelow(t, n) /\ AllBelow(i, n) /\ AllBelow(o, n) /\ AllBelow(r, n)
                             /\ AllBelow(s, n)
      BY <1>1, <1>2, <2>1, OlderBelow
    <2>2. a # p => y = <<>>
      BY DEF Part
    <2>3. QED
      BY <2>1, <2>2
  <1> HIDE DEF t, i, o, r, s, y
  <1>11. PieceComesAndGoes(t, i, o, r, y)
    BY <1>3, <1>4, PiecesComeAndGo
  <1>12. q2 = q \o y
    BY <1>9, <1>11, Zenon DEF PieceComesAndGoes
  <1>13. LinkStep(q, s, q2, s)
    <2>1. CASE y = <<>>
      <3>1. q \o <<>> = q
        BY <1>9, NatsConcat, Zenon
      <3>2. QED
        BY <1>12, <2>1, <3>1, Zenon DEF LinkStep
    <2>2. CASE y = <<n>>
      <3>1. AllBelow(q, n) /\ AllBelow(s, n)
        BY <1>2, <1>3, <1>9, <1>10, <2>2, BelowJoined
      <3>2. Arrives(q, s, q2, s)
        BY <1>2, <1>12, <2>2, <3>1, Zenon DEF Arrives, AllBelow
      <3>3. QED
        BY <3>2 DEF LinkStep
    <2>3. QED
      BY <1>4, <2>1, <2>2
  <1>14. QED
    BY <1>1, <1>8, <1>13, Zenon DEF s

-----------------------------------------------------------------------------
(***************************************************************************)
(* What the frames in the slots are, beside the flags.                     *)
(***************************************************************************)
\* A frame that arrived, or memory after boot.
Known(kinds, x) == x.n <= Len(kinds[x.port])
KnownIn(kinds, f, size) == \A p \in Port : \A i \in 0 .. size - 1 : Known(kinds, f[p][i].frame)

KnownInv ==
  /\ KnownIn(arrived, rbd, RBD_COUNT) /\ KnownIn(arrived, tbd, TBD_COUNT)
  /\ KnownIn(arrived, output, BUFFER_MAX) /\ KnownIn(arrived, input, BUFFER_MAX)
  /\ sent \in [Port -> Seq(Frame)]
  /\ \A p \in Port : \A i \in DOMAIN sent[p] : Known(arrived, sent[p][i])

OnlyThrough(f) ==
  \A p \in Port : \A i \in 0 .. BUFFER_MAX - 1 : f[p][i].full => f[p][i].frame.kind = "through"

\* What is copied is still there when the copy is published.
DriverCopied(p) ==
  eth[p].pc = "publish" =>
    Slot(p).frame.kind = "through" /\ output[p][eth[p].output_index].frame = Slot(p).frame
PassCopied ==
  LET to == Other(pass.port)
  IN pass.pc = "publish" =>
       input[to][pass.output_index[to]].frame = output[pass.port][pass.bd].frame

FrameInv ==
  /\ KnownInv
  /\ OnlyThrough(output) /\ OnlyThrough(input)
  /\ \A p \in Port : DriverCopied(p)
  /\ PassCopied

LinkInv == RingInv /\ FrameInv

-----------------------------------------------------------------------------
(***************************************************************************)
(* The frames of a ring that have not been copied to the next one.         *)
(***************************************************************************)
View(ring, size, head, taken) ==
  IF taken THEN Tail(From(ring, size, head)) ELSE From(ring, size, head)

RbdTaken(loc) == loc \in {"notify", "avail", "kick reply"}
InputTaken(loc) == loc \in {"kick input", "free"}
OutputTaken(p) == pass.port = p /\ pass.pc \in {"notify", "free"}

Rbds == [p \in Port |-> View(rbd[p], RBD_COUNT, eth[p].rbd_index, RbdTaken(eth[p].pc))]
Inputs == [p \in Port |-> View(input[p], BUFFER_MAX, eth[p].input_index, InputTaken(eth[p].pc))]
Outputs == [p \in Port |-> View(output[p], BUFFER_MAX, OutputHead(p), OutputTaken(p))]
Tbds == [p \in Port |-> View(tbd[p], TBD_COUNT, nic[p].tx, FALSE)]

LEMMA ViewsOf ==
  ASSUME EthernetTypeOK, NEW p \in Port
  PROVE  /\ AtRbd(p) = Rbds[p] /\ AtInput(p) = Inputs[p]
         /\ AtOutput(p) = Outputs[p] /\ AtTbd(p) = Tbds[p]
  <1>1. AtRbd(p) = Rbds[p] /\ AtInput(p) = Inputs[p]
    BY DEF AtRbd, AtInput, Rbds, Inputs, View, RbdTaken, InputTaken
  <1>2. AtTbd(p) = Tbds[p]
    BY DEF AtTbd, Tbds, View
  <1>3. pass.pc \in PassLocation
    BY StateFields
  <1>4. AtOutput(p) = Outputs[p]
    BY <1>3 DEF AtOutput, Outputs, View, OutputHead, OutputTaken, Copying, PassLocation
  <1>5. QED
    BY <1>1, <1>2, <1>4

LEMMA ViewTyped ==
  ASSUME NEW size \in Nat \ {0}, NEW head \in 0 .. size - 1, NEW ring \in Slots(size),
         NEW taken \in BOOLEAN, taken => ring[head].full
  PROVE  View(ring, size, head, taken) \in Seq(Frame)
  <1>1. PICK s \in Seq(Frame) : s = From(ring, size, head) /\ (ring[head].full => s # <<>>)
    BY FromTyped
  <1>2. taken => Tail(s) \in Seq(Frame)
    BY <1>1, TailShorter
  <1>3. QED
    BY <1>1, <1>2 DEF View

\* The consumer is done with the first frame.
TakesFirst(ring, size, head) ==
  LET s == View(ring, size, head, FALSE)
  IN s # <<>> /\ Head(s) = ring[head].frame /\ View(ring, size, head, TRUE) = Tail(s)

LEMMA ViewTakes ==
  ASSUME NEW size \in Nat \ {0}, NEW head \in 0 .. size - 1, NEW ring \in Slots(size),
         ring[head].full
  PROVE  TakesFirst(ring, size, head)
  BY FromTyped DEF View, TakesFirst

\* From rings f to g, slot i of p becomes what is given.
SetsSlot(f, g, size, p, i, full, x) ==
  /\ g \in [Port -> Slots(size)]
  /\ \A q \in Port \ {p} : g[q] = f[q]
  /\ g[p][i].full = full /\ g[p][i].frame = x
  /\ \A j \in (0 .. size - 1) \ {i} : g[p][j] = f[p][j]

LEMMA SlotWritten ==
  ASSUME NEW size, NEW f \in [Port -> Slots(size)], NEW p \in Port, NEW i \in 0 .. size - 1,
         NEW slot \in SlotState, NEW g, g = [f EXCEPT ![p][i] = slot]
  PROVE  SetsSlot(f, g, size, p, i, slot.full, slot.frame)
  <1> DEFINE e == [f[p] EXCEPT ![i] = slot]
  <1>1. g = [f EXCEPT ![p] = e]
    OBVIOUS
  <1>2. e \in Slots(size) /\ e[i] = slot /\ \A j \in (0 .. size - 1) \ {i} : e[j] = f[p][j]
    BY DEF Slots
  <1> HIDE DEF e
  <1>3. QED
    BY <1>1, <1>2 DEF SetsSlot

LEMMA SlotSet ==
  ASSUME NEW size, NEW f \in [Port -> Slots(size)], NEW p \in Port, NEW i \in 0 .. size - 1, NEW g
  PROVE  /\ \A b \in BOOLEAN :
              g = [f EXCEPT ![p][i].full = b] => SetsSlot(f, g, size, p, i, b, f[p][i].frame)
         /\ \A x \in Frame :
              /\ g = [f EXCEPT ![p][i].frame = x] => SetsSlot(f, g, size, p, i, f[p][i].full, x)
              /\ g = [f EXCEPT ![p][i] = [full |-> TRUE, frame |-> x]]
                   => SetsSlot(f, g, size, p, i, TRUE, x)
  <1>1. f[p][i] \in SlotState
    BY DEF Slots
  <1>2. ASSUME NEW b \in BOOLEAN, g = [f EXCEPT ![p][i].full = b]
        PROVE  SetsSlot(f, g, size, p, i, b, f[p][i].frame)
    <2> DEFINE slot == [f[p][i] EXCEPT !.full = b]
    <2>1. slot \in SlotState /\ slot.full = b /\ slot.frame = f[p][i].frame
      BY <1>1 DEF SlotState
    <2>2. g = [f EXCEPT ![p][i] = slot]
      BY <1>2
    <2> HIDE DEF slot
    <2>3. SetsSlot(f, g, size, p, i, slot.full, slot.frame)
      BY <2>1, <2>2, SlotWritten
    <2>4. QED
      BY <2>1, <2>3, Zenon
  <1>3. ASSUME NEW x \in Frame, g = [f EXCEPT ![p][i].frame = x]
        PROVE  SetsSlot(f, g, size, p, i, f[p][i].full, x)
    <2> DEFINE slot == [f[p][i] EXCEPT !.frame = x]
    <2>1. slot \in SlotState /\ slot.full = f[p][i].full /\ slot.frame = x
      BY <1>1 DEF SlotState
    <2>2. g = [f EXCEPT ![p][i] = slot]
      BY <1>3
    <2> HIDE DEF slot
    <2>3. SetsSlot(f, g, size, p, i, slot.full, slot.frame)
      BY <2>1, <2>2, SlotWritten
    <2>4. QED
      BY <2>1, <2>3, Zenon
  <1>4. ASSUME NEW x \in Frame, g = [f EXCEPT ![p][i] = [full |-> TRUE, frame |-> x]]
        PROVE  SetsSlot(f, g, size, p, i, TRUE, x)
    <2> DEFINE slot == [full |-> TRUE, frame |-> x]
    <2>1. slot \in SlotState /\ slot.full = TRUE /\ slot.frame = x
      BY DEF SlotState
    <2>2. g = [f EXCEPT ![p][i] = slot]
      BY <1>4
    <2> HIDE DEF slot
    <2>3. SetsSlot(f, g, size, p, i, slot.full, slot.frame)
      BY <2>1, <2>2, SlotWritten
    <2>4. QED
      BY <2>1, <2>3, Zenon
  <1>5. QED
    BY <1>2, <1>3, <1>4

\* A frame is written into an empty slot.
Shows(f, g, size, p, head, taken) == View(g[p], size, head, taken) = View(f[p], size, head, taken)

LEMMA ViewKept ==
  ASSUME NEW size \in Nat \ {0}, NEW head \in 0 .. size - 1, NEW f \in [Port -> Slots(size)],
         NEW g, NEW p \in Port, NEW i \in 0 .. size - 1, NEW x,
         SetsSlot(f, g, size, p, i, f[p][i].full, x), ~f[p][i].full, NEW taken
  PROVE  Shows(f, g, size, p, head, taken)
  <1>1. \A k \in 0 .. size - 1 : /\ g[p][k].full = f[p][k].full
                                 /\ f[p][k].full => g[p][k].frame = f[p][k].frame
    BY DEF SetsSlot
  <1>2. From(g[p], size, head) = From(f[p], size, head)
    BY <1>1, FromSame
  <1>3. QED
    BY <1>2 DEF View, Shows

\* The producer fills its slot.
Fills(f, g, size, p, head, taken, x) ==
  View(g[p], size, head, taken) = Append(View(f[p], size, head, taken), x)

LEMMA ViewFilled ==
  ASSUME NEW size \in Nat \ {0}, NEW head \in 0 .. size - 1, NEW f \in [Port -> Slots(size)],
         NEW g, NEW p \in Port, NEW i \in 0 .. size - 1, NEW x \in Frame,
         SetsSlot(f, g, size, p, i, TRUE, x), Ring(f[p], size, head, i), ~f[p][i].full,
         NEW taken, taken => f[p][head].full
  PROVE  Fills(f, g, size, p, head, taken, x)
  <1>1. PICK r, n \in Slots(size) : r = f[p] /\ n = g[p]
    BY DEF SetsSlot
  <1>2. n[i].full /\ n[i].frame = x /\ \A k \in (0 .. size - 1) \ {i} : n[k] = r[k]
    BY <1>1 DEF SetsSlot
  <1>3. From(n, size, head) = Append(From(r, size, head), x)
    BY <1>1, <1>2, FromFilled
  <1>4. PICK s \in Seq(Frame) : s = From(r, size, head) /\ (r[head].full => s # <<>>)
    BY <1>1, FromTyped
  <1>5. taken => Tail(Append(s, x)) = Append(Tail(s), x)
    BY <1>1, <1>4, HeadTailAppend
  <1>6. QED
    BY <1>1, <1>3, <1>4, <1>5 DEF View, Fills

\* The consumer clears the flag of its slot and moves on.
Empties(f, g, size, p, head) ==
  View(g[p], size, After(head, size), FALSE) = View(f[p], size, head, TRUE)

LEMMA ViewEmptied ==
  ASSUME NEW size \in Nat \ {0}, NEW head \in 0 .. size - 1, NEW f \in [Port -> Slots(size)],
         NEW g, NEW p \in Port, NEW x, SetsSlot(f, g, size, p, head, FALSE, x), f[p][head].full
  PROVE  Empties(f, g, size, p, head)
  <1>1. PICK r, n \in Slots(size) : r = f[p] /\ n = g[p]
    BY DEF SetsSlot
  <1>2. ~n[head].full /\ \A k \in (0 .. size - 1) \ {head} : n[k] = r[k]
    BY <1>1 DEF SetsSlot
  <1>3. From(n, size, After(head, size)) = Tail(From(r, size, head))
    BY <1>1, <1>2, FromEmptied
  <1>4. QED
    BY <1>1, <1>3 DEF View, Empties

\* What the flags say of the rings.
LEMMA ViewsTyped ==
  ASSUME RingInv
  PROVE  Rbds \in Views /\ Inputs \in Views /\ Outputs \in Views /\ Tbds \in Views
  <1> SUFFICES ASSUME NEW p \in Port
               PROVE  /\ Rbds[p] \in Seq(Frame) /\ Inputs[p] \in Seq(Frame)
                      /\ Outputs[p] \in Seq(Frame) /\ Tbds[p] \in Seq(Frame)
    BY DEF Views, Rbds, Inputs, Outputs, Tbds
  <1>1. EthernetTypeOK /\ DriverHolds(p) /\ PassHolds(p)
    BY DEF RingInv
  <1>2. /\ rbd[p] \in Slots(RBD_COUNT) /\ tbd[p] \in Slots(TBD_COUNT)
        /\ input[p] \in Slots(BUFFER_MAX) /\ output[p] \in Slots(BUFFER_MAX)
    BY <1>1 DEF EthernetTypeOK
  <1>3. Rbds[p] \in Seq(Frame)
    <2>1. RbdTaken(eth[p].pc) => rbd[p][eth[p].rbd_index].full
      BY <1>1 DEF DriverHolds, Slot, RbdTaken
    <2>2. RbdTaken(eth[p].pc) \in BOOLEAN
      BY DEF RbdTaken
    <2>3. QED
      BY <1>1, <1>2, <2>1, <2>2, StateFields, Sizes, ViewTyped DEF Rbds
  <1>4. Inputs[p] \in Seq(Frame)
    <2>1. InputTaken(eth[p].pc) => input[p][eth[p].input_index].full
      BY <1>1 DEF DriverHolds, InputTaken
    <2>2. InputTaken(eth[p].pc) \in BOOLEAN
      BY DEF InputTaken
    <2>3. QED
      BY <1>1, <1>2, <2>1, <2>2, StateFields, Sizes, ViewTyped DEF Inputs
  <1>5. Outputs[p] \in Seq(Frame)
    <2>1. OutputTaken(p) => output[p][OutputHead(p)].full
      BY <1>1 DEF PassHolds, OutputTaken, OutputHead, Copying
    <2>2. OutputTaken(p) \in BOOLEAN /\ OutputHead(p) \in 0 .. BUFFER_MAX - 1
      BY <1>1, StateFields DEF OutputTaken, OutputHead
    <2>3. QED
      BY <1>2, <2>1, <2>2, Sizes, ViewTyped DEF Outputs
  <1>6. Tbds[p] \in Seq(Frame)
    BY <1>1, <1>2, StateFields, Sizes, ViewTyped DEF Tbds
  <1>7. QED
    BY <1>3, <1>4, <1>5, <1>6

-----------------------------------------------------------------------------
(***************************************************************************)
(* What a step does to the views.                                          *)
(***************************************************************************)
FlowStep == LinkSteps(Tbds, Inputs, Outputs, Rbds, sent, Tbds', Inputs', Outputs', Rbds', sent')

LEMMA NothingFlows ==
  ASSUME UNCHANGED <<Tbds, Inputs, Outputs, Rbds, sent>> PROVE FlowStep
  BY DEF FlowStep, LinkSteps, LinkStep

\* A driver goes to loc, and its receive ring and its position there stay.
LEMMA RbdsKept ==
  ASSUME NEW p \in Port, NEW loc, NEW t, NEW o, NEW i,
         DriverMoves(eth, eth', p, loc, eth[p].rbd_index, t, o, i), rbd' = rbd,
         RbdTaken(loc) <=> RbdTaken(eth[p].pc)
  PROVE  Rbds' = Rbds
  <1>1. ASSUME NEW q \in Port
        PROVE  /\ eth'[q].rbd_index = eth[q].rbd_index
               /\ RbdTaken(eth'[q].pc) <=> RbdTaken(eth[q].pc)
    BY DEF DriverMoves
  <1>2. QED
    BY <1>1 DEF Rbds, View

LEMMA RbdsGiven ==
  ASSUME RingInv, NEW p \in Port, NEW loc, NEW t, NEW o, NEW i,
         DriverMoves(eth, eth', p, loc, eth[p].rbd_index, t, o, i), rbd' = rbd,
         ~RbdTaken(eth[p].pc), RbdTaken(loc), Slot(p).full
  PROVE  Gives(Rbds, Rbds', p, Slot(p).frame)
  <1>1. ASSUME NEW q \in Port, q # p PROVE Rbds'[q] = Rbds[q]
    BY <1>1 DEF DriverMoves, Rbds
  <1>2. PICK ring \in Slots(RBD_COUNT), head \in 0 .. RBD_COUNT - 1 :
          ring = rbd[p] /\ head = eth[p].rbd_index
    BY StateFields DEF RingInv, EthernetTypeOK
  <1>3. /\ Rbds[p] = View(ring, RBD_COUNT, head, FALSE)
        /\ Rbds'[p] = View(ring, RBD_COUNT, head, TRUE)
    BY <1>2 DEF DriverMoves, Rbds, View
  <1>4. ring[head].full /\ ring[head].frame = Slot(p).frame
    BY <1>2 DEF Slot
  <1>5. TakesFirst(ring, RBD_COUNT, head)
    BY <1>4, Sizes, ViewTakes
  <1>6. QED
    BY <1>1, <1>3, <1>4, <1>5 DEF Gives, TakesFirst

LEMMA RbdsFreed ==
  ASSUME RingInv, NEW p \in Port, NEW loc, NEW t, NEW o, NEW i, NEW x,
         DriverMoves(eth, eth', p, loc, After(eth[p].rbd_index, RBD_COUNT), t, o, i),
         SetsSlot(rbd, rbd', RBD_COUNT, p, eth[p].rbd_index, FALSE, x),
         RbdTaken(eth[p].pc), ~RbdTaken(loc), Slot(p).full
  PROVE  Rbds' = Rbds
  <1>1. ASSUME NEW q \in Port, q # p PROVE Rbds'[q] = Rbds[q]
    BY <1>1 DEF DriverMoves, SetsSlot, Rbds
  <1>2. PICK head \in 0 .. RBD_COUNT - 1 : head = eth[p].rbd_index
    BY StateFields DEF RingInv
  <1>3. /\ Rbds[p] = View(rbd[p], RBD_COUNT, head, TRUE)
        /\ Rbds'[p] = View(rbd'[p], RBD_COUNT, After(head, RBD_COUNT), FALSE)
    BY <1>2 DEF DriverMoves, Rbds, View
  <1>4. /\ rbd[p][head].full /\ rbd \in [Port -> Slots(RBD_COUNT)]
        /\ SetsSlot(rbd, rbd', RBD_COUNT, p, head, FALSE, x)
    BY <1>2 DEF Slot, RingInv, EthernetTypeOK
  <1>5. Empties(rbd, rbd', RBD_COUNT, p, head)
    BY <1>2, <1>4, Sizes, ViewEmptied
  <1>6. Rbds'[p] = Rbds[p]
    BY <1>3, <1>5 DEF Empties
  <1>7. QED
    BY <1>1, <1>6 DEF Rbds

LEMMA RbdsGot ==
  ASSUME RingInv, NEW p \in Port, NEW x \in Frame, eth' = eth, ~rbd[p][nic[p].rx].full,
         SetsSlot(rbd, rbd', RBD_COUNT, p, nic[p].rx, TRUE, x)
  PROVE  Gets(Rbds, Rbds', p, x)
  <1>1. ASSUME NEW q \in Port, q # p PROVE Rbds'[q] = Rbds[q]
    BY <1>1 DEF SetsSlot, Rbds
  <1>2. PICK head \in 0 .. RBD_COUNT - 1, tail \in 0 .. RBD_COUNT - 1 :
          head = eth[p].rbd_index /\ tail = nic[p].rx
    BY StateFields DEF RingInv
  <1>3. PICK taken \in BOOLEAN : taken <=> RbdTaken(eth[p].pc)
    BY RbdTaken(eth[p].pc) \in BOOLEAN DEF RbdTaken
  <1>4. taken => rbd[p][head].full
    BY <1>2, <1>3 DEF RingInv, DriverHolds, Slot, RbdTaken
  <1>5. /\ Ring(rbd[p], RBD_COUNT, head, tail) /\ rbd \in [Port -> Slots(RBD_COUNT)]
        /\ SetsSlot(rbd, rbd', RBD_COUNT, p, tail, TRUE, x) /\ ~rbd[p][tail].full
    BY <1>2 DEF RingInv, Rings, EthernetTypeOK
  <1>6. Fills(rbd, rbd', RBD_COUNT, p, head, taken, x)
    BY <1>2, <1>4, <1>5, Sizes, ViewFilled
  <1>7. Rbds'[p] = Append(Rbds[p], x)
    BY <1>2, <1>3, <1>6 DEF Rbds, View, Fills
  <1>8. QED
    BY <1>1, <1>7 DEF Gets

\* The same of the ring from pass, and of the transmit ring.
LEMMA InputsKept ==
  ASSUME NEW p \in Port, NEW loc, NEW r, NEW t, NEW o,
         DriverMoves(eth, eth', p, loc, r, t, o, eth[p].input_index), input' = input,
         InputTaken(loc) <=> InputTaken(eth[p].pc)
  PROVE  Inputs' = Inputs
  <1>1. ASSUME NEW q \in Port
        PROVE  /\ eth'[q].input_index = eth[q].input_index
               /\ InputTaken(eth'[q].pc) <=> InputTaken(eth[q].pc)
    BY DEF DriverMoves
  <1>2. QED
    BY <1>1 DEF Inputs, View

LEMMA InputsGiven ==
  ASSUME RingInv, NEW p \in Port, NEW loc, NEW r, NEW t, NEW o,
         DriverMoves(eth, eth', p, loc, r, t, o, eth[p].input_index), input' = input,
         ~InputTaken(eth[p].pc), InputTaken(loc), input[p][eth[p].input_index].full
  PROVE  Gives(Inputs, Inputs', p, input[p][eth[p].input_index].frame)
  <1>1. ASSUME NEW q \in Port, q # p PROVE Inputs'[q] = Inputs[q]
    BY <1>1 DEF DriverMoves, Inputs
  <1>2. PICK ring \in Slots(BUFFER_MAX), head \in 0 .. BUFFER_MAX - 1 :
          ring = input[p] /\ head = eth[p].input_index
    BY StateFields DEF RingInv, EthernetTypeOK
  <1>3. /\ Inputs[p] = View(ring, BUFFER_MAX, head, FALSE)
        /\ Inputs'[p] = View(ring, BUFFER_MAX, head, TRUE)
    BY <1>2 DEF DriverMoves, Inputs, View
  <1>4. ring[head].full /\ ring[head].frame = input[p][eth[p].input_index].frame
    BY <1>2
  <1>5. TakesFirst(ring, BUFFER_MAX, head)
    BY <1>4, Sizes, ViewTakes
  <1>6. QED
    BY <1>1, <1>3, <1>4, <1>5 DEF Gives, TakesFirst

LEMMA InputsFreed ==
  ASSUME RingInv, NEW p \in Port, NEW loc, NEW r, NEW t, NEW o, NEW x,
         DriverMoves(eth, eth', p, loc, r, t, o, After(eth[p].input_index, BUFFER_MAX)),
         SetsSlot(input, input', BUFFER_MAX, p, eth[p].input_index, FALSE, x),
         InputTaken(eth[p].pc), ~InputTaken(loc), input[p][eth[p].input_index].full
  PROVE  Inputs' = Inputs
  <1>1. ASSUME NEW q \in Port, q # p PROVE Inputs'[q] = Inputs[q]
    BY <1>1 DEF DriverMoves, SetsSlot, Inputs
  <1>2. PICK head \in 0 .. BUFFER_MAX - 1 : head = eth[p].input_index
    BY StateFields DEF RingInv
  <1>3. /\ Inputs[p] = View(input[p], BUFFER_MAX, head, TRUE)
        /\ Inputs'[p] = View(input'[p], BUFFER_MAX, After(head, BUFFER_MAX), FALSE)
    BY <1>2 DEF DriverMoves, Inputs, View
  <1>4. /\ input[p][head].full /\ input \in [Port -> Slots(BUFFER_MAX)]
        /\ SetsSlot(input, input', BUFFER_MAX, p, head, FALSE, x)
    BY <1>2 DEF RingInv, EthernetTypeOK
  <1>5. Empties(input, input', BUFFER_MAX, p, head)
    BY <1>2, <1>4, Sizes, ViewEmptied
  <1>6. Inputs'[p] = Inputs[p]
    BY <1>3, <1>5 DEF Empties
  <1>7. QED
    BY <1>1, <1>6 DEF Inputs

\* pass writes into an empty slot, or publishes it.
LEMMA InputsWritten ==
  ASSUME RingInv, NEW p \in Port, NEW i \in 0 .. BUFFER_MAX - 1, NEW x, eth' = eth, ~input[p][i].full,
         SetsSlot(input, input', BUFFER_MAX, p, i, input[p][i].full, x)
  PROVE  Inputs' = Inputs
  <1>1. ASSUME NEW q \in Port, q # p PROVE Inputs'[q] = Inputs[q]
    BY <1>1 DEF SetsSlot, Inputs
  <1>2. PICK head \in 0 .. BUFFER_MAX - 1 : head = eth[p].input_index
    BY StateFields DEF RingInv
  <1>3. input \in [Port -> Slots(BUFFER_MAX)]
    BY DEF RingInv, EthernetTypeOK
  <1>4. Shows(input, input', BUFFER_MAX, p, head, InputTaken(eth[p].pc))
    BY <1>2, <1>3, Sizes, ViewKept
  <1>5. Inputs'[p] = Inputs[p]
    BY <1>2, <1>4 DEF Inputs, Shows
  <1>6. QED
    BY <1>1, <1>5 DEF Inputs

LEMMA InputsGot ==
  ASSUME RingInv, NEW p \in Port, NEW tail \in 0 .. BUFFER_MAX - 1, NEW x \in Frame,
         eth' = eth, tail = InputTail(p), ~input[p][tail].full,
         SetsSlot(input, input', BUFFER_MAX, p, tail, TRUE, x)
  PROVE  Gets(Inputs, Inputs', p, x)
  <1>1. ASSUME NEW q \in Port, q # p PROVE Inputs'[q] = Inputs[q]
    BY <1>1 DEF SetsSlot, Inputs
  <1>2. PICK head \in 0 .. BUFFER_MAX - 1 : head = eth[p].input_index
    BY StateFields DEF RingInv
  <1>3. PICK taken \in BOOLEAN : taken <=> InputTaken(eth[p].pc)
    BY InputTaken(eth[p].pc) \in BOOLEAN DEF InputTaken
  <1>4. taken => input[p][head].full
    BY <1>2, <1>3 DEF RingInv, DriverHolds, InputTaken
  <1>5. /\ Ring(input[p], BUFFER_MAX, head, tail) /\ input \in [Port -> Slots(BUFFER_MAX)]
        /\ SetsSlot(input, input', BUFFER_MAX, p, tail, TRUE, x)
    BY <1>2 DEF RingInv, Rings, EthernetTypeOK
  <1>6. Fills(input, input', BUFFER_MAX, p, head, taken, x)
    BY <1>2, <1>4, <1>5, Sizes, ViewFilled
  <1>7. Inputs'[p] = Append(Inputs[p], x)
    BY <1>2, <1>3, <1>6 DEF Inputs, View, Fills
  <1>8. QED
    BY <1>1, <1>7 DEF Gets

LEMMA TbdsGot ==
  ASSUME RingInv, NEW p \in Port, NEW tail \in 0 .. TBD_COUNT - 1, NEW x \in Frame,
         nic' = nic, tail = TbdTail(p), ~tbd[p][tail].full,
         SetsSlot(tbd, tbd', TBD_COUNT, p, tail, TRUE, x)
  PROVE  Gets(Tbds, Tbds', p, x)
  <1>1. ASSUME NEW q \in Port, q # p PROVE Tbds'[q] = Tbds[q]
    BY <1>1 DEF SetsSlot, Tbds
  <1>2. PICK head \in 0 .. TBD_COUNT - 1 : head = nic[p].tx
    BY StateFields DEF RingInv
  <1>3. /\ Ring(tbd[p], TBD_COUNT, head, tail) /\ tbd \in [Port -> Slots(TBD_COUNT)]
        /\ SetsSlot(tbd, tbd', TBD_COUNT, p, tail, TRUE, x)
    BY <1>2 DEF RingInv, Rings, EthernetTypeOK
  <1>4. Fills(tbd, tbd', TBD_COUNT, p, head, FALSE, x)
    BY <1>2, <1>3, Sizes, ViewFilled
  <1>5. Tbds'[p] = Append(Tbds[p], x)
    BY <1>2, <1>4 DEF Tbds, Fills
  <1>6. QED
    BY <1>1, <1>5 DEF Gets

LEMMA TbdsGiven ==
  ASSUME RingInv, NEW p \in Port, NEW x, tbd[p][nic[p].tx].full,
         NicMoves(nic, nic', p, nic[p].rx, After(nic[p].tx, TBD_COUNT)),
         SetsSlot(tbd, tbd', TBD_COUNT, p, nic[p].tx, FALSE, x)
  PROVE  Gives(Tbds, Tbds', p, tbd[p][nic[p].tx].frame)
  <1>1. ASSUME NEW q \in Port, q # p PROVE Tbds'[q] = Tbds[q]
    BY <1>1 DEF NicMoves, SetsSlot, Tbds
  <1>2. PICK head \in 0 .. TBD_COUNT - 1 : head = nic[p].tx
    BY StateFields DEF RingInv
  <1>3. /\ tbd[p][head].full /\ tbd \in [Port -> Slots(TBD_COUNT)] /\ tbd[p] \in Slots(TBD_COUNT)
        /\ SetsSlot(tbd, tbd', TBD_COUNT, p, head, FALSE, x)
    BY <1>2 DEF RingInv, EthernetTypeOK
  <1>4. Empties(tbd, tbd', TBD_COUNT, p, head)
    BY <1>2, <1>3, Sizes, ViewEmptied
  <1>5. /\ Tbds[p] = View(tbd[p], TBD_COUNT, head, FALSE)
        /\ Tbds'[p] = View(tbd[p], TBD_COUNT, head, TRUE)
    BY <1>2, <1>4 DEF NicMoves, Tbds, Empties
  <1>6. TakesFirst(tbd[p], TBD_COUNT, head)
    BY <1>3, Sizes, ViewTakes
  <1>7. QED
    BY <1>1, <1>2, <1>5, <1>6 DEF Gives, TakesFirst

LEMMA TbdsKept ==
  ASSUME tbd' = tbd, \A q \in Port : nic'[q].tx = nic[q].tx PROVE Tbds' = Tbds
  BY DEF Tbds

\* And of the ring to pass.
PassStays ==
  \A q \in Port : OutputHead(q)' = OutputHead(q) /\ (OutputTaken(q)' <=> OutputTaken(q))

LEMMA OutputsKept == ASSUME PassStays, output' = output PROVE Outputs' = Outputs
  BY DEF PassStays, Outputs, View

LEMMA HeldOutput ==
  ASSUME RingInv, NEW p \in Port
  PROVE  /\ OutputHead(p) \in 0 .. BUFFER_MAX - 1
         /\ OutputTaken(p) \in BOOLEAN /\ (OutputTaken(p) => output[p][OutputHead(p)].full)
         /\ output \in [Port -> Slots(BUFFER_MAX)]
         /\ Ring(output[p], BUFFER_MAX, OutputHead(p), eth[p].output_index)
  <1>1. EthernetTypeOK /\ Rings(p) /\ PassHolds(p)
    BY DEF RingInv
  <1>2. OutputHead(p) \in 0 .. BUFFER_MAX - 1
    BY <1>1, StateFields DEF OutputHead
  <1>3. OutputTaken(p) => output[p][OutputHead(p)].full
    BY <1>1 DEF PassHolds, OutputTaken, OutputHead, Copying
  <1>4. QED
    BY <1>1, <1>2, <1>3 DEF OutputTaken, EthernetTypeOK, Rings

LEMMA OutputsWritten ==
  ASSUME RingInv, PassStays, NEW p \in Port, NEW i \in 0 .. BUFFER_MAX - 1, NEW x,
         ~output[p][i].full, SetsSlot(output, output', BUFFER_MAX, p, i, output[p][i].full, x)
  PROVE  Outputs' = Outputs
  <1>1. ASSUME NEW q \in Port, q # p PROVE Outputs'[q] = Outputs[q]
    BY <1>1 DEF SetsSlot, Outputs, PassStays, View
  <1>2. PICK head \in 0 .. BUFFER_MAX - 1 : head = OutputHead(p) /\ output \in [Port -> Slots(BUFFER_MAX)]
    BY HeldOutput
  <1>3. Shows(output, output', BUFFER_MAX, p, head, OutputTaken(p))
    BY <1>2, Sizes, ViewKept
  <1>4. Outputs'[p] = Outputs[p]
    BY <1>2, <1>3 DEF Outputs, Shows, PassStays, View
  <1>5. QED
    BY <1>1, <1>4 DEF Outputs

LEMMA OutputsGot ==
  ASSUME RingInv, PassStays, NEW p \in Port, NEW tail \in 0 .. BUFFER_MAX - 1, NEW x \in Frame,
         tail = eth[p].output_index, ~output[p][tail].full,
         SetsSlot(output, output', BUFFER_MAX, p, tail, TRUE, x)
  PROVE  Gets(Outputs, Outputs', p, x)
  <1>1. ASSUME NEW q \in Port, q # p PROVE Outputs'[q] = Outputs[q]
    BY <1>1 DEF SetsSlot, Outputs, PassStays, View
  <1>2. PICK head \in 0 .. BUFFER_MAX - 1, taken \in BOOLEAN :
          /\ head = OutputHead(p) /\ (taken <=> OutputTaken(p)) /\ (taken => output[p][head].full)
          /\ output \in [Port -> Slots(BUFFER_MAX)] /\ Ring(output[p], BUFFER_MAX, head, tail)
    BY HeldOutput
  <1>3. Fills(output, output', BUFFER_MAX, p, head, taken, x)
    BY <1>2, Sizes, ViewFilled
  <1>4. Outputs'[p] = Append(Outputs[p], x)
    BY <1>2, <1>3 DEF Outputs, Fills, PassStays, View
  <1>5. QED
    BY <1>1, <1>4 DEF Gets

LEMMA OutputsGiven ==
  ASSUME RingInv, NEW p \in Port, output' = output, ~OutputTaken(p), OutputTaken(p)',
         \A q \in Port : /\ OutputHead(q)' = OutputHead(q)
                         /\ q # p => (OutputTaken(q)' <=> OutputTaken(q)),
         output[p][OutputHead(p)].full
  PROVE  Gives(Outputs, Outputs', p, output[p][OutputHead(p)].frame)
  <1>1. ASSUME NEW q \in Port, q # p PROVE Outputs'[q] = Outputs[q]
    BY <1>1 DEF Outputs, View
  <1>2. PICK ring \in Slots(BUFFER_MAX), head \in 0 .. BUFFER_MAX - 1 :
          ring = output[p] /\ head = OutputHead(p)
    BY HeldOutput
  <1>3. /\ Outputs[p] = View(ring, BUFFER_MAX, head, FALSE)
        /\ Outputs'[p] = View(ring, BUFFER_MAX, head, TRUE)
    BY <1>2 DEF Outputs, View
  <1>4. ring[head].full
    BY <1>2
  <1>5. TakesFirst(ring, BUFFER_MAX, head)
    BY <1>4, Sizes, ViewTakes
  <1>6. QED
    BY <1>1, <1>2, <1>3, <1>5 DEF Gives, TakesFirst

LEMMA OutputsFreed ==
  ASSUME RingInv, NEW p \in Port, NEW x, OutputTaken(p), ~OutputTaken(p)',
         OutputHead(p)' = After(OutputHead(p), BUFFER_MAX),
         \A q \in Port : q # p => /\ OutputHead(q)' = OutputHead(q)
                                  /\ OutputTaken(q)' <=> OutputTaken(q),
         SetsSlot(output, output', BUFFER_MAX, p, OutputHead(p), FALSE, x)
  PROVE  Outputs' = Outputs
  <1>1. ASSUME NEW q \in Port, q # p PROVE Outputs'[q] = Outputs[q]
    BY <1>1 DEF Outputs, View, SetsSlot
  <1>2. PICK head \in 0 .. BUFFER_MAX - 1 :
          /\ head = OutputHead(p) /\ output[p][head].full
          /\ output \in [Port -> Slots(BUFFER_MAX)]
          /\ SetsSlot(output, output', BUFFER_MAX, p, head, FALSE, x)
    BY HeldOutput
  <1>3. Empties(output, output', BUFFER_MAX, p, head)
    BY <1>2, Sizes, ViewEmptied
  <1>4. Outputs'[p] = Outputs[p]
    BY <1>2, <1>3 DEF Outputs, Empties, View
  <1>5. QED
    BY <1>1, <1>4 DEF Outputs

-----------------------------------------------------------------------------
(***************************************************************************)
(* What a step does to the frames.                                         *)
(***************************************************************************)
LEMMA KnownSet ==
  ASSUME NEW kinds, NEW size, NEW f, NEW g, NEW p \in Port, NEW i \in 0 .. size - 1, NEW x,
         \/ SetsSlot(f, g, size, p, i, TRUE, x) \/ SetsSlot(f, g, size, p, i, FALSE, x)
         \/ SetsSlot(f, g, size, p, i, f[p][i].full, x),
         KnownIn(kinds, f, size), Known(kinds, x)
  PROVE  KnownIn(kinds, g, size)
  BY DEF SetsSlot, KnownIn, Known

LEMMA ThroughSet ==
  ASSUME NEW f, NEW g, NEW p \in Port, NEW i \in 0 .. BUFFER_MAX - 1, NEW full, NEW x,
         SetsSlot(f, g, BUFFER_MAX, p, i, full, x), OnlyThrough(f), full => x.kind = "through"
  PROVE  OnlyThrough(g)
  BY DEF SetsSlot, OnlyThrough

\* A driver moves and no frame is lost on which another party relies.
LEMMA DriverFrames ==
  ASSUME LinkInv, NEW p \in Port, NEW loc, NEW r, NEW t, NEW o, NEW i,
         DriverMoves(eth, eth', p, loc, r, t, o, i), pass' = pass, KnownInv',
         OnlyThrough(output)', OnlyThrough(input)', loc = "publish" => DriverCopied(p)',
         \A q \in Port : /\ q # p => rbd'[q] = rbd[q] /\ output'[q] = output[q]
                         /\ \A j \in 0 .. BUFFER_MAX - 1 :
                              /\ input'[q][j].frame = input[q][j].frame
                              /\ output[q][j].full => output'[q][j].frame = output[q][j].frame
  PROVE  FrameInv'
  <1>1. /\ EthernetTypeOK /\ PassCopied
        /\ \A q \in Port : DriverCopied(q) /\ PassHolds(q)
    BY DEF LinkInv, RingInv, FrameInv
  <1>2. ASSUME NEW q \in Port PROVE DriverCopied(q)'
    <2>1. CASE q = p
      BY <2>1 DEF DriverMoves, DriverCopied
    <2>2. CASE q # p
      BY <1>1, <2>2 DEF DriverMoves, DriverCopied, Slot
    <2>3. QED
      BY <2>1, <2>2
  <1>3. PassCopied'
    <2>1. CASE pass.pc = "publish"
      <3>1. pass.port \in Port /\ Other(pass.port) \in Port /\ pass.bd \in 0 .. BUFFER_MAX - 1
        BY <1>1, StateFields, PortsDiffer
      <3>2. pass.output_index[Other(pass.port)] \in 0 .. BUFFER_MAX - 1
        BY <1>1, <3>1, StateFields
      <3>3. output[pass.port][pass.bd].full
        BY <1>1, <2>1, <3>1 DEF PassHolds, Copying
      <3>4. QED
        BY <1>1, <3>1, <3>2, <3>3 DEF PassCopied
    <2>2. QED
      BY <2>1 DEF PassCopied
  <1>4. QED
    BY <1>2, <1>3 DEF FrameInv

ViewsAre(T, I, O, R) == T \in Views /\ I \in Views /\ O \in Views /\ R \in Views

LEMMA ViewsOfState == RingInv => ViewsAre(Tbds, Inputs, Outputs, Rbds)
  BY ViewsTyped DEF ViewsAre

LEMMA ViewsOfNext == RingInv' => ViewsAre(Tbds, Inputs, Outputs, Rbds)'
  BY ViewsOfState, PTL

LEMMA SentTyped == LinkInv => sent \in Views
  BY DEF LinkInv, FrameInv, KnownInv, Views

LEMMA FramesKept ==
  ASSUME LinkInv, UNCHANGED <<arrived, sent, rbd, tbd, output, input>>
  PROVE  KnownInv' /\ OnlyThrough(output)' /\ OnlyThrough(input)'
  BY DEF LinkInv, FrameInv, KnownInv

LEMMA SlotFrame ==
  ASSUME NEW size, NEW ring \in Slots(size), NEW i \in 0 .. size - 1
  PROVE  ring[i].frame \in Frame
  BY DEF Slots, SlotState

\* The frames the parties work on.
LEMMA HeldFrames ==
  ASSUME RingInv, NEW p \in Port
  PROVE  /\ Slot(p).frame \in Frame /\ input[p][eth[p].input_index].frame \in Frame
         /\ output[p][eth[p].output_index].frame \in Frame
         /\ tbd[p][nic[p].tx].frame \in Frame
         /\ output[p][OutputHead(p)].frame \in Frame
  <1>1. /\ rbd[p] \in Slots(RBD_COUNT) /\ tbd[p] \in Slots(TBD_COUNT)
        /\ input[p] \in Slots(BUFFER_MAX) /\ output[p] \in Slots(BUFFER_MAX)
        /\ OutputHead(p) \in 0 .. BUFFER_MAX - 1
    BY HeldOutput DEF RingInv, EthernetTypeOK
  <1>2. QED
    BY <1>1, StateFields, SlotFrame DEF Slot, RingInv

LEMMA PassUnmoved == ASSUME pass' = pass PROVE PassStays
  BY DEF PassStays, OutputHead, OutputTaken, Copying

-----------------------------------------------------------------------------
(***************************************************************************)
(* The steps of a driver.                                                  *)
(***************************************************************************)
DriverTo(p, loc, t) ==
  /\ DriverMoves(eth, eth', p, loc, eth[p].rbd_index, t, eth[p].output_index, eth[p].input_index)
  /\ UNCHANGED <<arrived, sent, rbd, tbd, output, input, pass>>
  /\ \A q \in Port : nic'[q].tx = nic[q].tx
  /\ loc # "publish"

LEMMA DriverFrame ==
  ASSUME LinkInv, NEW p \in Port, NEW loc, NEW t, DriverTo(p, loc, t)
  PROVE  FrameInv' /\ Outputs' = Outputs /\ Tbds' = Tbds
  <1>1. KnownInv' /\ OnlyThrough(output)' /\ OnlyThrough(input)'
    BY FramesKept DEF DriverTo
  <1>2. FrameInv'
    BY <1>1, DriverFrames DEF DriverTo
  <1>3. QED
    BY <1>2, PassUnmoved, OutputsKept, TbdsKept DEF DriverTo

LEMMA DriverRests ==
  ASSUME LinkInv, NEW p \in Port, NEW loc, NEW t, DriverTo(p, loc, t),
         RbdTaken(loc) <=> RbdTaken(eth[p].pc), InputTaken(loc) <=> InputTaken(eth[p].pc)
  PROVE  FrameInv' /\ FlowStep
  <1>1. Rbds' = Rbds /\ Inputs' = Inputs
    BY RbdsKept, InputsKept DEF DriverTo
  <1>2. QED
    BY <1>1, DriverFrame, NothingFlows DEF DriverTo

LEMMA DriverDropsReceived ==
  ASSUME LinkInv, RingInv', NEW p \in Port, NEW t, DriverTo(p, "avail", t),
         eth[p].pc = "rx", Slot(p).full
  PROVE  FrameInv' /\ FlowStep
  <1>1. RingInv /\ ~RbdTaken(eth[p].pc) /\ RbdTaken("avail")
    BY DEF RbdTaken, LinkInv
  <1>2. Gives(Rbds, Rbds', p, Slot(p).frame)
    BY <1>1, RbdsGiven DEF DriverTo
  <1>3. Inputs' = Inputs
    BY InputsKept DEF DriverTo, InputTaken
  <1>4. Slot(p).frame \in Frame
    BY <1>1, HeldFrames
  <1>5. ViewsAre(Tbds, Inputs, Outputs, Rbds) /\ Rbds' \in Views /\ sent \in Views
    BY <1>1, ViewsOfState, ViewsOfNext, SentTyped DEF ViewsAre
  <1>6. LinkSteps(Tbds, Inputs, Outputs, Rbds, sent, Tbds, Inputs, Outputs, Rbds', sent)
    BY <1>2, <1>4, <1>5, DropsLink DEF ViewsAre
  <1>7. QED
    BY <1>3, <1>6, DriverFrame DEF FlowStep, DriverTo

LEMMA DriverDropsInput ==
  ASSUME LinkInv, RingInv', NEW p \in Port, NEW t, DriverTo(p, "free", t),
         eth[p].pc = "input", input[p][eth[p].input_index].full
  PROVE  FrameInv' /\ FlowStep
  <1>1. RingInv /\ ~InputTaken(eth[p].pc) /\ InputTaken("free")
    BY DEF InputTaken, LinkInv
  <1>2. Gives(Inputs, Inputs', p, input[p][eth[p].input_index].frame)
    BY <1>1, InputsGiven DEF DriverTo
  <1>3. Rbds' = Rbds
    BY RbdsKept DEF DriverTo, RbdTaken
  <1>4. input[p][eth[p].input_index].frame \in Frame
    BY <1>1, HeldFrames
  <1>5. ViewsAre(Tbds, Inputs, Outputs, Rbds) /\ Inputs' \in Views /\ sent \in Views
    BY <1>1, ViewsOfState, ViewsOfNext, SentTyped DEF ViewsAre
  <1>6. LinkSteps(Tbds, Inputs, Outputs, Rbds, sent, Tbds, Inputs', Outputs, Rbds, sent)
    BY <1>2, <1>4, <1>5, DropsLink DEF ViewsAre
  <1>7. QED
    BY <1>3, <1>6, DriverFrame DEF FlowStep, DriverTo

LEMMA NicHolds ==
  ASSUME NEW p \in Port, NEW rx, NicMoves(nic, nic', p, rx, nic[p].tx)
  PROVE  \A q \in Port : nic'[q].tx = nic[q].tx
  BY DEF NicMoves

LEMMA TurnsLink ==
  ASSUME LinkInv, NEW p \in Port,
         \/ Notified(p) \/ ReadEir(p) \/ ClearEir(p) \/ IrqAck(p) \/ RxDone(p) \/ NotifyPass(p)
         \/ KickRx(p) \/ InputDone(p)
  PROVE  FrameInv' /\ FlowStep
  <1>1. EthernetTypeOK /\ eth \in [Port -> DriverState]
    BY DEF LinkInv, RingInv, EthernetTypeOK
  <1>2. PICK loc \in {"eir", "input", "clear", "rx", "ack", "loop", "avail", "kick"} :
          /\ \/ \E d \in SUBSET Nat : eth' = [eth EXCEPT ![p].todo = d, ![p].pc = loc]
             \/ eth' = [eth EXCEPT ![p].pc = loc]
             \/ eth' = [eth EXCEPT ![p].eir = nic[p].eir, ![p].pc = loc]
          /\ loc = "avail" <=> eth[p].pc = "notify"
          /\ eth[p].pc \in {"loop", "eir", "clear", "ack", "rx", "notify", "kick", "input"}
    <2>1. CASE Notified(p)
      <3>1. pending[p] \in SUBSET Nat /\ eth[p].todo \in SUBSET Nat /\ eth[p].pc = "loop"
        BY <1>1, <2>1, StateFields DEF EthernetTypeOK, Notified, At
      <3>2. PICK d \in SUBSET Nat, loc \in {"eir", "input"} :
              eth' = [eth EXCEPT ![p].todo = d, ![p].pc = loc]
        BY <2>1, <3>1 DEF Notified
      <3>3. QED
        BY <3>1, <3>2
    <2>2. CASE ReadEir(p)
      BY <2>2 DEF ReadEir, At
    <2>3. CASE ClearEir(p) \/ IrqAck(p) \/ RxDone(p) \/ KickRx(p) \/ InputDone(p)
      <3>1. \E loc \in {"rx", "ack", "loop", "kick"} : eth' = [eth EXCEPT ![p].pc = loc]
        BY <2>3 DEF ClearEir, IrqAck, RxDone, KickRx, InputDone
      <3>2. eth[p].pc \in {"clear", "ack", "rx", "kick", "input"}
        BY <2>3 DEF ClearEir, IrqAck, RxDone, KickRx, InputDone, At
      <3>3. QED
        BY <3>1, <3>2
    <2>4. CASE NotifyPass(p)
      BY <2>4 DEF NotifyPass, At
    <2>5. QED
      BY <2>1, <2>2, <2>3, <2>4
  <1>3. DriverMoves(eth, eth', p, loc, eth[p].rbd_index, eth[p].tbd_index,
                    eth[p].output_index, eth[p].input_index)
    <2>1. nic[p].eir \in Causes /\ loc \in DriverLocation
      BY <1>1, <1>2, StateFields DEF DriverLocation
    <2>2. QED
      BY <1>1, <1>2, <2>1, DriverMoved
  <1>4. UNCHANGED <<arrived, sent, rbd, tbd, output, input, pass>>
    BY DEF Notified, ReadEir, ClearEir, IrqAck, RxDone, NotifyPass, KickRx, InputDone, world
  <1>5. \A q \in Port : nic'[q].tx = nic[q].tx
    <2>1. nic[p].eir \ eth[p].eir \in Causes /\ nic \in [Port -> NicState]
      BY <1>1, StateFields DEF Causes, EthernetTypeOK
    <2>2. \/ nic' = nic \/ nic' = [nic EXCEPT ![p].rdar = TRUE]
          \/ nic' = [nic EXCEPT ![p].eir = nic[p].eir \ eth[p].eir]
      BY DEF Notified, ReadEir, ClearEir, IrqAck, RxDone, NotifyPass, KickRx, InputDone
    <2>3. CASE nic' # nic
      <3>1. NicMoves(nic, nic', p, nic[p].rx, nic[p].tx)
        BY <2>1, <2>2, <2>3, NicMoved
      <3>2. QED
        BY <3>1, NicHolds
    <2>4. QED
      BY <2>3
  <1>6. DriverTo(p, loc, eth[p].tbd_index)
    BY <1>2, <1>3, <1>4, <1>5 DEF DriverTo
  <1>7. RbdTaken(loc) <=> RbdTaken(eth[p].pc)
    BY <1>2 DEF RbdTaken
  <1>8. InputTaken(loc) <=> InputTaken(eth[p].pc)
    BY <1>2 DEF InputTaken
  <1>9. QED
    BY <1>6, <1>7, <1>8, DriverRests

LEMMA KicksLink ==
  ASSUME LinkInv, NEW p \in Port,
         \/ KickTx(p, "kick reply", "avail")
         \/ KickTx(p, "kick input", "free")
  PROVE  FrameInv' /\ FlowStep
  <1>1. /\ EthernetTypeOK /\ eth \in [Port -> DriverState] /\ nic \in [Port -> NicState]
        /\ UNCHANGED <<arrived, sent, rbd, tbd, output, input, pass>>
    BY DEF LinkInv, RingInv, KickTx, EthernetTypeOK, world
  <1>2. \A q \in Port : nic'[q].tx = nic[q].tx
    BY <1>1, NicMoved, NicHolds DEF KickTx
  <1>3. PICK t \in 0 .. TBD_COUNT - 1 : t = After(eth[p].tbd_index, TBD_COUNT)
    BY <1>1, StateFields, Sizes
  <1>4. PICK loc \in {"avail", "free"} :
          /\ eth' = [eth EXCEPT ![p].tbd_index = t, ![p].pc = loc]
          /\ eth[p].pc = IF loc = "avail" THEN "kick reply" ELSE "kick input"
    BY <1>3 DEF KickTx, At
  <1>5. DriverMoves(eth, eth', p, loc, eth[p].rbd_index, t,
                    eth[p].output_index, eth[p].input_index)
    BY <1>1, <1>4, DriverMoved DEF DriverLocation
  <1>6. DriverTo(p, loc, t)
    BY <1>1, <1>2, <1>4, <1>5 DEF DriverTo
  <1>7. RbdTaken(loc) <=> RbdTaken(eth[p].pc)
    BY <1>4 DEF RbdTaken
  <1>8. InputTaken(loc) <=> InputTaken(eth[p].pc)
    BY <1>4 DEF InputTaken
  <1>9. QED
    BY <1>6, <1>7, <1>8, DriverRests

LEMMA LocalLink ==
  ASSUME LinkInv, RingInv', NEW p \in Port, RxLocal(p) PROVE FrameInv' /\ FlowStep
  <1>1. /\ eth \in [Port -> DriverState] /\ eth' = [eth EXCEPT ![p].pc = "avail"]
        /\ UNCHANGED <<arrived, sent, rbd, tbd, nic, output, input, pass>>
        /\ eth[p].pc = "rx" /\ Slot(p).full
    BY DEF LinkInv, RingInv, RxLocal, EthernetTypeOK, world, At
  <1>2. DriverMoves(eth, eth', p, "avail", eth[p].rbd_index, eth[p].tbd_index,
                    eth[p].output_index, eth[p].input_index)
    BY <1>1, DriverMoved DEF DriverLocation
  <1>3. DriverTo(p, "avail", eth[p].tbd_index)
    BY <1>1, <1>2 DEF DriverTo
  <1>4. QED
    BY <1>1, <1>3, DriverDropsReceived

LEMMA RingTypes ==
  ASSUME RingInv
  PROVE  /\ eth \in [Port -> DriverState] /\ rbd \in [Port -> Slots(RBD_COUNT)]
         /\ tbd \in [Port -> Slots(TBD_COUNT)] /\ output \in [Port -> Slots(BUFFER_MAX)]
         /\ input \in [Port -> Slots(BUFFER_MAX)] /\ EthernetTypeOK
  BY DEF RingInv, EthernetTypeOK

\* The frames in the rings arrived.
LEMMA HeldKnown ==
  ASSUME LinkInv, NEW p \in Port
  PROVE  /\ Known(arrived, Slot(p).frame) /\ Known(arrived, input[p][eth[p].input_index].frame)
         /\ Known(arrived, output[p][eth[p].output_index].frame)
         /\ Known(arrived, tbd[p][nic[p].tx].frame)
         /\ Known(arrived, output[p][OutputHead(p)].frame)
  <1>1. KnownInv /\ RingInv
    BY DEF LinkInv, FrameInv
  <1>2. OutputHead(p) \in 0 .. BUFFER_MAX - 1
    BY <1>1, HeldOutput
  <1>3. QED
    BY <1>1, <1>2, StateFields DEF KnownInv, KnownIn, Slot, RingInv

LEMMA ThroughLink ==
  ASSUME LinkInv, RingInv', NEW p \in Port, RxThrough(p) PROVE FrameInv' /\ FlowStep
  <1>1. /\ UNCHANGED <<arrived, sent, rbd, tbd, nic, input, pass>>
        /\ eth[p].pc = "rx" /\ Slot(p).full /\ Slot(p).frame.kind = "through" /\ RingInv
    BY DEF LinkInv, RxThrough, world, At
  <1>2. PICK i \in 0 .. BUFFER_MAX - 1 : i = eth[p].output_index
    BY <1>1, StateFields DEF RingInv
  <1>3. eth \in [Port -> DriverState] /\ output \in [Port -> Slots(BUFFER_MAX)]
    BY <1>1, RingTypes
  <1>4. CASE output[p][i].full
    <2>1. eth' = [eth EXCEPT ![p].pc = "avail"] /\ output' = output
      BY <1>2, <1>4 DEF RxThrough
    <2>2. DriverMoves(eth, eth', p, "avail", eth[p].rbd_index, eth[p].tbd_index,
                      eth[p].output_index, eth[p].input_index)
      BY <1>3, <2>1, DriverMoved DEF DriverLocation
    <2>3. DriverTo(p, "avail", eth[p].tbd_index)
      BY <1>1, <2>1, <2>2 DEF DriverTo
    <2>4. QED
      BY <1>1, <2>3, DriverDropsReceived
  <1>5. CASE ~output[p][i].full
    <2>1. PICK x \in Frame : x = Slot(p).frame /\ Known(arrived, x)
      BY <1>1, HeldFrames, HeldKnown
    <2>2. /\ eth' = [eth EXCEPT ![p].pc = "publish"]
          /\ output' = [output EXCEPT ![p][i].frame = x]
      BY <1>2, <1>5, <2>1 DEF RxThrough
    <2>3. DriverMoves(eth, eth', p, "publish", eth[p].rbd_index, eth[p].tbd_index,
                      eth[p].output_index, eth[p].input_index)
      BY <1>3, <2>2, DriverMoved DEF DriverLocation
    <2>4. SetsSlot(output, output', BUFFER_MAX, p, i, output[p][i].full, x)
      BY <1>3, <2>2, SlotSet
    <2>5. Rbds' = Rbds /\ Inputs' = Inputs /\ Tbds' = Tbds
      BY <1>1, <2>3, RbdsKept, InputsKept, TbdsKept DEF RbdTaken, InputTaken
    <2>6. Outputs' = Outputs
      BY <1>1, <1>5, <2>4, PassUnmoved, OutputsWritten
    <2>7. KnownInv'
      <3>1. KnownInv /\ KnownIn(arrived, output, BUFFER_MAX)
        BY DEF LinkInv, FrameInv, KnownInv
      <3>2. KnownIn(arrived, output', BUFFER_MAX)
        BY <1>2, <2>1, <2>4, <3>1, KnownSet
      <3>3. QED
        BY <1>1, <3>1, <3>2 DEF KnownInv
    <2>8. OnlyThrough(output)' /\ OnlyThrough(input)'
      <3>1. OnlyThrough(output) /\ OnlyThrough(input)
        BY DEF LinkInv, FrameInv
      <3>2. OnlyThrough(output')
        BY <1>2, <1>5, <2>4, <3>1, ThroughSet
      <3>3. QED
        BY <1>1, <3>1, <3>2 DEF OnlyThrough
    <2>9. DriverCopied(p)'
      BY <1>1, <1>2, <2>1, <2>3, <2>4 DEF DriverCopied, DriverMoves, SetsSlot, Slot
    <2>10. FrameInv'
      <3>1. ASSUME NEW q \in Port
            PROVE  /\ q # p => rbd'[q] = rbd[q] /\ output'[q] = output[q]
                   /\ \A j \in 0 .. BUFFER_MAX - 1 :
                        /\ input'[q][j].frame = input[q][j].frame
                        /\ output[q][j].full => output'[q][j].frame = output[q][j].frame
        BY <1>1, <1>5, <2>4 DEF SetsSlot
      <3>2. QED
        BY <1>1, <2>3, <2>7, <2>8, <2>9, <3>1, DriverFrames
    <2>11. QED
      BY <1>1, <2>5, <2>6, <2>10, NothingFlows
  <1>6. QED
    BY <1>4, <1>5

LEMMA PublishLink ==
  ASSUME LinkInv, RingInv', NEW p \in Port, Publish(p) PROVE FrameInv' /\ FlowStep
  <1>1. /\ UNCHANGED <<arrived, sent, rbd, tbd, nic, input, pass>>
        /\ eth[p].pc = "publish" /\ RingInv
    BY DEF LinkInv, Publish, world, At
  <1>2. PICK i \in 0 .. BUFFER_MAX - 1 : i = eth[p].output_index
    BY <1>1, StateFields DEF RingInv
  <1>3. eth \in [Port -> DriverState] /\ output \in [Port -> Slots(BUFFER_MAX)]
    BY <1>1, RingTypes
  <1>4. PICK n \in 0 .. BUFFER_MAX - 1 : n = After(i, BUFFER_MAX)
    BY Sizes
  <1>5. DriverMoves(eth, eth', p, "notify", eth[p].rbd_index, eth[p].tbd_index,
                    n, eth[p].input_index)
    <2>1. eth' = [eth EXCEPT ![p].output_index = n, ![p].pc = "notify"]
      BY <1>2, <1>4 DEF Publish
    <2>2. QED
      BY <1>3, <2>1, DriverMoved DEF DriverLocation
  <1>6. PICK x \in Frame : x = output[p][i].frame /\ Known(arrived, x)
    BY <1>1, <1>2, HeldFrames, HeldKnown
  <1>7. x = Slot(p).frame /\ x.kind = "through" /\ Slot(p).full /\ ~output[p][i].full
    BY <1>1, <1>2, <1>6 DEF LinkInv, FrameInv, DriverCopied, RingInv, DriverHolds
  <1>8. SetsSlot(output, output', BUFFER_MAX, p, i, TRUE, x)
    <2>1. output' = [output EXCEPT ![p][i].full = TRUE]
      BY <1>2 DEF Publish
    <2>2. QED
      BY <1>3, <1>6, <2>1, SlotSet
  <1>9. Inputs' = Inputs /\ Tbds' = Tbds
    BY <1>1, <1>5, InputsKept, TbdsKept DEF InputTaken
  <1>10. Gives(Rbds, Rbds', p, x)
    <2>1. Gives(Rbds, Rbds', p, Slot(p).frame)
      BY <1>1, <1>5, <1>7, RbdsGiven DEF RbdTaken
    <2>2. QED
      BY <1>7, <2>1
  <1>11. Gets(Outputs, Outputs', p, x)
    BY <1>1, <1>2, <1>7, <1>8, PassUnmoved, OutputsGot
  <1>12. FlowStep
    <2>1. /\ ViewsAre(Tbds, Inputs, Outputs, Rbds) /\ Rbds' \in Views /\ Outputs' \in Views
          /\ sent \in Views
      BY <1>1, ViewsOfState, ViewsOfNext, SentTyped DEF ViewsAre
    <2>2. LinkSteps(Tbds, Inputs, Outputs, Rbds, sent, Tbds, Inputs, Outputs', Rbds', sent)
      BY <1>7, <1>10, <1>11, <2>1, MovesLink DEF ViewsAre
    <2>3. QED
      BY <1>1, <1>9, <2>2 DEF FlowStep
  <1>13. FrameInv'
    <2>1. KnownInv'
      <3>1. KnownInv /\ KnownIn(arrived, output, BUFFER_MAX)
        BY DEF LinkInv, FrameInv, KnownInv
      <3>2. KnownIn(arrived, output', BUFFER_MAX)
        BY <1>6, <1>8, <3>1 DEF SetsSlot, KnownIn, Known
      <3>3. QED
        BY <1>1, <3>1, <3>2 DEF KnownInv
    <2>2. OnlyThrough(output)' /\ OnlyThrough(input)'
      <3>1. OnlyThrough(output) /\ OnlyThrough(input)
        BY DEF LinkInv, FrameInv
      <3>2. OnlyThrough(output')
        BY <1>2, <1>7, <1>8, <3>1, ThroughSet
      <3>3. QED
        BY <1>1, <3>1, <3>2 DEF OnlyThrough
    <2>3. ASSUME NEW q \in Port
          PROVE  /\ q # p => rbd'[q] = rbd[q] /\ output'[q] = output[q]
                 /\ \A j \in 0 .. BUFFER_MAX - 1 :
                      /\ input'[q][j].frame = input[q][j].frame
                      /\ output[q][j].full => output'[q][j].frame = output[q][j].frame
      BY <1>1, <1>6, <1>8 DEF SetsSlot
    <2>4. QED
      BY <1>1, <1>5, <2>1, <2>2, <2>3, DriverFrames
  <1>14. QED
    BY <1>12, <1>13

LEMMA AvailLink ==
  ASSUME LinkInv, RingInv', NEW p \in Port, MakeAvail(p) PROVE FrameInv' /\ FlowStep
  <1>1. /\ UNCHANGED <<arrived, sent, tbd, nic, output, input, pass>>
        /\ eth[p].pc = "avail" /\ RingInv /\ Slot(p).full
    BY DEF LinkInv, MakeAvail, world, At, RingInv, DriverHolds
  <1>2. PICK i \in 0 .. RBD_COUNT - 1 : i = eth[p].rbd_index
    BY <1>1, StateFields DEF RingInv
  <1>3. eth \in [Port -> DriverState] /\ rbd \in [Port -> Slots(RBD_COUNT)]
    BY <1>1, RingTypes
  <1>4. PICK n \in 0 .. RBD_COUNT - 1 : n = After(i, RBD_COUNT)
    BY Sizes
  <1>5. DriverMoves(eth, eth', p, "rx", n, eth[p].tbd_index,
                    eth[p].output_index, eth[p].input_index)
    <2>1. eth' = [eth EXCEPT ![p].rbd_index = n, ![p].pc = "rx"]
      BY <1>2, <1>4 DEF MakeAvail
    <2>2. QED
      BY <1>3, <2>1, DriverMoved DEF DriverLocation
  <1>6. PICK x \in Frame : x = Slot(p).frame /\ Known(arrived, x)
    BY <1>1, HeldFrames, HeldKnown
  <1>7. SetsSlot(rbd, rbd', RBD_COUNT, p, i, FALSE, x)
    <2>1. rbd' = [rbd EXCEPT ![p][i].full = FALSE] /\ x = rbd[p][i].frame
      BY <1>2, <1>6 DEF MakeAvail, Slot
    <2>2. QED
      BY <1>3, <1>6, <2>1, SlotSet
  <1>8. Inputs' = Inputs /\ Tbds' = Tbds /\ Outputs' = Outputs
    BY <1>1, <1>5, InputsKept, TbdsKept, PassUnmoved, OutputsKept DEF InputTaken
  <1>9. Rbds' = Rbds
    <2>1. /\ DriverMoves(eth, eth', p, "rx", After(eth[p].rbd_index, RBD_COUNT), eth[p].tbd_index,
                         eth[p].output_index, eth[p].input_index)
          /\ SetsSlot(rbd, rbd', RBD_COUNT, p, eth[p].rbd_index, FALSE, x)
      BY <1>2, <1>4, <1>5, <1>7
    <2>2. RbdTaken(eth[p].pc) /\ ~RbdTaken("rx")
      BY <1>1 DEF RbdTaken
    <2>3. QED
      BY <1>1, <2>1, <2>2, RbdsFreed
  <1>10. FrameInv'
    <2>1. KnownInv'
      <3>1. KnownInv /\ KnownIn(arrived, rbd, RBD_COUNT)
        BY DEF LinkInv, FrameInv, KnownInv
      <3>2. KnownIn(arrived, rbd', RBD_COUNT)
        BY <1>6, <1>7, <3>1 DEF SetsSlot, KnownIn, Known
      <3>3. QED
        BY <1>1, <3>1, <3>2 DEF KnownInv
    <2>2. OnlyThrough(output)' /\ OnlyThrough(input)'
      BY <1>1 DEF LinkInv, FrameInv
    <2>3. ASSUME NEW q \in Port
          PROVE  /\ q # p => rbd'[q] = rbd[q] /\ output'[q] = output[q]
                 /\ \A j \in 0 .. BUFFER_MAX - 1 :
                      /\ input'[q][j].frame = input[q][j].frame
                      /\ output[q][j].full => output'[q][j].frame = output[q][j].frame
      BY <1>1, <1>7 DEF SetsSlot
    <2>4. QED
      BY <1>1, <1>5, <2>1, <2>2, <2>3, DriverFrames
  <1>11. QED
    BY <1>1, <1>8, <1>9, <1>10, NothingFlows

LEMMA FreeLink ==
  ASSUME LinkInv, RingInv', NEW p \in Port, FreeInput(p) PROVE FrameInv' /\ FlowStep
  <1>1. /\ UNCHANGED <<arrived, sent, rbd, tbd, nic, output, pass>>
        /\ eth[p].pc = "free" /\ RingInv /\ input[p][eth[p].input_index].full
    BY DEF LinkInv, FreeInput, world, At, RingInv, DriverHolds
  <1>2. PICK i \in 0 .. BUFFER_MAX - 1 : i = eth[p].input_index
    BY <1>1, StateFields DEF RingInv
  <1>3. eth \in [Port -> DriverState] /\ input \in [Port -> Slots(BUFFER_MAX)]
    BY <1>1, RingTypes
  <1>4. PICK n \in 0 .. BUFFER_MAX - 1 : n = After(i, BUFFER_MAX)
    BY Sizes
  <1>5. DriverMoves(eth, eth', p, "input", eth[p].rbd_index, eth[p].tbd_index,
                    eth[p].output_index, n)
    <2>1. eth' = [eth EXCEPT ![p].input_index = n, ![p].pc = "input"]
      BY <1>2, <1>4 DEF FreeInput
    <2>2. QED
      BY <1>3, <2>1, DriverMoved DEF DriverLocation
  <1>6. PICK x \in Frame : x = input[p][i].frame /\ Known(arrived, x)
    BY <1>1, <1>2, HeldFrames, HeldKnown
  <1>7. SetsSlot(input, input', BUFFER_MAX, p, i, FALSE, x)
    <2>1. input' = [input EXCEPT ![p][i].full = FALSE]
      BY <1>2 DEF FreeInput
    <2>2. QED
      BY <1>3, <1>6, <2>1, SlotSet
  <1>8. Rbds' = Rbds /\ Tbds' = Tbds /\ Outputs' = Outputs
    BY <1>1, <1>5, RbdsKept, TbdsKept, PassUnmoved, OutputsKept DEF RbdTaken
  <1>9. Inputs' = Inputs
    <2>1. /\ DriverMoves(eth, eth', p, "input", eth[p].rbd_index, eth[p].tbd_index,
                         eth[p].output_index, After(eth[p].input_index, BUFFER_MAX))
          /\ SetsSlot(input, input', BUFFER_MAX, p, eth[p].input_index, FALSE, x)
      BY <1>2, <1>4, <1>5, <1>7
    <2>2. InputTaken(eth[p].pc) /\ ~InputTaken("input")
      BY <1>1 DEF InputTaken
    <2>3. QED
      BY <1>1, <2>1, <2>2, InputsFreed
  <1>10. FrameInv'
    <2>1. KnownInv'
      <3>1. KnownInv /\ KnownIn(arrived, input, BUFFER_MAX)
        BY DEF LinkInv, FrameInv, KnownInv
      <3>2. KnownIn(arrived, input', BUFFER_MAX)
        BY <1>6, <1>7, <3>1 DEF SetsSlot, KnownIn, Known
      <3>3. QED
        BY <1>1, <3>1, <3>2 DEF KnownInv
    <2>2. OnlyThrough(output)' /\ OnlyThrough(input)'
      <3>1. OnlyThrough(output) /\ OnlyThrough(input)
        BY DEF LinkInv, FrameInv
      <3>2. OnlyThrough(input')
        BY <1>2, <1>7, <3>1, ThroughSet
      <3>3. QED
        BY <1>1, <3>1, <3>2 DEF OnlyThrough
    <2>3. ASSUME NEW q \in Port
          PROVE  /\ q # p => rbd'[q] = rbd[q] /\ output'[q] = output[q]
                 /\ \A j \in 0 .. BUFFER_MAX - 1 :
                      /\ input'[q][j].frame = input[q][j].frame
                      /\ output[q][j].full => output'[q][j].frame = output[q][j].frame
      BY <1>1, <1>6, <1>7 DEF SetsSlot
    <2>4. QED
      BY <1>1, <1>5, <2>1, <2>2, <2>3, DriverFrames
  <1>11. QED
    BY <1>1, <1>8, <1>9, <1>10, NothingFlows

\* send_frame, of a frame received and of one from pass.
LEMMA SendLink ==
  ASSUME LinkInv, RingInv', NEW p \in Port, NEW x \in Frame, NEW kick, NEW next,
         SendFrame(p, x, kick, next), Known(arrived, x),
         \/ /\ eth[p].pc = "rx" /\ Slot(p).full /\ kick = "kick reply" /\ next = "avail"
            /\ x = Slot(p).frame /\ x.kind # "through"
         \/ /\ eth[p].pc = "input" /\ input[p][eth[p].input_index].full
            /\ kick = "kick input" /\ next = "free"
            /\ x = input[p][eth[p].input_index].frame /\ x.kind = "through"
  PROVE  FrameInv' /\ FlowStep
  <1>1. UNCHANGED <<arrived, sent, rbd, nic, output, input, pass>> /\ RingInv
    BY DEF LinkInv, SendFrame, world
  <1>2. PICK t \in 0 .. TBD_COUNT - 1 : t = eth[p].tbd_index
    BY <1>1, StateFields DEF RingInv
  <1>3. /\ eth \in [Port -> DriverState] /\ tbd \in [Port -> Slots(TBD_COUNT)]
        /\ kick \in DriverLocation /\ next \in DriverLocation
    BY <1>1, RingTypes DEF DriverLocation
  <1>4. CASE tbd[p][t].full
    <2>1. eth' = [eth EXCEPT ![p].pc = next] /\ tbd' = tbd
      BY <1>2, <1>4 DEF SendFrame
    <2>2. DriverMoves(eth, eth', p, next, eth[p].rbd_index, eth[p].tbd_index,
                      eth[p].output_index, eth[p].input_index)
      BY <1>3, <2>1, DriverMoved
    <2>3. DriverTo(p, next, eth[p].tbd_index)
      BY <1>1, <2>1, <2>2 DEF DriverTo
    <2>4. QED
      BY <1>1, <2>3, DriverDropsReceived, DriverDropsInput
  <1>5. CASE ~tbd[p][t].full
    <2>1. /\ eth' = [eth EXCEPT ![p].pc = kick]
          /\ tbd' = [tbd EXCEPT ![p][t] = [full |-> TRUE, frame |-> x]]
      BY <1>2, <1>5 DEF SendFrame
    <2>2. DriverMoves(eth, eth', p, kick, eth[p].rbd_index, eth[p].tbd_index,
                      eth[p].output_index, eth[p].input_index)
      BY <1>3, <2>1, DriverMoved
    <2>3. SetsSlot(tbd, tbd', TBD_COUNT, p, t, TRUE, x)
      BY <1>2, <1>3, <2>1, SlotSet
    <2>4. t = TbdTail(p)
      BY <1>2 DEF TbdTail
    <2>5. Gets(Tbds, Tbds', p, x)
      BY <1>1, <1>2, <1>5, <2>3, <2>4, TbdsGot
    <2>6. Outputs' = Outputs
      BY <1>1, PassUnmoved, OutputsKept
    <2>7. FlowStep
      <3>1. /\ ViewsAre(Tbds, Inputs, Outputs, Rbds) /\ ViewsAre(Tbds', Inputs', Outputs', Rbds')
            /\ sent \in Views
        BY <1>1, ViewsOfState, ViewsOfNext, SentTyped DEF ViewsAre
      <3>2. CASE eth[p].pc = "rx"
        <4>1. kick = "kick reply" /\ x = Slot(p).frame /\ x.kind # "through" /\ Slot(p).full
          BY <3>2
        <4>2. Gives(Rbds, Rbds', p, x)
          BY <1>1, <2>2, <3>2, <4>1, RbdsGiven DEF RbdTaken
        <4>3. Inputs' = Inputs
          BY <1>1, <2>2, <3>2, <4>1, InputsKept DEF InputTaken
        <4>4. LinkSteps(Tbds, Inputs, Outputs, Rbds, sent, Tbds', Inputs, Outputs, Rbds', sent)
          BY <2>5, <3>1, <4>1, <4>2, MovesLink DEF ViewsAre
        <4>5. QED
          BY <1>1, <2>6, <4>3, <4>4 DEF FlowStep
      <3>3. CASE eth[p].pc # "rx"
        <4>1. /\ kick = "kick input" /\ x.kind = "through" /\ eth[p].pc = "input"
              /\ x = input[p][eth[p].input_index].frame /\ input[p][eth[p].input_index].full
          BY <3>3
        <4>2. Gives(Inputs, Inputs', p, x)
          BY <1>1, <2>2, <4>1, InputsGiven DEF InputTaken
        <4>3. Rbds' = Rbds
          BY <1>1, <2>2, <4>1, RbdsKept DEF RbdTaken
        <4>4. LinkSteps(Tbds, Inputs, Outputs, Rbds, sent, Tbds', Inputs', Outputs, Rbds, sent)
          BY <2>5, <3>1, <4>1, <4>2, MovesLink DEF ViewsAre
        <4>5. QED
          BY <1>1, <2>6, <4>3, <4>4 DEF FlowStep
      <3>4. QED
        BY <3>2, <3>3
    <2>8. FrameInv'
      <3>1. KnownInv'
        <4>1. KnownInv /\ KnownIn(arrived, tbd, TBD_COUNT)
          BY DEF LinkInv, FrameInv, KnownInv
        <4>2. KnownIn(arrived, tbd', TBD_COUNT)
          <5>1. ASSUME NEW q \in Port, NEW j \in 0 .. TBD_COUNT - 1
                PROVE  tbd'[q][j].frame = tbd[q][j].frame \/ tbd'[q][j].frame = x
            BY <1>2, <2>3 DEF SetsSlot
          <5>2. QED
            BY <4>1, <5>1 DEF KnownIn
        <4>3. QED
          BY <1>1, <4>1, <4>2 DEF KnownInv
      <3>2. OnlyThrough(output)' /\ OnlyThrough(input)'
        BY <1>1 DEF LinkInv, FrameInv
      <3>3. kick # "publish"
        OBVIOUS
      <3>4. QED
        BY <1>1, <2>2, <3>1, <3>2, <3>3, DriverFrames
    <2>9. QED
      BY <2>7, <2>8
  <1>6. QED
    BY <1>4, <1>5

LEMMA DriverLink ==
  ASSUME LinkInv, RingInv', NEW p \in Port, DriverNext(p) PROVE FrameInv' /\ FlowStep
  <1>1. CASE RxRequest(p)
    <2>1. CASE KickTx(p, "kick reply", "avail")
      BY <2>1, KicksLink
    <2>2. CASE ~KickTx(p, "kick reply", "avail")
      <3>1. /\ eth[p].pc = "rx" /\ Slot(p).full /\ Slot(p).frame.kind = "request"
            /\ SendFrame(p, Slot(p).frame, "kick reply", "avail")
        BY <1>1, <2>2 DEF RxRequest, At
      <3>2. PICK x \in Frame : x = Slot(p).frame /\ Known(arrived, x)
        BY HeldFrames, HeldKnown DEF LinkInv
      <3>3. SendFrame(p, x, "kick reply", "avail")
        BY <3>1, <3>2
      <3>4. QED
        BY <3>1, <3>2, <3>3, SendLink
    <2>3. QED
      BY <2>1, <2>2
  <1>2. CASE SendInput(p)
    <2>1. CASE KickTx(p, "kick input", "free")
      BY <2>1, KicksLink
    <2>2. CASE ~KickTx(p, "kick input", "free")
      <3>1. /\ eth[p].pc = "input" /\ input[p][eth[p].input_index].full
            /\ SendFrame(p, input[p][eth[p].input_index].frame, "kick input", "free")
        BY <1>2, <2>2 DEF SendInput, At
      <3>2. PICK x \in Frame : x = input[p][eth[p].input_index].frame /\ Known(arrived, x)
        BY HeldFrames, HeldKnown DEF LinkInv
      <3>3. x.kind = "through"
        BY <3>1, <3>2, StateFields DEF LinkInv, FrameInv, OnlyThrough, RingInv
      <3>4. SendFrame(p, x, "kick input", "free")
        BY <3>1, <3>2
      <3>5. QED
        BY <3>1, <3>2, <3>3, <3>4, SendLink
    <2>3. QED
      BY <2>1, <2>2
  <1>3. QED
    BY <1>1, <1>2, TurnsLink, LocalLink, ThroughLink, PublishLink, AvailLink, FreeLink
    DEF DriverNext

-----------------------------------------------------------------------------
(***************************************************************************)
(* The steps of pass.                                                      *)
(***************************************************************************)
LEMMA PassFrames ==
  ASSUME LinkInv, UNCHANGED <<rbd, eth>>, KnownInv', OnlyThrough(output)', OnlyThrough(input)',
         \A q \in Port : \A j \in 0 .. BUFFER_MAX - 1 : output'[q][j].frame = output[q][j].frame,
         PassCopied'
  PROVE  FrameInv'
  <1>1. EthernetTypeOK /\ \A q \in Port : DriverCopied(q)
    BY DEF LinkInv, RingInv, FrameInv
  <1>2. ASSUME NEW q \in Port PROVE DriverCopied(q)'
    BY <1>1, StateFields DEF DriverCopied, Slot
  <1>3. QED
    BY <1>2 DEF FrameInv

LEMMA PassRests ==
  ASSUME LinkInv, PassStays, UNCHANGED <<arrived, sent, rbd, tbd, nic, output, input, eth>>,
         PassCopied'
  PROVE  FrameInv' /\ FlowStep
  <1>1. FrameInv'
    BY FramesKept, PassFrames
  <1>2. UNCHANGED <<Tbds, Inputs, Outputs, Rbds>>
    BY OutputsKept DEF Tbds, Inputs, Rbds
  <1>3. QED
    BY <1>1, <1>2, NothingFlows

LEMMA PassTurnsLink ==
  ASSUME LinkInv, PassNotified \/ PassDone PROVE FrameInv' /\ FlowStep
  <1>1. /\ EthernetTypeOK /\ pass \in PassState /\ pass.pc \in {"loop", "next"}
        /\ UNCHANGED <<arrived, sent, rbd, tbd, nic, output, input, eth>>
    BY DEF LinkInv, RingInv, EthernetTypeOK, PassNotified, PassDone, world
  <1>2. pass'.pc \in {"loop", "next"} /\ pass'.input_index = pass.input_index
    <2>1. CASE PassNotified
      <3>1. pending["pass"] \in SUBSET Nat /\ pass.todo \in SUBSET Nat
        BY <1>1, StateFields DEF EthernetTypeOK, Port
      <3>2. PICK d \in SUBSET Nat, q \in Port :
              pass' = [pass EXCEPT !.todo = d, !.pc = "next", !.port = q]
        BY <2>1, <3>1 DEF PassNotified, Port
      <3>3. QED
        BY <1>1, <3>2 DEF PassState
    <2>2. CASE PassDone
      BY <1>1, <2>2 DEF PassDone, PassState
    <2>3. QED
      BY <2>1, <2>2
  <1>3. PassStays
    BY <1>1, <1>2 DEF PassStays, OutputHead, OutputTaken, Copying
  <1>4. PassCopied'
    BY <1>2 DEF PassCopied
  <1>5. QED
    BY <1>1, <1>3, <1>4, PassRests

LEMMA PassNotifyLink ==
  ASSUME LinkInv, PassNotify PROVE FrameInv' /\ FlowStep
  <1>1. /\ pass \in PassState /\ pass.pc = "notify"
        /\ UNCHANGED <<arrived, sent, rbd, tbd, nic, output, input, eth>>
    BY DEF LinkInv, RingInv, EthernetTypeOK, PassNotify, world
  <1>2. /\ pass'.pc = "free" /\ pass'.port = pass.port /\ pass'.bd = pass.bd
        /\ pass'.input_index = pass.input_index
    BY <1>1 DEF PassNotify, PassState
  <1>3. PassStays
    BY <1>1, <1>2 DEF PassStays, OutputHead, OutputTaken, Copying
  <1>4. PassCopied'
    BY <1>2 DEF PassCopied
  <1>5. QED
    BY <1>1, <1>3, <1>4, PassRests

LEMMA PassCopyLink ==
  ASSUME LinkInv, RingInv', PassCopy PROVE FrameInv' /\ FlowStep
  <1>1. /\ RingInv /\ pass \in PassState /\ pass.pc = "next"
        /\ input \in [Port -> Slots(BUFFER_MAX)] /\ output \in [Port -> Slots(BUFFER_MAX)]
        /\ UNCHANGED <<arrived, sent, rbd, tbd, nic, output, eth>>
    BY DEF LinkInv, RingInv, EthernetTypeOK, PassCopy, world
  <1>2. PICK from \in Port : from = pass.port
    BY <1>1 DEF PassState
  <1>3. PICK to \in Port : to = Other(from) /\ from # to
    BY PortsDiffer
  <1>4. PICK bd \in 0 .. BUFFER_MAX - 1 : bd = pass.input_index[from]
    BY <1>1 DEF PassState, PassIndices
  <1>5. PICK obd \in 0 .. BUFFER_MAX - 1 : obd = pass.output_index[to]
    BY <1>1 DEF PassState, PassIndices
  <1>6. PICK n \in 0 .. BUFFER_MAX - 1 : n = After(bd, BUFFER_MAX)
    BY <1>1, Sizes
  <1>7. output[from][bd].full
    BY <1>2, <1>4 DEF PassCopy
  <1>8. OutputHead(from) = bd /\ ~OutputTaken(from)
    BY <1>1, <1>4 DEF OutputHead, OutputTaken, Copying
  <1>9. PICK x \in Frame : x = output[from][bd].frame /\ Known(arrived, x)
    BY <1>1, <1>8, HeldFrames, HeldKnown
  <1> DEFINE taken == [pass EXCEPT !.bd = bd, !.input_index[from] = n]
  <1>10. \/ input[to][obd].full /\ input' = input /\ pass' = [taken EXCEPT !.pc = "free"]
         \/ /\ ~input[to][obd].full /\ pass' = [taken EXCEPT !.pc = "publish"]
            /\ input' = [input EXCEPT ![to][obd].frame = x]
    BY <1>2, <1>3, <1>4, <1>5, <1>6, <1>9, Zenon DEF PassCopy
  <1>11. ASSUME NEW loc \in {"free", "publish"}, pass' = [taken EXCEPT !.pc = loc]
         PROVE  /\ pass'.pc = loc /\ pass'.port = from /\ pass'.bd = bd
                /\ pass'.output_index = pass.output_index
                /\ \A q \in Port : q # from => pass'.input_index[q] = pass.input_index[q]
    BY <1>1, <1>2, <1>11 DEF PassState, PassIndices
  <1> HIDE DEF taken
  <1>12. /\ pass'.port = from /\ pass'.bd = bd /\ pass'.output_index = pass.output_index
         /\ \A q \in Port : q # from => pass'.input_index[q] = pass.input_index[q]
         /\ \/ input[to][obd].full /\ input' = input /\ pass'.pc = "free"
            \/ /\ ~input[to][obd].full /\ pass'.pc = "publish"
               /\ input' = [input EXCEPT ![to][obd].frame = x]
    BY <1>10, <1>11
  <1>13. \A q \in Port : /\ OutputHead(q)' = OutputHead(q)
                         /\ q # from => (OutputTaken(q)' <=> OutputTaken(q))
    BY <1>1, <1>2, <1>4, <1>12 DEF OutputHead, OutputTaken, Copying
  <1>14. UNCHANGED <<Rbds, Tbds>>
    BY <1>1 DEF Rbds, Tbds
  <1>15. CASE pass'.pc = "free"
    <2>1. input' = input /\ OutputTaken(from)'
      BY <1>12, <1>15 DEF OutputTaken
    <2>2. Gives(Outputs, Outputs', from, x)
      <3>1. Gives(Outputs, Outputs', from, output[from][OutputHead(from)].frame)
        BY <1>1, <1>7, <1>8, <1>13, <2>1, OutputsGiven
      <3>2. QED
        BY <1>8, <1>9, <3>1
    <2>3. /\ ViewsAre(Tbds, Inputs, Outputs, Rbds) /\ Outputs' \in Views /\ sent \in Views
      BY <1>1, ViewsOfState, ViewsOfNext, SentTyped DEF ViewsAre
    <2>4. LinkSteps(Tbds, Inputs, Outputs, Rbds, sent, Tbds, Inputs, Outputs', Rbds, sent)
      BY <2>2, <2>3, DropsLink DEF ViewsAre
    <2>5. Inputs' = Inputs
      BY <1>1, <2>1 DEF Inputs
    <2>6. PassCopied'
      BY <1>15 DEF PassCopied
    <2>7. FrameInv'
      BY <1>1, <2>1, <2>6, FramesKept, PassFrames
    <2>8. QED
      BY <1>1, <1>14, <2>4, <2>5, <2>7 DEF FlowStep
  <1>16. CASE pass'.pc = "publish"
    <2>1. ~input[to][obd].full /\ input' = [input EXCEPT ![to][obd].frame = x]
      BY <1>12, <1>16
    <2>2. SetsSlot(input, input', BUFFER_MAX, to, obd, input[to][obd].full, x)
      BY <1>1, <1>9, <2>1, SlotSet
    <2>3. Inputs' = Inputs
      BY <1>1, <2>1, <2>2, InputsWritten
    <2>4. Outputs' = Outputs
      <3>1. OutputTaken(from)' <=> OutputTaken(from)
        BY <1>8, <1>16 DEF OutputTaken
      <3>2. PassStays
        BY <1>13, <3>1 DEF PassStays
      <3>3. QED
        BY <1>1, <3>2, OutputsKept
    <2>5. KnownInv'
      <3>1. KnownInv /\ KnownIn(arrived, input, BUFFER_MAX)
        BY DEF LinkInv, FrameInv, KnownInv
      <3>2. KnownIn(arrived, input', BUFFER_MAX)
        BY <1>9, <2>2, <3>1 DEF SetsSlot, KnownIn, Known
      <3>3. QED
        BY <1>1, <3>1, <3>2 DEF KnownInv
    <2>6. OnlyThrough(output)' /\ OnlyThrough(input)'
      <3>1. OnlyThrough(output) /\ OnlyThrough(input)
        BY DEF LinkInv, FrameInv
      <3>2. OnlyThrough(input')
        BY <2>1, <2>2, <3>1, ThroughSet
      <3>3. QED
        BY <1>1, <3>1, <3>2 DEF OnlyThrough
    <2>7. PassCopied'
      <3>1. input'[to][obd].frame = x
        BY <2>2 DEF SetsSlot
      <3>2. QED
        BY <1>1, <1>3, <1>5, <1>9, <1>12, <3>1 DEF PassCopied
    <2>8. FrameInv'
      BY <1>1, <2>5, <2>6, <2>7, PassFrames
    <2>9. QED
      BY <1>1, <1>14, <2>3, <2>4, <2>8, NothingFlows
  <1>17. QED
    BY <1>12, <1>15, <1>16

LEMMA PassPublishLink ==
  ASSUME LinkInv, RingInv', PassPublish PROVE FrameInv' /\ FlowStep
  <1>1. /\ RingInv /\ pass \in PassState /\ pass.pc = "publish"
        /\ input \in [Port -> Slots(BUFFER_MAX)] /\ output \in [Port -> Slots(BUFFER_MAX)]
        /\ UNCHANGED <<arrived, sent, rbd, tbd, nic, output, eth>>
    BY DEF LinkInv, RingInv, EthernetTypeOK, PassPublish, world
  <1>2. PICK from \in Port : from = pass.port
    BY <1>1 DEF PassState
  <1>3. PICK to \in Port : to = Other(from) /\ from # to /\ Other(to) = from
    BY PortsDiffer
  <1>4. PICK obd \in 0 .. BUFFER_MAX - 1 : obd = pass.output_index[to]
    BY <1>1 DEF PassState, PassIndices
  <1>5. /\ pass'.pc = "notify" /\ pass'.port = from /\ pass'.bd = pass.bd
        /\ pass'.input_index = pass.input_index
    BY <1>1, <1>2 DEF PassPublish, PassState
  <1>6. /\ Copying(from) /\ OutputHead(from) = pass.bd /\ PassHolds(from)
        /\ ~OutputTaken(from) /\ OutputTaken(from)'
    BY <1>1, <1>2, <1>5 DEF RingInv, Copying, OutputHead, OutputTaken
  <1>7. PICK x \in Frame : x = output[from][OutputHead(from)].frame /\ Known(arrived, x)
    BY <1>1, HeldFrames, HeldKnown
  <1>8. /\ input[to][obd].frame = x /\ ~input[to][obd].full
        /\ output[from][OutputHead(from)].full
    BY <1>1, <1>2, <1>3, <1>4, <1>6, <1>7 DEF LinkInv, FrameInv, PassCopied, PassHolds
  <1>9. x.kind = "through"
    BY <1>1, <1>7, <1>8, HeldOutput DEF LinkInv, FrameInv, OnlyThrough
  <1>10. SetsSlot(input, input', BUFFER_MAX, to, obd, TRUE, x)
    <2>1. input' = [input EXCEPT ![to][obd].full = TRUE]
      BY <1>2, <1>3, <1>4 DEF PassPublish
    <2>2. QED
      BY <1>1, <1>8, <2>1, SlotSet
  <1>11. Gives(Outputs, Outputs', from, x)
    <2>1. \A q \in Port : /\ OutputHead(q)' = OutputHead(q)
                          /\ q # from => (OutputTaken(q)' <=> OutputTaken(q))
      BY <1>1, <1>2, <1>5 DEF OutputHead, OutputTaken, Copying
    <2>2. Gives(Outputs, Outputs', from, output[from][OutputHead(from)].frame)
      BY <1>1, <1>6, <1>8, <2>1, OutputsGiven
    <2>3. QED
      BY <1>7, <2>2
  <1>12. Gets(Inputs, Inputs', Other(from), x)
    <2>1. obd = InputTail(to)
      BY <1>1, <1>4 DEF InputTail
    <2>2. Gets(Inputs, Inputs', to, x)
      BY <1>1, <1>8, <1>10, <2>1, InputsGot
    <2>3. QED
      BY <1>3, <2>2
  <1>13. FlowStep
    <2>1. /\ ViewsAre(Tbds, Inputs, Outputs, Rbds) /\ Inputs' \in Views /\ Outputs' \in Views
          /\ sent \in Views
      BY <1>1, ViewsOfState, ViewsOfNext, SentTyped DEF ViewsAre
    <2>2. LinkSteps(Tbds, Inputs, Outputs, Rbds, sent, Tbds, Inputs', Outputs', Rbds, sent)
      BY <1>11, <1>12, <2>1, MovesLink DEF ViewsAre
    <2>3. UNCHANGED <<Rbds, Tbds>>
      BY <1>1 DEF Rbds, Tbds
    <2>4. QED
      BY <1>1, <2>2, <2>3 DEF FlowStep
  <1>14. FrameInv'
    <2>1. KnownInv'
      <3>1. KnownInv /\ KnownIn(arrived, input, BUFFER_MAX)
        BY DEF LinkInv, FrameInv, KnownInv
      <3>2. KnownIn(arrived, input', BUFFER_MAX)
        BY <1>7, <1>10, <3>1 DEF SetsSlot, KnownIn, Known
      <3>3. QED
        BY <1>1, <3>1, <3>2 DEF KnownInv
    <2>2. OnlyThrough(output)' /\ OnlyThrough(input)'
      <3>1. OnlyThrough(output) /\ OnlyThrough(input)
        BY DEF LinkInv, FrameInv
      <3>2. OnlyThrough(input')
        BY <1>4, <1>9, <1>10, <3>1, ThroughSet
      <3>3. QED
        BY <1>1, <3>1, <3>2 DEF OnlyThrough
    <2>3. PassCopied'
      BY <1>5 DEF PassCopied
    <2>4. QED
      BY <1>1, <2>1, <2>2, <2>3, PassFrames
  <1>15. QED
    BY <1>13, <1>14

LEMMA PassFreeLink ==
  ASSUME LinkInv, RingInv', PassFree PROVE FrameInv' /\ FlowStep
  <1>1. /\ RingInv /\ pass \in PassState /\ pass.pc = "free"
        /\ output \in [Port -> Slots(BUFFER_MAX)]
        /\ UNCHANGED <<arrived, sent, rbd, tbd, nic, input, eth>>
    BY DEF LinkInv, RingInv, EthernetTypeOK, PassFree, world
  <1>2. PICK from \in Port : from = pass.port
    BY <1>1 DEF PassState
  <1>3. PICK bd \in 0 .. BUFFER_MAX - 1 : bd = pass.bd
    BY <1>1 DEF PassState
  <1>4. pass'.pc = "next" /\ pass'.port = from /\ pass'.input_index = pass.input_index
    BY <1>1, <1>2 DEF PassFree, PassState
  <1>5. /\ OutputHead(from) = bd /\ OutputTaken(from) /\ ~OutputTaken(from)'
        /\ OutputHead(from)' = pass.input_index[from] /\ PassHolds(from) /\ Copying(from)
    BY <1>1, <1>2, <1>3, <1>4 DEF RingInv, Copying, OutputHead, OutputTaken
  <1>6. OutputHead(from)' = After(OutputHead(from), BUFFER_MAX) /\ output[from][bd].full
    BY <1>3, <1>5 DEF PassHolds
  <1>7. PICK x \in Frame : x = output[from][bd].frame /\ Known(arrived, x)
    BY <1>1, <1>5, HeldFrames, HeldKnown
  <1>8. SetsSlot(output, output', BUFFER_MAX, from, bd, FALSE, x)
    <2>1. output' = [output EXCEPT ![from][bd].full = FALSE]
      BY <1>2, <1>3 DEF PassFree
    <2>2. QED
      BY <1>1, <1>3, <1>7, <2>1, SlotSet
  <1>9. Outputs' = Outputs
    <2>1. \A q \in Port : q # from => /\ OutputHead(q)' = OutputHead(q)
                                      /\ OutputTaken(q)' <=> OutputTaken(q)
      BY <1>1, <1>2, <1>4 DEF OutputHead, OutputTaken, Copying
    <2>2. SetsSlot(output, output', BUFFER_MAX, from, OutputHead(from), FALSE, x)
      BY <1>5, <1>8
    <2>3. QED
      BY <1>1, <1>5, <1>6, <2>1, <2>2, OutputsFreed
  <1>10. UNCHANGED <<Rbds, Inputs, Tbds>>
    BY <1>1 DEF Rbds, Inputs, Tbds
  <1>11. FrameInv'
    <2>1. KnownInv'
      <3>1. KnownInv /\ KnownIn(arrived, output, BUFFER_MAX)
        BY DEF LinkInv, FrameInv, KnownInv
      <3>2. KnownIn(arrived, output', BUFFER_MAX)
        BY <1>7, <1>8, <3>1 DEF SetsSlot, KnownIn, Known
      <3>3. QED
        BY <1>1, <3>1, <3>2 DEF KnownInv
    <2>2. OnlyThrough(output)' /\ OnlyThrough(input)'
      <3>1. OnlyThrough(output) /\ OnlyThrough(input)
        BY DEF LinkInv, FrameInv
      <3>2. OnlyThrough(output')
        BY <1>3, <1>8, <3>1, ThroughSet
      <3>3. QED
        BY <1>1, <3>1, <3>2 DEF OnlyThrough
    <2>3. PassCopied'
      BY <1>4 DEF PassCopied
    <2>4. \A q \in Port : \A j \in 0 .. BUFFER_MAX - 1 : output'[q][j].frame = output[q][j].frame
      BY <1>7, <1>8 DEF SetsSlot
    <2>5. QED
      BY <1>1, <2>1, <2>2, <2>3, <2>4, PassFrames
  <1>12. QED
    BY <1>1, <1>9, <1>10, <1>11, NothingFlows

-----------------------------------------------------------------------------
(***************************************************************************)
(* The steps of the interfaces and of the timer.                           *)
(***************************************************************************)
LEMMA StillLink ==
  ASSUME LinkInv, UNCHANGED <<arrived, sent, rbd, tbd, output, input, eth, pass>>,
         \A q \in Port : nic'[q].tx = nic[q].tx
  PROVE  FrameInv' /\ FlowStep
  <1>1. UNCHANGED <<Tbds, Inputs, Outputs, Rbds>>
    BY TbdsKept, PassUnmoved, OutputsKept DEF Inputs, Rbds
  <1>2. PassCopied'
    BY DEF LinkInv, FrameInv, PassCopied
  <1>3. FrameInv'
    BY <1>2, FramesKept, PassFrames
  <1>4. QED
    BY <1>1, <1>3, NothingFlows

LEMMA NicRestsLink ==
  ASSUME LinkInv, NEW p \in Port, NicReceiveStops(p) \/ NicTransmitStops(p) \/ Interrupt(p)
  PROVE  FrameInv' /\ FlowStep
  <1>1. /\ UNCHANGED <<arrived, sent, rbd, tbd, output, input, eth, pass>>
        /\ nic \in [Port -> NicState]
        /\ nic' = nic \/ nic' = [nic EXCEPT ![p].rdar = FALSE] \/ nic' = [nic EXCEPT ![p].tdar = FALSE]
    BY DEF LinkInv, RingInv, EthernetTypeOK, NicReceiveStops, NicTransmitStops, Interrupt, world
  <1>2. \A q \in Port : nic'[q].tx = nic[q].tx
    <2>1. CASE nic' = nic
      BY <2>1
    <2>2. CASE nic' # nic
      BY <1>1, <2>2, NicMoved, NicHolds
    <2>3. QED
      BY <2>1, <2>2
  <1>3. QED
    BY <1>1, <1>2, StillLink

\* The frames that are on the way arrived.
AllKnown(kinds, s) == \A k \in DOMAIN s : Known(kinds, s[k])

LEMMA ViewKnown ==
  ASSUME NEW size \in Nat \ {0}, NEW head \in 0 .. size - 1, NEW ring \in Slots(size),
         NEW taken \in BOOLEAN, taken => ring[head].full,
         NEW kinds, \A i \in 0 .. size - 1 : Known(kinds, ring[i].frame)
  PROVE  AllKnown(kinds, View(ring, size, head, taken))
  <1>1. PICK s \in Seq(Frame) :
          /\ s = From(ring, size, head) /\ (ring[head].full => s # <<>>)
          /\ \A x \in Range(s) : \E i \in 0 .. size - 1 : ring[i].full /\ x = ring[i].frame
    BY FromTyped
  <1>2. PICK l \in Nat : l = Len(s) /\ DOMAIN s = 1 .. l
    BY <1>1
  <1>3. ASSUME NEW k \in 1 .. l PROVE Known(kinds, s[k])
    <2>1. s[k] \in Range(s)
      BY <1>2 DEF Range
    <2>2. QED
      BY <1>1, <2>1
  <1>4. CASE ~taken
    BY <1>1, <1>2, <1>3, <1>4 DEF View, AllKnown
  <1>5. CASE taken
    <2>1. PICK r \in Seq(Frame) : /\ r = Tail(s) /\ DOMAIN r = 1 .. l - 1
                                  /\ \A k \in 1 .. l - 1 : r[k] = s[k + 1]
      <3>1. s # <<>>
        BY <1>1, <1>5
      <3>2. /\ Tail(s) \in Seq(Frame) /\ Len(Tail(s)) = Len(s) - 1
            /\ \A k \in 1 .. Len(Tail(s)) : Tail(s)[k] = s[k + 1]
        BY <3>1, HeadTailProperties, Zenon
      <3>3. PICK r \in Seq(Frame) : r = Tail(s)
        BY <3>2
      <3>4. Len(r) = l - 1 /\ DOMAIN r = 1 .. l - 1 /\ \A k \in 1 .. l - 1 : r[k] = s[k + 1]
        BY <1>2, <3>2, <3>3
      <3>5. QED
        BY <3>3, <3>4
    <2>2. ASSUME NEW k \in 1 .. l - 1 PROVE Known(kinds, r[k])
      <3>1. k + 1 \in 1 .. l /\ r[k] = s[k + 1]
        BY <1>2, <2>1
      <3>2. QED
        BY <1>3, <3>1
    <2>3. QED
      BY <1>1, <1>5, <2>1, <2>2 DEF View, AllKnown
  <1>6. QED
    BY <1>4, <1>5

LEMMA ViewsKnown ==
  ASSUME LinkInv, NEW p \in Port
  PROVE  /\ AllKnown(arrived, Rbds[p]) /\ AllKnown(arrived, Inputs[p])
         /\ AllKnown(arrived, Outputs[p]) /\ AllKnown(arrived, Tbds[p])
         /\ AllKnown(arrived, sent[p])
  <1>1. RingInv /\ KnownInv
    BY DEF LinkInv, FrameInv
  <1>2. EthernetTypeOK /\ DriverHolds(p)
    BY <1>1 DEF RingInv
  <1>3. /\ rbd[p] \in Slots(RBD_COUNT) /\ tbd[p] \in Slots(TBD_COUNT)
        /\ input[p] \in Slots(BUFFER_MAX) /\ output[p] \in Slots(BUFFER_MAX)
    BY <1>2 DEF EthernetTypeOK
  <1>4. /\ \A i \in 0 .. RBD_COUNT - 1 : Known(arrived, rbd[p][i].frame)
        /\ \A i \in 0 .. TBD_COUNT - 1 : Known(arrived, tbd[p][i].frame)
        /\ \A i \in 0 .. BUFFER_MAX - 1 : Known(arrived, input[p][i].frame)
        /\ \A i \in 0 .. BUFFER_MAX - 1 : Known(arrived, output[p][i].frame)
    BY <1>1 DEF KnownInv, KnownIn
  <1>5. AllKnown(arrived, Rbds[p])
    <2>1. RbdTaken(eth[p].pc) => rbd[p][eth[p].rbd_index].full
      BY <1>2 DEF DriverHolds, Slot, RbdTaken
    <2>2. RbdTaken(eth[p].pc) \in BOOLEAN
      BY DEF RbdTaken
    <2>3. QED
      BY <1>2, <1>3, <1>4, <2>1, <2>2, StateFields, Sizes, ViewKnown DEF Rbds
  <1>6. AllKnown(arrived, Inputs[p])
    <2>1. InputTaken(eth[p].pc) => input[p][eth[p].input_index].full
      BY <1>2 DEF DriverHolds, InputTaken
    <2>2. InputTaken(eth[p].pc) \in BOOLEAN
      BY DEF InputTaken
    <2>3. QED
      BY <1>2, <1>3, <1>4, <2>1, <2>2, StateFields, Sizes, ViewKnown DEF Inputs
  <1>7. AllKnown(arrived, Outputs[p])
    BY <1>1, <1>3, <1>4, HeldOutput, Sizes, ViewKnown DEF Outputs
  <1>8. AllKnown(arrived, Tbds[p])
    BY <1>2, <1>3, <1>4, StateFields, Sizes, ViewKnown DEF Tbds
  <1>9. AllKnown(arrived, sent[p])
    BY <1>1 DEF KnownInv, AllKnown
  <1>10. QED
    BY <1>5, <1>6, <1>7, <1>8, <1>9

LEMMA AllOlder ==
  ASSUME LinkInv, NEW p \in Port, NEW n, n = Len(arrived[p]) + 1
  PROVE  Older(Tbds, p, n) /\ Older(Inputs, p, n) /\ Older(Outputs, p, n) /\ Older(Rbds, p, n)
         /\ Older(sent, p, n)
  <1>1. PICK l \in Nat : l = Len(arrived[p])
    BY DEF LinkInv, RingInv, EthernetTypeOK
  <1>2. ViewsAre(Tbds, Inputs, Outputs, Rbds) /\ sent \in Views
    BY ViewsOfState, SentTyped DEF LinkInv
  <1>3. ASSUME NEW F \in Views, \A q \in Port : AllKnown(arrived, F[q]) PROVE Older(F, p, n)
    <2>1. ASSUME NEW q \in Port, NEW k \in DOMAIN F[q], F[q][k].port = p PROVE F[q][k].n < n
      <3>1. Known(arrived, F[q][k])
        BY <1>3 DEF AllKnown
      <3>2. F[q][k] \in Frame
        BY <1>3 DEF Views
      <3>3. PICK m \in Nat : m = F[q][k].n
        BY <3>2, FrameFields
      <3>4. m <= l
        BY <1>1, <2>1, <3>1, <3>3 DEF Known
      <3>5. QED
        BY <1>1, <3>3, <3>4
    <2>2. QED
      BY <2>1 DEF Older
  <1>4. QED
    BY <1>2, <1>3, ViewsKnown DEF ViewsAre

\* A frame leaves.
LEMMA TransmitLink ==
  ASSUME LinkInv, RingInv', NEW p \in Port, NicTransmit(p) PROVE FrameInv' /\ FlowStep
  <1>1. /\ UNCHANGED <<arrived, rbd, output, input, eth, pass>> /\ tbd[p][nic[p].tx].full
        /\ RingInv /\ nic \in [Port -> NicState] /\ tbd \in [Port -> Slots(TBD_COUNT)]
    BY DEF LinkInv, NicTransmit, RingInv, EthernetTypeOK
  <1>2. PICK i \in 0 .. TBD_COUNT - 1 : i = nic[p].tx
    BY <1>1, StateFields DEF RingInv
  <1>3. PICK x \in Frame : x = tbd[p][i].frame /\ Known(arrived, x)
    BY <1>1, <1>2, HeldFrames, HeldKnown
  <1>4. SetsSlot(tbd, tbd', TBD_COUNT, p, i, FALSE, x)
    <2>1. tbd' = [tbd EXCEPT ![p][i].full = FALSE]
      BY <1>2 DEF NicTransmit
    <2>2. QED
      BY <1>1, <1>2, <1>3, <2>1, SlotSet
  <1>5. NicMoves(nic, nic', p, nic[p].rx, After(i, TBD_COUNT))
    <2>1. nic[p].eir \cup {"txf"} \in Causes
      BY <1>1, StateFields DEF Causes, RingInv
    <2>2. nic' = [nic EXCEPT ![p].tx = After(i, TBD_COUNT), ![p].eir = nic[p].eir \cup {"txf"}]
      BY <1>1, <1>2 DEF NicTransmit
    <2>3. After(i, TBD_COUNT) \in 0 .. TBD_COUNT - 1
      BY <1>2, Sizes
    <2>4. QED
      BY <1>1, <2>1, <2>2, <2>3, NicMoved
  <1>6. Gives(Tbds, Tbds', p, x)
    <2>1. /\ NicMoves(nic, nic', p, nic[p].rx, After(nic[p].tx, TBD_COUNT))
          /\ SetsSlot(tbd, tbd', TBD_COUNT, p, nic[p].tx, FALSE, x)
      BY <1>2, <1>4, <1>5
    <2>2. Gives(Tbds, Tbds', p, tbd[p][nic[p].tx].frame)
      BY <1>1, <2>1, TbdsGiven
    <2>3. QED
      BY <1>2, <1>3, <2>2
  <1>7. /\ sent \in Views /\ sent' \in Views /\ Gets(sent, sent', p, x)
        /\ sent'[p] = Append(sent[p], x)
    <2>1. sent \in [Port -> Seq(Frame)] /\ sent' = [sent EXCEPT ![p] = Append(sent[p], x)]
      BY <1>2, <1>3 DEF LinkInv, FrameInv, KnownInv, NicTransmit
    <2>2. Append(sent[p], x) \in Seq(Frame)
      BY <1>3, <2>1
    <2>3. QED
      BY <2>1, <2>2 DEF Views, Gets
  <1>8. UNCHANGED <<Rbds, Inputs, Outputs>>
    BY <1>1, PassUnmoved, OutputsKept DEF Rbds, Inputs
  <1>9. FlowStep
    <2>1. ViewsAre(Tbds, Inputs, Outputs, Rbds) /\ Tbds' \in Views
      BY <1>1, ViewsOfState, ViewsOfNext DEF ViewsAre
    <2>2. LinkSteps(Tbds, Inputs, Outputs, Rbds, sent, Tbds', Inputs, Outputs, Rbds, sent')
      BY <1>3, <1>6, <1>7, <2>1, TransmitsLink DEF ViewsAre
    <2>3. QED
      BY <1>8, <2>2 DEF FlowStep
  <1>10. KnownInv'
    <2>1. KnownInv /\ KnownIn(arrived, tbd, TBD_COUNT)
      BY DEF LinkInv, FrameInv, KnownInv
    <2>2. KnownIn(arrived, tbd', TBD_COUNT)
      BY <1>3, <1>4, <2>1 DEF SetsSlot, KnownIn, Known
    <2>3. ASSUME NEW q \in Port, NEW k \in DOMAIN sent'[q] PROVE Known(arrived, sent'[q][k])
      <3>1. CASE q = p
        <4>1. PICK s \in Seq(Frame) : s = sent[p] /\ AllKnown(arrived, s)
          BY <1>7, ViewsKnown DEF Views
        <4>2. PICK l \in Nat : l = Len(s) /\ DOMAIN s = 1 .. l
          BY <4>1
        <4>3. PICK r \in Seq(Frame) : /\ r = Append(s, x) /\ DOMAIN r = 1 .. l + 1 /\ r[l + 1] = x
                                      /\ \A j \in 1 .. l : r[j] = s[j]
          <5>1. /\ Append(s, x) \in Seq(Frame) /\ Len(Append(s, x)) = Len(s) + 1
                /\ \A j \in 1 .. Len(s) : Append(s, x)[j] = s[j]
                /\ Append(s, x)[Len(s) + 1] = x
            BY <1>3, <4>1, AppendProperties
          <5>2. PICK r \in Seq(Frame) : r = Append(s, x)
            BY <5>1
          <5>3. /\ Len(r) = l + 1 /\ DOMAIN r = 1 .. l + 1 /\ r[l + 1] = x
                /\ \A j \in 1 .. l : r[j] = s[j]
            BY <4>2, <5>1, <5>2
          <5>4. QED
            BY <5>2, <5>3
        <4>4. r = sent'[q]
          BY <1>7, <3>1, <4>1, <4>3
        <4>5. CASE k = l + 1
          BY <1>3, <4>3, <4>4, <4>5
        <4>6. CASE k # l + 1
          <5>1. k \in 1 .. l
            BY <4>2, <4>3, <4>4, <4>6
          <5>2. Known(arrived, s[k])
            BY <4>1, <4>2, <5>1 DEF AllKnown
          <5>3. QED
            BY <4>3, <4>4, <5>1, <5>2
        <4>7. QED
          BY <4>5, <4>6
      <3>2. CASE q # p
        <4>1. sent'[q] = sent[q] /\ AllKnown(arrived, sent[q])
          BY <1>7, <3>2, ViewsKnown DEF Gets
        <4>2. QED
          BY <4>1 DEF AllKnown
      <3>3. QED
        BY <3>1, <3>2
    <2>4. QED
      BY <1>1, <1>7, <2>1, <2>2, <2>3 DEF KnownInv, Views
  <1>11. FrameInv'
    <2>1. OnlyThrough(output)' /\ OnlyThrough(input)' /\ PassCopied'
      BY <1>1 DEF LinkInv, FrameInv, PassCopied
    <2>2. QED
      BY <1>1, <1>10, <2>1, PassFrames
  <1>12. QED
    BY <1>9, <1>11

\* A frame arrives.
LEMMA ReceiveLink ==
  ASSUME LinkInv, RingInv', NEW p \in Port, NicReceive(p) PROVE FrameInv' /\ FlowStep
  <1>1. /\ UNCHANGED <<sent, tbd, output, input, eth, pass>> /\ ~rbd[p][nic[p].rx].full
        /\ RingInv /\ nic \in [Port -> NicState] /\ rbd \in [Port -> Slots(RBD_COUNT)]
        /\ arrived \in [Port -> Seq(Kind)]
    BY DEF LinkInv, NicReceive, RingInv, EthernetTypeOK
  <1>2. PICK i \in 0 .. RBD_COUNT - 1 : i = nic[p].rx
    BY <1>1, StateFields DEF RingInv
  <1>3. PICK n \in Nat : n = Len(arrived[p]) + 1
    BY <1>1
  <1>4. PICK k \in Kind :
          /\ arrived' = [arrived EXCEPT ![p] = Append(arrived[p], k)]
          /\ rbd' = [rbd EXCEPT ![p][i] = [full |-> TRUE, frame |-> [port |-> p, kind |-> k, n |-> n]]]
    BY <1>1, <1>2, <1>3 DEF NicReceive
  <1> DEFINE x == [port |-> p, kind |-> k, n |-> n]
  <1>5. /\ x \in Frame /\ x.port = p /\ x.n = n
        /\ rbd' = [rbd EXCEPT ![p][i] = [full |-> TRUE, frame |-> x]]
    BY <1>3, <1>4 DEF Frame
  <1> HIDE DEF x
  <1>6. SetsSlot(rbd, rbd', RBD_COUNT, p, i, TRUE, x)
    BY <1>1, <1>2, <1>5, SlotSet
  <1>7. /\ arrived' \in [Port -> Seq(Kind)] /\ Len(arrived'[p]) = n
        /\ \A q \in Port : Len(arrived[q]) <= Len(arrived'[q])
    <2>1. PICK a \in Seq(Kind) : a = Append(arrived[p], k) /\ Len(a) = n
      <3>1. PICK b \in Seq(Kind) : b = arrived[p]
        BY <1>1
      <3>2. Append(b, k) \in Seq(Kind) /\ Len(Append(b, k)) = Len(b) + 1
        BY <1>4, <3>1, AppendProperties
      <3>3. QED
        BY <1>3, <3>1, <3>2
    <2>2. arrived' = [arrived EXCEPT ![p] = a]
      BY <1>4, <2>1
    <2>3. arrived'[p] = a /\ \A q \in Port \ {p} : arrived'[q] = arrived[q]
      BY <1>1, <2>2
    <2>4. PICK m \in Nat : m = Len(arrived[p]) /\ m <= n
      BY <1>1, <1>3
    <2>5. ASSUME NEW q \in Port
          PROVE  arrived'[q] \in Seq(Kind) /\ Len(arrived[q]) <= Len(arrived'[q])
      <3>1. CASE q = p
        BY <2>1, <2>3, <2>4, <3>1
      <3>2. CASE q # p
        <4>1. Len(arrived[q]) \in Nat /\ arrived'[q] = arrived[q] /\ arrived[q] \in Seq(Kind)
          BY <1>1, <2>3, <3>2
        <4>2. PICK l \in Nat : l = Len(arrived[q])
          BY <4>1
        <4>3. QED
          BY <4>1, <4>2
      <3>3. QED
        BY <3>1, <3>2
    <2>6. QED
      BY <1>1, <2>1, <2>2, <2>3, <2>5
  <1>8. \A q \in Port : nic'[q].tx = nic[q].tx
    <2>1. nic[p].eir \cup {"rxf"} \in Causes
      BY <1>1, StateFields DEF Causes, RingInv
    <2>2. PICK j \in 0 .. RBD_COUNT - 1 : j = After(i, RBD_COUNT)
      BY <1>2, Sizes
    <2>3. nic' = [nic EXCEPT ![p].rx = j, ![p].eir = nic[p].eir \cup {"rxf"}]
      BY <1>1, <1>2, <2>2 DEF NicReceive
    <2>4. QED
      BY <1>1, <2>1, <2>2, <2>3, NicMoved, NicHolds
  <1>9. UNCHANGED <<Tbds, Inputs, Outputs>>
    BY <1>1, <1>8, TbdsKept, PassUnmoved, OutputsKept DEF Inputs
  <1>10. Gets(Rbds, Rbds', p, x)
    <2>1. SetsSlot(rbd, rbd', RBD_COUNT, p, nic[p].rx, TRUE, x)
      BY <1>2, <1>6
    <2>2. QED
      BY <1>1, <1>5, <2>1, RbdsGot
  <1>11. FlowStep
    <2>1. ViewsAre(Tbds, Inputs, Outputs, Rbds) /\ Rbds' \in Views /\ sent \in Views
      BY <1>1, ViewsOfState, ViewsOfNext, SentTyped DEF ViewsAre
    <2>2. /\ Older(Tbds, p, x.n) /\ Older(Inputs, p, x.n) /\ Older(Outputs, p, x.n)
          /\ Older(Rbds, p, x.n) /\ Older(sent, p, x.n)
      BY <1>3, <1>5, AllOlder
    <2>3. LinkSteps(Tbds, Inputs, Outputs, Rbds, sent, Tbds, Inputs, Outputs, Rbds', sent)
      BY <1>5, <1>10, <2>1, <2>2, ReceivesLink DEF ViewsAre
    <2>4. QED
      BY <1>1, <1>9, <2>3 DEF FlowStep
  <1>12. ASSUME NEW y \in Frame, Known(arrived, y) PROVE Known(arrived', y)
    <2>1. y.port \in Port /\ y.n \in Nat
      BY FrameFields
    <2>2. PICK l, m \in Nat : l = Len(arrived[y.port]) /\ m = Len(arrived'[y.port]) /\ l <= m
      <3>1. PICK a, b \in Seq(Kind) : a = arrived[y.port] /\ b = arrived'[y.port]
        BY <1>1, <1>7, <2>1
      <3>2. Len(a) \in Nat /\ Len(b) \in Nat /\ Len(a) <= Len(b)
        BY <1>7, <2>1, <3>1
      <3>3. QED
        BY <3>1, <3>2
    <2>3. QED
      BY <1>12, <2>1, <2>2 DEF Known
  <1>13. KnownInv'
    <2>1. KnownInv /\ sent \in Views
      BY SentTyped DEF LinkInv, FrameInv
    <2>2. Known(arrived', x)
      BY <1>3, <1>5, <1>7 DEF Known
    <2>3. ASSUME NEW size, NEW f \in [Port -> Slots(size)], KnownIn(arrived, f, size)
          PROVE  KnownIn(arrived', f, size)
      <3>1. ASSUME NEW q \in Port, NEW j \in 0 .. size - 1 PROVE Known(arrived', f[q][j].frame)
        <4>1. f[q][j].frame \in Frame /\ Known(arrived, f[q][j].frame)
          BY <2>3, SlotFrame DEF KnownIn
        <4>2. QED
          BY <1>12, <4>1
      <3>2. QED
        BY <3>1 DEF KnownIn
    <2>4. /\ KnownIn(arrived', rbd, RBD_COUNT) /\ KnownIn(arrived', tbd, TBD_COUNT)
          /\ KnownIn(arrived', output, BUFFER_MAX) /\ KnownIn(arrived', input, BUFFER_MAX)
      BY <1>1, <2>1, <2>3, RingTypes DEF KnownInv
    <2>5. KnownIn(arrived', rbd', RBD_COUNT)
      BY <1>6, <2>2, <2>4 DEF SetsSlot, KnownIn
    <2>6. ASSUME NEW q \in Port, NEW j \in DOMAIN sent[q] PROVE Known(arrived', sent[q][j])
      <3>1. sent[q][j] \in Frame /\ Known(arrived, sent[q][j])
        BY <2>1 DEF KnownInv, Views
      <3>2. QED
        BY <1>12, <3>1
    <2>7. QED
      BY <1>1, <2>1, <2>4, <2>5, <2>6 DEF KnownInv
  <1>14. FrameInv'
    <2>1. OnlyThrough(output)' /\ OnlyThrough(input)' /\ PassCopied'
      BY <1>1 DEF LinkInv, FrameInv, PassCopied
    <2>2. ASSUME NEW q \in Port PROVE DriverCopied(q)'
      <3>1. CASE eth[q].pc = "publish"
        <4>1. Slot(q).full /\ DriverCopied(q) /\ eth[q].rbd_index \in 0 .. RBD_COUNT - 1
          BY <1>1, <3>1, StateFields DEF RingInv, DriverHolds, LinkInv, FrameInv
        <4>2. Slot(q)' = Slot(q)
          BY <1>1, <1>2, <1>6, <4>1 DEF SetsSlot, Slot
        <4>3. QED
          BY <1>1, <4>1, <4>2 DEF DriverCopied
      <3>2. QED
        BY <1>1, <3>1 DEF DriverCopied
    <2>3. QED
      BY <1>13, <2>1, <2>2 DEF FrameInv
  <1>15. QED
    BY <1>11, <1>14

-----------------------------------------------------------------------------
(***************************************************************************)
(* Every step moves one frame at most, and FrameLink is implemented.       *)
(***************************************************************************)
LEMMA LinkInvStep == LinkInv /\ [Next]_vars => LinkInv' /\ FlowStep
  <1> SUFFICES ASSUME LinkInv, [Next]_vars PROVE LinkInv' /\ FlowStep
    OBVIOUS
  <1>1. RingInv'
    BY RingInvStep DEF LinkInv
  <1>2. CASE \E p \in Port : NicNext(p)
    <2>1. PICK p \in Port : NicNext(p)
      BY <1>2
    <2>2. CASE NicReceiveStops(p) \/ NicTransmitStops(p) \/ Interrupt(p)
      BY <1>1, <2>2, NicRestsLink DEF LinkInv
    <2>3. CASE NicReceive(p)
      BY <1>1, <2>3, ReceiveLink DEF LinkInv
    <2>4. CASE NicTransmit(p)
      BY <1>1, <2>4, TransmitLink DEF LinkInv
    <2>5. QED
      BY <2>1, <2>2, <2>3, <2>4 DEF NicNext
  <1>3. CASE \E p \in Port : DriverNext(p)
    BY <1>1, <1>3, DriverLink DEF LinkInv
  <1>4. CASE PassStep
    BY <1>1, <1>4, PassTurnsLink, PassNotifyLink, PassCopyLink, PassPublishLink, PassFreeLink
    DEF PassStep, LinkInv
  <1>5. CASE Tick \/ UNCHANGED vars
    <2>1. UNCHANGED <<arrived, sent, rbd, tbd, nic, output, input, eth, pass>>
      BY <1>5 DEF Tick, vars, world
    <2>2. QED
      BY <1>1, <2>1, StillLink DEF LinkInv
  <1>6. QED
    BY <1>2, <1>3, <1>4, <1>5 DEF Next

LEMMA InitLinkInv == Init => LinkInv
  <1> SUFFICES ASSUME Init PROVE LinkInv
    OBVIOUS
  <1>1. Known(arrived, Nothing)
    BY DEF Init, Known, Nothing, Port
  <1>2. ASSUME NEW size, NEW p \in Port, NEW i \in 0 .. size - 1
        PROVE  EmptyRing(size)[i].full = FALSE /\ EmptyRing(size)[i].frame = Nothing
    BY DEF EmptyRing
  <1>3. KnownInv
    <2>1. ASSUME NEW size PROVE KnownIn(arrived, [p \in Port |-> EmptyRing(size)], size)
      BY <1>1, <1>2 DEF KnownIn
    <2>2. sent \in [Port -> Seq(Frame)] /\ \A p \in Port : DOMAIN sent[p] = {}
      BY DEF Init
    <2>3. QED
      BY <2>1, <2>2 DEF KnownInv, Init
  <1>4. OnlyThrough(output) /\ OnlyThrough(input)
    BY <1>2 DEF OnlyThrough, Init
  <1>5. PassCopied /\ \A p \in Port : DriverCopied(p)
    BY DEF Init, PassCopied, DriverCopied
  <1>6. QED
    BY <1>3, <1>4, <1>5, InitRingInv DEF LinkInv, FrameInv

\* The queues of FrameLink, by the views.
LEMMA QueuesAre ==
  RingInv => \A f \in Flow : OnTheWay(f) = Queued(f, Tbds, Inputs, Outputs, Rbds)
  BY ViewsOf, FlowEnds DEF RingInv, OnTheWay, Queued

LEMMA QueuesNext ==
  RingInv' => \A f \in Flow : OnTheWay(f)' = Queued(f, Tbds', Inputs', Outputs', Rbds')
  <1>1. RingInv' => (\A f \in Flow : OnTheWay(f) = Queued(f, Tbds, Inputs, Outputs, Rbds))'
    BY QueuesAre, PTL
  <1>2. QED
    BY <1>1 DEF Queued

LEMMA FlowSteps ==
  ASSUME LinkInv, LinkInv', FlowStep, NEW f \in Flow
  PROVE  FrameLinkStep(OnTheWay(f), Sent(f), OnTheWay(f)', Sent(f)')
  <1>1. ViewsAre(Tbds, Inputs, Outputs, Rbds) /\ ViewsAre(Tbds', Inputs', Outputs', Rbds')
    BY ViewsOfState, ViewsOfNext DEF LinkInv, ViewsAre
  <1>2. f[1] \in Port /\ f[2] \in Port
    BY FlowEnds
  <1>3. PICK q, q2 \in Seq(Nat) : /\ q = Queued(f, Tbds, Inputs, Outputs, Rbds)
                                  /\ q2 = Queued(f, Tbds', Inputs', Outputs', Rbds')
    <2>1. /\ InPieces(f, f[1], f[2], Tbds, Inputs, Outputs, Rbds)
          /\ InPieces(f, f[1], f[2], Tbds', Inputs', Outputs', Rbds')
      BY <1>1, <1>2, QueuedPieces DEF ViewsAre
    <2>2. QED
      BY <2>1 DEF InPieces
  <1>4. PICK t \in Seq(Nat) : t = Numbers(sent[f[2]], f)
    BY <1>2, SentTyped, NumbersTyped
  <1>5. PICK t2 : t2 = Numbers(sent'[f[2]], f)
    OBVIOUS
  <1>6. LinkStep(q, t, q2, t2)
    BY <1>3, <1>4, <1>5 DEF FlowStep, LinkSteps
  <1>7. FrameLinkStep(q, t, q2, t2)
    BY <1>6, LinkStepIsStep
  <1>8. OnTheWay(f) = q /\ OnTheWay(f)' = q2
    BY <1>3, QueuesAre, QueuesNext DEF LinkInv
  <1>9. Sent(f) = t /\ Sent(f)' = t2
    BY <1>4, <1>5 DEF Sent
  <1>10. QED
    BY <1>7, <1>8, <1>9, Zenon

\* At the beginning nothing is on the way.
LEMMA InitViews ==
  ASSUME Init, NEW p \in Port
  PROVE  Tbds[p] = <<>> /\ Inputs[p] = <<>> /\ Outputs[p] = <<>> /\ Rbds[p] = <<>> /\ sent[p] = <<>>
  <1>1. ASSUME NEW size \in Nat \ {0} PROVE From(EmptyRing(size), size, 0) = <<>>
    <2>1. EmptyRing(size) \in Slots(size) /\ 0 \in 0 .. size - 1 /\ ~EmptyRing(size)[0].full
      BY DEF EmptyRing, Nothing, Slots, SlotState, Frame, Port, Kind
    <2>2. QED
      BY <2>1, FromTyped
  <1>2. /\ rbd[p] = EmptyRing(RBD_COUNT) /\ tbd[p] = EmptyRing(TBD_COUNT)
        /\ output[p] = EmptyRing(BUFFER_MAX) /\ input[p] = EmptyRing(BUFFER_MAX)
        /\ nic[p].tx = 0 /\ eth[p].pc = "loop" /\ eth[p].rbd_index = 0
        /\ eth[p].input_index = 0 /\ pass.pc = "loop" /\ pass.input_index[p] = 0
        /\ sent[p] = <<>>
    BY DEF Init
  <1>3. ~RbdTaken(eth[p].pc) /\ ~InputTaken(eth[p].pc) /\ ~OutputTaken(p) /\ OutputHead(p) = 0
    BY <1>2 DEF RbdTaken, InputTaken, OutputTaken, OutputHead, Copying
  <1>4. /\ View(rbd[p], RBD_COUNT, eth[p].rbd_index, RbdTaken(eth[p].pc)) = <<>>
        /\ View(input[p], BUFFER_MAX, eth[p].input_index, InputTaken(eth[p].pc)) = <<>>
        /\ View(output[p], BUFFER_MAX, OutputHead(p), OutputTaken(p)) = <<>>
        /\ View(tbd[p], TBD_COUNT, nic[p].tx, FALSE) = <<>>
    BY <1>1, <1>2, <1>3, Sizes DEF View
  <1>5. QED
    BY <1>2, <1>4 DEF Tbds, Inputs, Outputs, Rbds

LEMMA InitFlow == ASSUME Init, NEW f \in Flow PROVE OnTheWay(f) = <<>> /\ Sent(f) = <<>>
  <1>1. f[1] \in Port /\ f[2] \in Port
    BY FlowEnds
  <1>2. Numbers(<<>>, f) = <<>>
    BY NumbersOf
  <1>3. Sent(f) = <<>>
    BY <1>1, <1>2, InitViews DEF Sent
  <1>4. \A a \in Port : /\ Numbers(Tbds[a], f) = <<>> /\ Numbers(Inputs[a], f) = <<>>
                        /\ Numbers(Outputs[a], f) = <<>> /\ Numbers(Rbds[a], f) = <<>>
    BY <1>2, InitViews
  <1>5. <<>> \o <<>> = <<>>
    OBVIOUS
  <1>6. Queued(f, Tbds, Inputs, Outputs, Rbds) = <<>>
    BY <1>1, <1>4, <1>5, Zenon DEF Queued
  <1>7. QED
    BY <1>3, <1>6, InitRingInv, QueuesAre

(***************************************************************************)
(* For rings of any size and frames in any number, each of the three flows *)
(* of frames is a FIFO that may lose frames and does not reorder, repeat,  *)
(* change or invent any: whatever the drivers, pass and the interfaces do  *)
(* is a step of FrameLink or none (handle_rx, send_frame and notified of   *)
(* the drivers, notified of pass.c).                                       *)
(***************************************************************************)
THEOREM ExampleImplementsLink == Spec => ImplementsLink
  <1> DEFINE inward == <<"outer", "inner">>
             outward == <<"inner", "outer">>
             answers == <<"outer", "outer">>
  <1>1. inward \in Flow /\ outward \in Flow /\ answers \in Flow
    BY DEF Flow
  <1>2. Init => Inward!Init /\ Outward!Init /\ Answers!Init
    BY <1>1, InitFlow DEF Inward!Init, Outward!Init, Answers!Init
  <1>3. LinkInv /\ [Next]_vars => LinkInv'
    BY LinkInvStep
  <1>4. ASSUME LinkInv, LinkInv', [Next]_vars
        PROVE  /\ [Inward!Next]_(Inward!linkVars)
               /\ [Outward!Next]_(Outward!linkVars)
               /\ [Answers!Next]_(Answers!linkVars)
    <2>1. FlowStep
      BY <1>4, LinkInvStep
    <2>2. ASSUME NEW f \in Flow PROVE FrameLinkStep(OnTheWay(f), Sent(f), OnTheWay(f)', Sent(f)')
      BY <1>4, <2>1, FlowSteps
    <2>3. [Inward!Next]_(Inward!linkVars)
      <3>1. FrameLinkStep(OnTheWay(inward), Sent(inward), OnTheWay(inward)', Sent(inward)')
        BY <1>1, <2>2
      <3>2. QED
        BY <3>1
        DEF FrameLinkStep, FrontOf, RangeOf, Without, Inward!linkVars, Inward!Next, Inward!Arrive,
            Inward!Transmit, Inward!Lose, Inward!Front, Inward!Last, Inward!Range, Inward!RemoveAt
    <2>4. [Outward!Next]_(Outward!linkVars)
      <3>1. FrameLinkStep(OnTheWay(outward), Sent(outward), OnTheWay(outward)', Sent(outward)')
        BY <1>1, <2>2
      <3>2. QED
        BY <3>1
        DEF FrameLinkStep, FrontOf, RangeOf, Without, Outward!linkVars, Outward!Next,
            Outward!Arrive, Outward!Transmit, Outward!Lose, Outward!Front, Outward!Last,
            Outward!Range, Outward!RemoveAt
    <2>5. [Answers!Next]_(Answers!linkVars)
      <3>1. FrameLinkStep(OnTheWay(answers), Sent(answers), OnTheWay(answers)', Sent(answers)')
        BY <1>1, <2>2
      <3>2. QED
        BY <3>1
        DEF FrameLinkStep, FrontOf, RangeOf, Without, Answers!linkVars, Answers!Next,
            Answers!Arrive, Answers!Transmit, Answers!Lose, Answers!Front, Answers!Last,
            Answers!Range, Answers!RemoveAt
    <2>6. QED
      BY <2>3, <2>4, <2>5
  <1>5. QED
    BY <1>2, <1>3, <1>4, InitLinkInv, PTL
    DEF Spec, ImplementsLink, Inward!Spec, Outward!Spec, Answers!Spec
=============================================================================
