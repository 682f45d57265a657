----------------------------- MODULE RegionProofs -----------------------------
(***************************************************************************)
(* The operators of tool/microkit/util.py, for all regions and sizes:      *)
(* DisjointMemoryRegion keeps exactly the addresses it should, rounding    *)
(* goes to the next multiple, and aligned_power_of_two_regions cuts a      *)
(* region into aligned powers of two.                                      *)
(***************************************************************************)
EXTENDS MemoryRegions, SequenceTheorems, TLAPS

Inserts == INSTANCE FoldInduction WITH op <- InsertRegion
Removes == INSTANCE FoldInduction WITH op <- RemoveRegion

Lies(a, region) == region.base <= a /\ a < region.end
Held(a, rs) == \E n \in DOMAIN rs : Lies(a, rs[n])
Clear(r, s) == r.end <= s.base \/ s.end <= r.base

LEMMA RegionFields ==
  ASSUME NEW rs \in Seq(Region)
  PROVE  /\ Len(rs) \in Nat /\ DOMAIN rs = 1 .. Len(rs)
         /\ \A n \in 1 .. Len(rs) : /\ rs[n] \in Region /\ rs[n].base \in Nat /\ rs[n].end \in Nat
                                   /\ rs[n].base <= rs[n].end
  <1>1. \A n \in 1 .. Len(rs) : rs[n] \in Region
    OBVIOUS
  <1>2. QED
    BY <1>1 DEF Region

LEMMA HeldAddresses ==
  ASSUME NEW rs \in Seq(Region)
  PROVE  Addresses(rs) = {a \in Int : Held(a, rs)}
  <1>1. \A n \in DOMAIN rs : rs[n].base \in Int /\ rs[n].end \in Int
    BY DEF Region
  <1>2. \A n \in DOMAIN rs : rs[n].base .. rs[n].end - 1 = {a \in Int : Lies(a, rs[n])}
    BY <1>1 DEF Lies
  <1>3. QED
    BY <1>2 DEF Addresses, Held

Covering(rs, old) == SelectInSeq(rs, LAMBDA region : Within(old, region))

LEMMA SelectedFirst ==
  ASSUME NEW rs \in Seq(Region), NEW old, Covers(rs, old)
  PROVE  Covering(rs, old) \in 1 .. Len(rs) /\ Within(old, rs[Covering(rs, old)])
  <1> DEFINE I == {n \in 1 .. Len(rs) : Within(old, rs[n])}
  <1>1. I # {} /\ I \in SUBSET Nat
    BY DEF Covers
  <1>2. \E n \in I : \A m \in I : n <= m
    <2> HIDE DEF I
    <2>1. QED
      BY <1>1, Inserts!LeastNatural
  <1>3. Min(I) \in I
    BY <1>2 DEF Min
  <1>4. Covering(rs, old) = Min(I)
    BY <1>1 DEF Covering, SelectInSeq
  <1>5. QED
    BY <1>3, <1>4

\* What is left of region when old is taken out of it.
Pieces(ps, region, old) ==
  /\ Len(ps) <= 2
  /\ \A k \in DOMAIN ps : Within(ps[k], region) /\ Clear(ps[k], old)
  /\ \A k \in DOMAIN ps : ps[k].base \in {region.base, old.end}
  /\ Len(ps) = 2 => ps[1].end <= old.base /\ old.end <= ps[2].base
  /\ \A a \in Int : Lies(a, region) /\ ~Lies(a, old) => Held(a, ps)
  /\ region.base < old.base => Len(ps) > 0 /\ ps[1] = MemoryRegion(region.base, old.base)

LEMMA TwoElements ==
  ASSUME NEW S, NEW b \in S, NEW c \in S
  PROVE  <<b>> \o <<c>> = <<b, c>> /\ <<b, c>> \in Seq(S)
  <1> DEFINE s == <<b>> \o <<c>>
             t == <<b, c>>
  <1>1. <<b>> \in Seq(S) /\ <<c>> \in Seq(S) /\ t \in Seq(S)
    OBVIOUS
  <1>2. s \in Seq(S) /\ Len(s) = 2 /\ s[1] = b /\ s[2] = c
    BY <1>1, ConcatProperties
  <1>3. Len(t) = 2 /\ t[1] = b /\ t[2] = c
    OBVIOUS
  <1>4. Len(s) = Len(t) /\ \A k \in 1 .. Len(s) : s[k] = t[k]
    BY <1>2, <1>3
  <1>5. s = t
    <2> HIDE DEF s, t
    <2>1. QED
      BY <1>1, <1>2, <1>4, SeqEqual
  <1>6. QED
    BY <1>1, <1>5

LEMMA RemovedPieces ==
  ASSUME NEW region \in Region, NEW old \in Region, Within(old, region)
  PROVE  LET before == IF region.base = old.base THEN <<>>
                       ELSE <<MemoryRegion(region.base, old.base)>>
             after == IF region.end = old.end THEN <<>> ELSE <<MemoryRegion(old.end, region.end)>>
         IN before \o after \in Seq(Region) /\ Pieces(before \o after, region, old)
  <1> DEFINE b == MemoryRegion(region.base, old.base)
             c == MemoryRegion(old.end, region.end)
  <1>1. b \in Region /\ c \in Region
    BY DEF MemoryRegion, Region, Within
  <1>2. CASE region.base = old.base /\ region.end = old.end
    BY <1>2 DEF Pieces, Lies, Held, Region
  <1>3. CASE region.base = old.base /\ region.end # old.end
    <2>1. <<>> \o <<c>> = <<c>>
      BY <1>1
    <2>2. Pieces(<<c>>, region, old)
      BY <1>3 DEF Pieces, Lies, Held, Region, Within, Clear, MemoryRegion
    <2>3. QED
      BY <1>1, <1>3, <2>1, <2>2
  <1>4. CASE region.base # old.base /\ region.end = old.end
    <2>1. <<b>> \o <<>> = <<b>>
      BY <1>1
    <2>2. Pieces(<<b>>, region, old)
      BY <1>4 DEF Pieces, Lies, Held, Region, Within, Clear, MemoryRegion
    <2>3. QED
      BY <1>1, <1>4, <2>1, <2>2
  <1>5. CASE region.base # old.base /\ region.end # old.end
    <2>1. <<b>> \o <<c>> = <<b, c>> /\ <<b, c>> \in Seq(Region)
      <3> HIDE DEF b, c
      <3>1. QED
        BY <1>1, TwoElements
    <2>2. Pieces(<<b, c>>, region, old)
      BY <1>5 DEF Pieces, Lies, Held, Region, Within, Clear, MemoryRegion
    <2>3. QED
      BY <1>1, <1>5, <2>1, <2>2
  <1>6. QED
    BY <1>2, <1>3, <1>4, <1>5

\* The sequence rs with ps in place of element n.
Spliced(next, rs, n, ps) ==
  /\ next \in Seq(Region)
  /\ Len(next) = Len(rs) - 1 + Len(ps)
  /\ \A k \in 1 .. n - 1 : next[k] = rs[k]
  /\ \A k \in 1 .. Len(ps) : next[n - 1 + k] = ps[k]
  /\ \A k \in n + 1 .. Len(rs) : next[k - 1 + Len(ps)] = rs[k]

LEMMA ConcatIndex ==
  ASSUME NEW s \in Seq(Region), NEW t \in Seq(Region)
  PROVE  /\ s \o t \in Seq(Region) /\ Len(s \o t) = Len(s) + Len(t)
         /\ \A k \in 1 .. Len(s) : (s \o t)[k] = s[k]
         /\ \A k \in 1 .. Len(t) : (s \o t)[Len(s) + k] = t[k]
  OBVIOUS

LEMMA Splice ==
  ASSUME NEW rs \in Seq(Region), NEW n \in 1 .. Len(rs), NEW ps \in Seq(Region)
  PROVE  Spliced(SubSeq(rs, 1, n - 1) \o ps \o SubSeq(rs, n + 1, Len(rs)), rs, n, ps)
  <1> DEFINE s == SubSeq(rs, 1, n - 1)
             t == SubSeq(rs, n + 1, Len(rs))
             u == s \o ps
             next == u \o t
  <1>1. s \in Seq(Region) /\ Len(s) = n - 1 /\ \A k \in 1 .. n - 1 : s[k] = rs[k]
    OBVIOUS
  <1>2. t \in Seq(Region) /\ Len(t) = Len(rs) - n /\ \A k \in 1 .. Len(rs) - n : t[k] = rs[n + k]
    OBVIOUS
  <1> HIDE DEF s, t
  <1>3. /\ u \in Seq(Region) /\ Len(u) = Len(s) + Len(ps)
        /\ \A k \in 1 .. Len(s) : u[k] = s[k]
        /\ \A k \in 1 .. Len(ps) : u[Len(s) + k] = ps[k]
    BY <1>1, ConcatIndex
  <1> HIDE DEF u
  <1>4. /\ next \in Seq(Region) /\ Len(next) = Len(u) + Len(t)
        /\ \A k \in 1 .. Len(u) : next[k] = u[k]
        /\ \A k \in 1 .. Len(t) : next[Len(u) + k] = t[k]
    BY <1>2, <1>3, ConcatIndex
  <1> HIDE DEF next
  <1>5. Len(ps) \in Nat /\ Len(rs) \in Nat
    OBVIOUS
  <1>6. Len(next) = Len(rs) - 1 + Len(ps)
    BY <1>1, <1>2, <1>3, <1>4, <1>5
  <1>7. ASSUME NEW k \in 1 .. n - 1 PROVE next[k] = rs[k]
    <2>1. k \in 1 .. Len(s) /\ k \in 1 .. Len(u)
      BY <1>1, <1>3, <1>5
    <2>2. QED
      BY <1>1, <1>3, <1>4, <2>1
  <1>8. ASSUME NEW k \in 1 .. Len(ps) PROVE next[n - 1 + k] = ps[k]
    <2>1. n - 1 + k = Len(s) + k /\ n - 1 + k \in 1 .. Len(u)
      BY <1>1, <1>3, <1>5
    <2>2. QED
      BY <1>3, <1>4, <2>1
  <1>9. ASSUME NEW k \in n + 1 .. Len(rs) PROVE next[k - 1 + Len(ps)] = rs[k]
    <2>1. k - n \in 1 .. Len(t) /\ n + (k - n) = k /\ Len(u) + (k - n) = k - 1 + Len(ps)
      BY <1>1, <1>2, <1>3, <1>5
    <2>2. next[Len(u) + (k - n)] = t[k - n]
      BY <1>4, <2>1
    <2>3. QED
      BY <1>2, <2>1, <2>2
  <1>10. QED
    BY <1>4, <1>6, <1>7, <1>8, <1>9 DEF Spliced, next, u, s, t

\* There are gaps between the regions.
Apart(rs) == \A m, n \in DOMAIN rs : m < n => rs[m].end < rs[n].base

\* The sequence holds what is in rs and not in old.
Without(next, rs, old) ==
  /\ next \in Seq(Region) /\ Disjoint(next)
  /\ \A a \in Int : Held(a, next) <=> Held(a, rs) /\ ~Lies(a, old)
  /\ \A n \in DOMAIN next : Clear(next[n], old) /\ \E m \in DOMAIN rs : Within(next[n], rs[m])

\* Where the elements of a spliced sequence come from.
LEMMA SplicedFrom ==
  ASSUME NEW rs \in Seq(Region), NEW n \in 1 .. Len(rs), NEW ps \in Seq(Region),
         NEW next, Spliced(next, rs, n, ps), NEW k \in 1 .. Len(next)
  PROVE  \/ k \in 1 .. n - 1 /\ next[k] = rs[k]
         \/ k - n + 1 \in 1 .. Len(ps) /\ next[k] = ps[k - n + 1]
         \/ k + 1 - Len(ps) \in n + 1 .. Len(rs) /\ next[k] = rs[k + 1 - Len(ps)]
  <1>1. Len(ps) \in Nat /\ Len(rs) \in Nat /\ Len(next) = Len(rs) - 1 + Len(ps)
    BY DEF Spliced
  <1>2. CASE k < n
    BY <1>2, SMTT(30) DEF Spliced
  <1>3. CASE n <= k /\ k < n + Len(ps)
    <2>1. k - n + 1 \in 1 .. Len(ps) /\ n - 1 + (k - n + 1) = k
      BY <1>1, <1>3
    <2>2. QED
      BY <2>1 DEF Spliced
  <1>4. CASE n + Len(ps) <= k
    <2>1. k + 1 - Len(ps) \in n + 1 .. Len(rs) /\ (k + 1 - Len(ps)) - 1 + Len(ps) = k
      BY <1>1, <1>4
    <2>2. QED
      BY <2>1 DEF Spliced
  <1>5. QED
    BY <1>1, <1>2, <1>3, <1>4

LEMMA RemoveSplices ==
  ASSUME NEW rs \in Seq(Region), NEW old \in Region, Covers(rs, old)
  PROVE  \E n \in 1 .. Len(rs), ps \in Seq(Region) :
           Within(old, rs[n]) /\ Pieces(ps, rs[n], old) /\ Spliced(RemoveRegion(rs, old), rs, n, ps)
  <1> DEFINE n == Covering(rs, old)
             before == IF rs[n].base = old.base THEN <<>>
                       ELSE <<MemoryRegion(rs[n].base, old.base)>>
             after == IF rs[n].end = old.end THEN <<>> ELSE <<MemoryRegion(old.end, rs[n].end)>>
             s == SubSeq(rs, 1, n - 1)
             t == SubSeq(rs, n + 1, Len(rs))
  <1>1. n \in 1 .. Len(rs) /\ Within(old, rs[n])
    BY SelectedFirst
  <1>2. rs[n] \in Region
    BY <1>1
  <1>3. before \o after \in Seq(Region) /\ Pieces(before \o after, rs[n], old)
    <2> HIDE DEF n
    <2>1. QED
      BY <1>1, <1>2, RemovedPieces
  <1>4. before \in Seq(Region) /\ after \in Seq(Region)
    <2>1. MemoryRegion(rs[n].base, old.base) \in Region /\ MemoryRegion(old.end, rs[n].end) \in Region
      BY <1>1, <1>2 DEF MemoryRegion, Region, Within
    <2>2. QED
      BY <2>1
  <1>5. RemoveRegion(rs, old) = ((s \o before) \o after) \o t
    BY DEF RemoveRegion, Covering
  <1>6. s \in Seq(Region) /\ t \in Seq(Region)
    <2> HIDE DEF n
    <2>1. QED
      BY <1>1
  <1> HIDE DEF n, before, after, s, t
  <1>7. (s \o before) \o after = s \o (before \o after)
    BY <1>4, <1>6, ConcatAssociative, SMTT(30)
  <1>8. Spliced((s \o (before \o after)) \o t, rs, n, before \o after)
    BY <1>1, <1>3, Splice DEF s, t
  <1>9. QED
    BY <1>1, <1>3, <1>5, <1>7, <1>8


\* A region that is left starts where one started before, or at the end of old.
LEMMA RemovedBases ==
  ASSUME NEW rs \in Seq(Region), NEW old \in Region, Covers(rs, old)
  PROVE  \A k \in DOMAIN RemoveRegion(rs, old) :
           \/ RemoveRegion(rs, old)[k].base = old.end
           \/ \E m \in DOMAIN rs : RemoveRegion(rs, old)[k].base = rs[m].base
  <1> DEFINE next == RemoveRegion(rs, old)
  <1>1. PICK n \in 1 .. Len(rs), ps \in Seq(Region) :
          Within(old, rs[n]) /\ Pieces(ps, rs[n], old) /\ Spliced(next, rs, n, ps)
    BY RemoveSplices
  <1> HIDE DEF next
  <1>2. DOMAIN next = 1 .. Len(next) /\ DOMAIN rs = 1 .. Len(rs) /\ DOMAIN ps = 1 .. Len(ps)
    BY <1>1, RegionFields DEF Spliced
  <1> SUFFICES ASSUME NEW k \in 1 .. Len(next)
               PROVE  next[k].base = old.end \/ \E m \in 1 .. Len(rs) : next[k].base = rs[m].base
    BY <1>2 DEF next
  <1>3. \/ k \in 1 .. n - 1 /\ next[k] = rs[k]
        \/ k - n + 1 \in 1 .. Len(ps) /\ next[k] = ps[k - n + 1]
        \/ k + 1 - Len(ps) \in n + 1 .. Len(rs) /\ next[k] = rs[k + 1 - Len(ps)]
    BY <1>1, SplicedFrom
  <1>4. \A m \in 1 .. n - 1 : m \in 1 .. Len(rs)
    OBVIOUS
  <1>5. \A m \in n + 1 .. Len(rs) : m \in 1 .. Len(rs)
    OBVIOUS
  <1>6. \A m \in 1 .. Len(ps) : ps[m].base = rs[n].base \/ ps[m].base = old.end
    BY <1>1, <1>2 DEF Pieces
  <1>7. QED
    BY <1>3, <1>4, <1>5, <1>6

\* The M elements of next hold what the L elements of rs hold and old does not.
Cut(next, M, rs, L, old) ==
  /\ \A k, m \in 1 .. M : k < m => next[k].end <= next[m].base
  /\ (\A k, m \in 1 .. L : k < m => rs[k].end < rs[m].base) /\ old.base < old.end
       => \A k, m \in 1 .. M : k < m => next[k].end < next[m].base
  /\ \A k \in 1 .. M : Clear(next[k], old) /\ \E m \in 1 .. L : Within(next[k], rs[m])
  /\ \A a \in Int : (\E k \in 1 .. M : Lies(a, next[k]))
                      <=> (\E m \in 1 .. L : Lies(a, rs[m])) /\ ~Lies(a, old)
  /\ \A region \in Region :
       /\ \E m \in 1 .. L : Within(region, rs[m])
       /\ region.base < old.base /\ region.end <= old.base
       => \E m \in 1 .. M : Within(region, next[m])

\* What follows from the order of the regions when old is cut out of region n
\* of rs: next has its pieces ps in its place.
LEMMA CutOut ==
  ASSUME NEW rs, NEW ps, NEW next, NEW old, NEW L \in Nat, NEW P \in 0 .. 2, NEW n \in 1 .. L,
         NEW M \in Nat, M = L - 1 + P,
         old.base \in Nat, old.end \in Nat, old.base <= old.end,
         \A k \in 1 .. L : rs[k].base \in Nat /\ rs[k].end \in Nat /\ rs[k].base <= rs[k].end,
         \A k \in 1 .. P : ps[k].base \in Nat /\ ps[k].end \in Nat /\ ps[k].base <= ps[k].end,
         \A k \in 1 .. M : next[k].base \in Nat /\ next[k].end \in Nat,
         \A k, m \in 1 .. L : k < m => rs[k].end <= rs[m].base,
         rs[n].base <= old.base, old.end <= rs[n].end,
         \A k \in 1 .. P : rs[n].base <= ps[k].base /\ ps[k].end <= rs[n].end,
         \A k \in 1 .. P : Clear(ps[k], old),
         P = 2 => ps[1].end <= old.base /\ old.end <= ps[2].base,
         \A a \in Int : Lies(a, rs[n]) /\ ~Lies(a, old) => \E k \in 1 .. P : Lies(a, ps[k]),
         rs[n].base < old.base => P > 0 /\ ps[1] = MemoryRegion(rs[n].base, old.base),
         \A k \in 1 .. n - 1 : next[k] = rs[k],
         \A k \in 1 .. P : next[n - 1 + k] = ps[k],
         \A k \in n + 1 .. L : next[k - 1 + P] = rs[k],
         \A k \in 1 .. M :
           \/ k \in 1 .. n - 1 /\ next[k] = rs[k]
           \/ k - n + 1 \in 1 .. P /\ next[k] = ps[k - n + 1]
           \/ k + 1 - P \in n + 1 .. L /\ next[k] = rs[k + 1 - P]
  PROVE  Cut(next, M, rs, L, old)
  <1>1. \A k \in 1 .. n - 1 : rs[k].end <= old.base /\ \A m \in 1 .. P : rs[k].end <= ps[m].base
    <2>1. \A k \in 1 .. n - 1 : k \in 1 .. L /\ rs[k].end <= rs[n].base
      OBVIOUS
    <2>2. QED
      BY <2>1
  <1>2. \A k \in n + 1 .. L : old.end <= rs[k].base /\ \A m \in 1 .. P : ps[m].end <= rs[k].base
    OBVIOUS
  <1>3. ASSUME NEW k \in 1 .. M, NEW m \in 1 .. M, k < m PROVE next[k].end <= next[m].base
    <2>1. CASE k \in 1 .. n - 1 /\ next[k] = rs[k]
      <3>1. CASE m \in 1 .. n - 1 /\ next[m] = rs[m]
        BY <1>3, <2>1, <3>1
      <3>2. CASE m - n + 1 \in 1 .. P /\ next[m] = ps[m - n + 1]
        BY <1>1, <2>1, <3>2
      <3>3. CASE m + 1 - P \in n + 1 .. L /\ next[m] = rs[m + 1 - P]
        <4>1. k < m + 1 - P
          BY <2>1, <3>3
        <4>2. QED
          BY <2>1, <3>3, <4>1
      <3>4. QED
        BY <3>1, <3>2, <3>3
    <2>2. CASE k - n + 1 \in 1 .. P /\ next[k] = ps[k - n + 1]
      <3>1. CASE m - n + 1 \in 1 .. P /\ next[m] = ps[m - n + 1]
        <4>1. k - n + 1 = 1 /\ m - n + 1 = 2 /\ P = 2
          BY <1>3, <2>2, <3>1
        <4>2. QED
          BY <2>2, <3>1, <4>1
      <3>2. QED
        BY <1>2, <1>3, <2>2, <3>1
    <2>3. CASE k + 1 - P \in n + 1 .. L /\ next[k] = rs[k + 1 - P]
      <3>1. m + 1 - P \in n + 1 .. L /\ next[m] = rs[m + 1 - P]
        BY <1>3, <2>3
      <3>2. QED
        BY <1>3, <2>3, <3>1
    <2>4. QED
      BY <2>1, <2>2, <2>3
  <1>4. ASSUME \A k, m \in 1 .. L : k < m => rs[k].end < rs[m].base, old.base < old.end,
               NEW k \in 1 .. M, NEW m \in 1 .. M, k < m
        PROVE  next[k].end < next[m].base
    <2>1. \A l \in 1 .. n - 1 : \A p \in 1 .. P : rs[l].end < ps[p].base
      BY <1>4
    <2>2. \A l \in n + 1 .. L : \A p \in 1 .. P : ps[p].end < rs[l].base
      BY <1>4
    <2>3. CASE k \in 1 .. n - 1 /\ next[k] = rs[k]
      BY <1>4, <2>1, <2>3
    <2>4. CASE k - n + 1 \in 1 .. P /\ next[k] = ps[k - n + 1]
      <3>1. CASE m - n + 1 \in 1 .. P /\ next[m] = ps[m - n + 1]
        <4>1. k - n + 1 = 1 /\ m - n + 1 = 2 /\ P = 2
          BY <1>4, <2>4, <3>1
        <4>2. ps[1].end < ps[2].base
          BY <1>4, <4>1
        <4>3. QED
          BY <2>4, <3>1, <4>1, <4>2
      <3>2. QED
        BY <1>4, <2>2, <2>4, <3>1
    <2>5. CASE k + 1 - P \in n + 1 .. L /\ next[k] = rs[k + 1 - P]
      <3>1. m + 1 - P \in n + 1 .. L /\ next[m] = rs[m + 1 - P]
        BY <1>4, <2>5
      <3>2. QED
        BY <1>4, <2>5, <3>1
    <2>6. QED
      BY <2>3, <2>4, <2>5
  <1>5. ASSUME NEW k \in 1 .. M
        PROVE  Clear(next[k], old) /\ \E m \in 1 .. L : Within(next[k], rs[m])
    <2>1. CASE k \in 1 .. n - 1 /\ next[k] = rs[k]
      BY <1>1, <2>1 DEF Clear, Within
    <2>2. CASE k - n + 1 \in 1 .. P /\ next[k] = ps[k - n + 1]
      BY <2>2 DEF Within
    <2>3. CASE k + 1 - P \in n + 1 .. L /\ next[k] = rs[k + 1 - P]
      BY <1>2, <2>3 DEF Clear, Within
    <2>4. QED
      BY <2>1, <2>2, <2>3
  <1>6. ASSUME NEW a \in Int, NEW k \in 1 .. M, Lies(a, next[k])
        PROVE  (\E m \in 1 .. L : Lies(a, rs[m])) /\ ~Lies(a, old)
    <2>1. PICK m \in 1 .. L : Within(next[k], rs[m])
      BY <1>5
    <2>2. Lies(a, rs[m])
      BY <1>6, <2>1 DEF Lies, Within
    <2>3. ~Lies(a, old)
      BY <1>5, <1>6 DEF Lies, Clear
    <2>4. QED
      BY <2>2, <2>3
  <1>7. ASSUME NEW a \in Int, NEW m \in 1 .. L, Lies(a, rs[m]), ~Lies(a, old)
        PROVE  \E k \in 1 .. M : Lies(a, next[k])
    <2>1. CASE m < n
      <3>1. m \in 1 .. n - 1 /\ m \in 1 .. M
        BY <2>1
      <3>2. QED
        BY <1>7, <3>1
    <2>2. CASE m = n
      <3>1. PICK k \in 1 .. P : Lies(a, ps[k])
        BY <1>7, <2>2
      <3>2. next[n - 1 + k] = ps[k] /\ n - 1 + k \in 1 .. M
        OBVIOUS
      <3>3. QED
        BY <3>1, <3>2
    <2>3. CASE m > n
      <3>1. m \in n + 1 .. L /\ m - 1 + P \in 1 .. M
        BY <2>3
      <3>2. QED
        BY <1>7, <3>1
    <2>4. QED
      BY <2>1, <2>2, <2>3
  <1>8. ASSUME NEW region \in Region, NEW m \in 1 .. L, Within(region, rs[m]),
               region.base < old.base, region.end <= old.base
        PROVE  \E k \in 1 .. M : Within(region, next[k])
    <2>5. region.base \in Nat /\ region.end \in Nat /\ region.base <= region.end
      BY DEF Region
    <2>1. m <= n
      BY <1>2, <1>8, <2>5 DEF Within
    <2>2. CASE m < n
      <3>1. m \in 1 .. n - 1 /\ m \in 1 .. M
        BY <2>2
      <3>2. QED
        BY <1>8, <3>1
    <2>3. CASE m = n
      <3>1. rs[n].base < old.base
        BY <1>8, <2>3, <2>5 DEF Within
      <3>2. P > 0 /\ ps[1] = MemoryRegion(rs[n].base, old.base)
        BY <3>1
      <3>3. next[n] = ps[1] /\ n \in 1 .. M
        BY <3>2
      <3>4. Within(region, next[n])
        BY <1>8, <2>3, <2>5, <3>2, <3>3 DEF Within, MemoryRegion
      <3>5. QED
        BY <3>3, <3>4
    <2>4. QED
      BY <2>1, <2>2, <2>3
  <1>9. \A a \in Int : (\E k \in 1 .. M : Lies(a, next[k]))
                       <=> (\E m \in 1 .. L : Lies(a, rs[m])) /\ ~Lies(a, old)
    BY <1>6, <1>7
  <1>10. (\A k, m \in 1 .. L : k < m => rs[k].end < rs[m].base) /\ old.base < old.end
           => \A k, m \in 1 .. M : k < m => next[k].end < next[m].base
    BY <1>4
  <1>11. \A k, m \in 1 .. M : k < m => next[k].end <= next[m].base
    BY <1>3
  <1>12. \A k \in 1 .. M : Clear(next[k], old) /\ \E m \in 1 .. L : Within(next[k], rs[m])
    BY <1>5
  <1>13. \A region \in Region :
           /\ \E m \in 1 .. L : Within(region, rs[m])
           /\ region.base < old.base /\ region.end <= old.base
           => \E m \in 1 .. M : Within(region, next[m])
    BY <1>8
  <1>14. QED
    BY <1>9, <1>10, <1>11, <1>12, <1>13 DEF Cut

\* remove_region
LEMMA RemoveRegionExact ==
  ASSUME NEW rs \in Seq(Region), Disjoint(rs), NEW old \in Region, Covers(rs, old)
  PROVE  /\ Without(RemoveRegion(rs, old), rs, old)
         /\ Apart(rs) /\ old.base < old.end => Apart(RemoveRegion(rs, old))
         /\ \A region \in Region :
              Covers(rs, region) /\ region.base < old.base /\ region.end <= old.base
                => Covers(RemoveRegion(rs, old), region)
  <1> DEFINE next == RemoveRegion(rs, old)
  <1>1. PICK n \in 1 .. Len(rs), ps \in Seq(Region) :
          Within(old, rs[n]) /\ Pieces(ps, rs[n], old) /\ Spliced(next, rs, n, ps)
    BY RemoveSplices
  <1> DEFINE L == Len(rs)
             P == Len(ps)
             M == Len(next)
  <1> HIDE DEF next
  <1>2. /\ L \in Nat /\ P \in Nat /\ M \in Nat /\ M = L - 1 + P /\ n \in 1 .. L
        /\ DOMAIN rs = 1 .. L /\ DOMAIN ps = 1 .. P /\ DOMAIN next = 1 .. M /\ next \in Seq(Region)
        /\ old.base \in Nat /\ old.end \in Nat /\ old.base <= old.end
        /\ \A k \in 1 .. L : rs[k].base \in Nat /\ rs[k].end \in Nat /\ rs[k].base <= rs[k].end
        /\ \A k \in 1 .. P : ps[k].base \in Nat /\ ps[k].end \in Nat /\ ps[k].base <= ps[k].end
        /\ \A k \in 1 .. M : next[k].base \in Nat /\ next[k].end \in Nat
    <2>1. next \in Seq(Region) /\ M = L - 1 + P
      BY <1>1 DEF Spliced
    <2>2. old.base \in Nat /\ old.end \in Nat /\ old.base <= old.end
      BY DEF Region
    <2>3. QED
      BY <1>1, <2>1, <2>2, RegionFields
  <1>3. \A k, m \in 1 .. L : k < m => rs[k].end <= rs[m].base
    BY <1>2 DEF Disjoint
  <1>13. /\ P <= 2 /\ rs[n].base <= old.base /\ old.end <= rs[n].end
         /\ \A k \in 1 .. P : rs[n].base <= ps[k].base /\ ps[k].end <= rs[n].end
         /\ P = 2 => ps[1].end <= old.base /\ old.end <= ps[2].base
         /\ \A k \in 1 .. P : Within(ps[k], rs[n]) /\ Clear(ps[k], old)
         /\ \A a \in Int : Lies(a, rs[n]) /\ ~Lies(a, old) => \E k \in 1 .. P : Lies(a, ps[k])
         /\ rs[n].base < old.base => P > 0 /\ ps[1] = MemoryRegion(rs[n].base, old.base)
    BY <1>1, <1>2 DEF Pieces, Within, Held
  <1>14. /\ \A k \in 1 .. n - 1 : next[k] = rs[k]
         /\ \A k \in 1 .. P : next[n - 1 + k] = ps[k]
         /\ \A k \in n + 1 .. L : next[k - 1 + P] = rs[k]
    BY <1>1 DEF Spliced
  <1>4. ASSUME NEW k \in 1 .. M
        PROVE  \/ k \in 1 .. n - 1 /\ next[k] = rs[k]
               \/ k - n + 1 \in 1 .. P /\ next[k] = ps[k - n + 1]
               \/ k + 1 - P \in n + 1 .. L /\ next[k] = rs[k + 1 - P]
    BY <1>1, SplicedFrom
  <1>5. Disjoint(rs) /\ Covers(rs, old) /\ P \in 0 .. 2
    <2>1. P <= 2 /\ P \in Nat
      BY <1>2, <1>13
    <2> HIDE DEF P
    <2>2. QED
      BY <2>1
  <1>6. Cut(next, M, rs, L, old)
    <2> HIDE DEF L, P, M
    <2>1. QED
      BY <1>2, <1>3, <1>4, <1>5, <1>13, <1>14, CutOut, ZenonT(40)
  <1>7. Without(next, rs, old)
    BY <1>2, <1>6 DEF Cut, Without, Disjoint, Held
  <1>8. Apart(rs) /\ old.base < old.end => Apart(next)
    BY <1>2, <1>6 DEF Cut, Apart
  <1>9. ASSUME NEW region \in Region, Covers(rs, region),
               region.base < old.base, region.end <= old.base
        PROVE  Covers(next, region)
    BY <1>2, <1>6, <1>9 DEF Cut, Covers
  <1>10. QED
    BY <1>7, <1>8, <1>9 DEF next

-----------------------------------------------------------------------------
(* Many insertions, and many removals.                                      *)

LEMMA InsertedLast ==
  ASSUME NEW rs \in Seq(Region), NEW new, \A n \in DOMAIN rs : ~(new.end < rs[n].base)
  PROVE  InsertRegion(rs, new) = Append(rs, new)
  <1> DEFINE after == {n \in DOMAIN rs : new.end < rs[n].base}
             s == SubSeq(rs, 1, Len(rs))
             t == SubSeq(rs, Len(rs) + 1, Len(rs))
  <1>1. after \cup {Len(rs) + 1} = {Len(rs) + 1}
    OBVIOUS
  <1>2. Min({Len(rs) + 1}) = Len(rs) + 1
    BY DEF Min
  <1>3. InsertRegion(rs, new) = InsertAt(rs, Len(rs) + 1, new)
    <2>1. InsertRegion(rs, new) = InsertAt(rs, Min(after \cup {Len(rs) + 1}), new)
      BY DEF InsertRegion
    <2> HIDE DEF after
    <2>2. QED
      BY <1>1, <1>2, <2>1
  <1>4. s = rs /\ t = <<>>
    OBVIOUS
  <1>5. (Len(rs) + 1) - 1 = Len(rs)
    OBVIOUS
  <1>6. InsertAt(rs, Len(rs) + 1, new) = (s \o <<new>>) \o t
    BY <1>5 DEF InsertAt
  <1>7. QED
    BY <1>3, <1>4, <1>6

\* Both folds are those of the instances.
LEMMA SameFolds ==
  ASSUME NEW rs, NEW base
  PROVE  /\ FoldLeft(InsertRegion, base, rs) = Inserts!FoldLeft(InsertRegion, base, rs)
         /\ FoldLeft(RemoveRegion, base, rs) = Removes!FoldLeft(RemoveRegion, base, rs)
  BY DEF FoldLeft, MapThenFoldSet, Max,
         Inserts!FoldLeft, Inserts!MapThenFoldSet, Inserts!Max,
         Removes!FoldLeft, Removes!MapThenFoldSet, Removes!Max

\* Banks that come in order are kept as they are.
LEMMA InsertedInOrder ==
  ASSUME NEW banks \in Seq(Region), Disjoint(banks)
  PROVE  FoldLeft(InsertRegion, <<>>, banks) = banks
  <1>1. PICK n \in Nat : n = Len(banks) /\ DOMAIN banks = 1 .. n
    OBVIOUS
  <1>2. PICK none : none = SubSeq(banks, 1, 0)
    OBVIOUS
  <1>3. PICK f : /\ Inserts!Steps(f, banks, none, n)
                 /\ Inserts!FoldLeft(InsertRegion, none, banks) = f[n]
    <2>1. DOMAIN banks = 1 .. n
      BY <1>1
    <2>2. QED
      BY <2>1, Inserts!FoldLeftSteps
  <1> DEFINE T == {k \in 0 .. n : f[k] = SubSeq(banks, 1, k)}
  <1>4. 0 \in T
    BY <1>1, <1>2, <1>3 DEF Inserts!Steps
  <1>5. ASSUME NEW k \in 0 .. n - 1, k \in T PROVE k + 1 \in T
    <2> DEFINE s == SubSeq(banks, 1, k)
    <2>1. s \in Seq(Region) /\ Len(s) = k /\ \A m \in 1 .. k : s[m] = banks[m]
      BY <1>1
    <2>2. \A m \in DOMAIN s : ~(banks[k + 1].end < s[m].base)
      <3>1. \A m \in 1 .. n : banks[m].base \in Nat /\ banks[m].end \in Nat /\ banks[m].base <= banks[m].end
        BY <1>1, RegionFields
      <3>2. \A m \in 1 .. k : banks[m].end <= banks[k + 1].base
        BY <1>1 DEF Disjoint
      <3>3. \A m \in 1 .. k : ~(banks[k + 1].end < banks[m].base)
        BY <3>1, <3>2, SMTT(30)
      <3>4. QED
        BY <2>1, <3>3
    <2>3. Append(s, banks[k + 1]) = SubSeq(banks, 1, k + 1)
      BY <1>1
    <2> HIDE DEF s
    <2>4. InsertRegion(s, banks[k + 1]) = Append(s, banks[k + 1])
      BY <2>1, <2>2, InsertedLast
    <2>5. f[k + 1] = SubSeq(banks, 1, k + 1)
      BY <1>3, <1>5, <2>3, <2>4 DEF s, Inserts!Steps
    <2>6. QED
      BY <1>1, <2>5
  <1> HIDE DEF T
  <1>6. n \in T
    BY <1>1, <1>4, <1>5, Inserts!UpTo
  <1>7. SubSeq(banks, 1, n) = banks
    BY <1>1
  <1>8. FoldLeft(InsertRegion, <<>>, banks) = Inserts!FoldLeft(InsertRegion, none, banks)
    <2>1. none = <<>>
      BY <1>2
    <2>2. QED
      BY <2>1, SameFolds
  <1>9. f[n] = banks
    BY <1>6, <1>7 DEF T
  <1>10. QED
    BY <1>3, <1>8, <1>9

\* If there are gaps between regions, what they hold from end to end one of them holds.
LEMMA HeldByOne ==
  ASSUME NEW rs \in Seq(Region), Apart(rs), NEW r \in Region, r.base < r.end,
         \A a \in Int : Lies(a, r) => Held(a, rs)
  PROVE  Covers(rs, r)
  <1>1. \A n \in DOMAIN rs : rs[n].base \in Nat /\ rs[n].end \in Nat /\ rs[n].base <= rs[n].end
    BY RegionFields
  <1>2. \A m, n \in DOMAIN rs : m \in Int /\ n \in Int
    OBVIOUS
  <1>3. \A m, n \in DOMAIN rs : m < n => rs[m].end < rs[n].base
    BY DEF Apart
  <1>4. r.base \in Nat /\ r.end \in Nat
    BY DEF Region
  <1>5. PICK m \in DOMAIN rs : Lies(r.base, rs[m])
    BY <1>4 DEF Lies, Held
  <1>6. CASE rs[m].end < r.end
    <2>1. Lies(rs[m].end, r)
      BY <1>1, <1>4, <1>5, <1>6 DEF Lies
    <2>2. PICK n \in DOMAIN rs : Lies(rs[m].end, rs[n])
      BY <1>1, <2>1 DEF Held
    <2>3. CASE n < m
      BY <1>1, <1>3, <2>2, <2>3 DEF Lies
    <2>4. CASE n = m
      BY <1>1, <2>2, <2>4 DEF Lies
    <2>5. CASE m < n
      BY <1>1, <1>3, <2>2, <2>5 DEF Lies
    <2>6. QED
      BY <1>2, <2>3, <2>4, <2>5
  <1>7. CASE r.end <= rs[m].end
    BY <1>5, <1>7 DEF Lies, Covers, Within
  <1>8. QED
    BY <1>1, <1>4, <1>6, <1>7

\* What is left of the addresses below top without the first k of the cuts.
Rest(left, top, cuts, k) ==
  /\ left \in Seq(Region) /\ Disjoint(left) /\ Apart(left)
  /\ \A a \in Int :
       Held(a, left) <=> 0 <= a /\ a < top /\ \A m \in 1 .. k : ~Lies(a, cuts[m])

LEMMA CutsLeaveRest ==
  ASSUME NEW cuts \in Seq(Region), NEW top \in Nat,
         \A n \in DOMAIN cuts : cuts[n].base < cuts[n].end /\ cuts[n].end <= top,
         \A m, n \in DOMAIN cuts : m # n => Clear(cuts[m], cuts[n])
  PROVE  LET left == FoldLeft(RemoveRegion, <<MemoryRegion(0, top)>>, cuts)
         IN /\ left \in Seq(Region) /\ Disjoint(left)
            /\ \A a \in Int : Held(a, left) <=> 0 <= a /\ a < top /\ ~Held(a, cuts)
  <1>1. PICK n \in Nat : n = Len(cuts) /\ DOMAIN cuts = 1 .. n
    OBVIOUS
  <1>2. PICK all : all = <<MemoryRegion(0, top)>>
    OBVIOUS
  <1>3. PICK f : /\ Removes!Steps(f, cuts, all, n)
                 /\ Removes!FoldLeft(RemoveRegion, all, cuts) = f[n]
    <2>1. DOMAIN cuts = 1 .. n
      BY <1>1
    <2>2. QED
      BY <2>1, Removes!FoldLeftSteps
  <1> DEFINE T == {k \in 0 .. n : Rest(f[k], top, cuts, k)}
  <1>4. 0 \in T
    <2>1. f[0] = <<MemoryRegion(0, top)>>
      BY <1>2, <1>3 DEF Removes!Steps
    <2>2. MemoryRegion(0, top) \in Region
      BY DEF MemoryRegion, Region
    <2>3. Rest(<<MemoryRegion(0, top)>>, top, cuts, 0)
      <3> DEFINE s == <<MemoryRegion(0, top)>>
      <3>1. s \in Seq(Region) /\ DOMAIN s = 1 .. 1 /\ s[1] = MemoryRegion(0, top)
        BY <2>2
      <3> HIDE DEF s
      <3>2. Disjoint(s) /\ Apart(s)
        BY <3>1 DEF Disjoint, Apart
      <3>3. \A a \in Int : Held(a, s) <=> 0 <= a /\ a < top
        BY <3>1 DEF Held, Lies, MemoryRegion
      <3>4. Rest(s, top, cuts, 0)
        BY <3>1, <3>2, <3>3 DEF Rest
      <3>5. QED
        BY <3>4 DEF s
    <2>4. QED
      BY <2>1, <2>3
  <1>5. ASSUME NEW k \in 0 .. n - 1, k \in T PROVE k + 1 \in T
    <2> DEFINE left == f[k]
               cut == cuts[k + 1]
    <2>1. Rest(left, top, cuts, k)
      BY <1>5
    <2>2. k + 1 \in 1 .. n /\ k + 1 \in DOMAIN cuts
      BY <1>1
    <2>3. cut \in Region /\ cut.base < cut.end
      BY <2>2
    <2>4. cut.base \in Nat /\ cut.end \in Nat /\ cut.end <= top
      BY <2>2, <2>3 DEF Region
    <2>5. \A m \in 1 .. k : Clear(cuts[m], cut) /\ cuts[m].base \in Nat /\ cuts[m].end \in Nat
      <3>1. \A m \in 1 .. k : m \in DOMAIN cuts /\ m # k + 1
        BY <1>1
      <3>2. QED
        BY <2>2, <3>1 DEF Region
    <2>6. f[k + 1] = RemoveRegion(left, cut)
      BY <1>3 DEF Removes!Steps
    <2> HIDE DEF left, cut
    <2>7. ASSUME NEW a \in Int, Lies(a, cut) PROVE Held(a, left)
      <3>1. 0 <= a /\ a < top
        BY <2>4, <2>7 DEF Lies
      <3>2. \A m \in 1 .. k : ~Lies(a, cuts[m])
        BY <2>4, <2>5, <2>7 DEF Lies, Clear
      <3>3. QED
        BY <2>1, <3>1, <3>2 DEF Rest
    <2>8. Covers(left, cut)
      BY <2>1, <2>3, <2>7, HeldByOne DEF Rest
    <2>9. Without(f[k + 1], left, cut) /\ Apart(f[k + 1])
      BY <2>1, <2>3, <2>6, <2>8, RemoveRegionExact DEF Rest
    <2>10. ASSUME NEW a \in Int
           PROVE  Held(a, f[k + 1])
                    <=> 0 <= a /\ a < top /\ \A m \in 1 .. k + 1 : ~Lies(a, cuts[m])
      <3>1. Held(a, f[k + 1]) <=> Held(a, left) /\ ~Lies(a, cut)
        BY <2>9 DEF Without
      <3>2. Held(a, left) <=> 0 <= a /\ a < top /\ \A m \in 1 .. k : ~Lies(a, cuts[m])
        BY <2>1 DEF Rest
      <3>3. 1 .. k + 1 = (1 .. k) \cup {k + 1}
        OBVIOUS
      <3>4. (\A m \in 1 .. k + 1 : ~Lies(a, cuts[m])) <=> (\A m \in 1 .. k : ~Lies(a, cuts[m])) /\ ~Lies(a, cut)
        BY <3>3 DEF cut
      <3>5. QED
        BY <3>1, <3>2, <3>4
    <2>11. Rest(f[k + 1], top, cuts, k + 1)
      BY <2>9, <2>10 DEF Without, Rest
    <2>12. k + 1 \in 0 .. n
      OBVIOUS
    <2>13. QED
      BY <2>11, <2>12
  <1> HIDE DEF T
  <1>6. n \in T
    <2>1. \A k \in 0 .. n - 1 : k \in T => k + 1 \in T
      BY <1>5
    <2>2. \A k \in 0 .. n : k \in T
      BY <1>4, <2>1, Inserts!UpTo
    <2>3. QED
      BY <2>2
  <1>7. FoldLeft(RemoveRegion, <<MemoryRegion(0, top)>>, cuts) = f[n]
    BY <1>2, <1>3, SameFolds
  <1>8. Rest(f[n], top, cuts, n)
    BY <1>6 DEF T
  <1>9. QED
    BY <1>1, <1>7, <1>8 DEF Rest, Held

-----------------------------------------------------------------------------
(* Rounding.                                                               *)

LEMMA Rounding ==
  ASSUME NEW n \in Int, NEW x \in Nat \ {0}
  PROVE  /\ RoundUp(n, x) \in Int /\ n <= RoundUp(n, x)
         /\ RoundDown(n, x) \in Int /\ RoundDown(n, x) <= n
  <1>1. n % x \in Nat /\ n % x < x
    OBVIOUS
  <1>2. QED
    BY <1>1 DEF RoundUp, RoundDown

LEMMA Divided ==
  ASSUME NEW n \in Nat, NEW d \in Nat \ {0}
  PROVE  /\ n \div d \in Nat /\ n % d \in 0 .. d - 1
         /\ n = (n \div d) * d + (n % d)
  OBVIOUS

LEMMA MultipleOf ==
  ASSUME NEW k \in Nat, NEW d \in Nat \ {0}
  PROVE  (k * d) % d = 0 /\ (k * d) \div d = k /\ k * d \in Nat
  OBVIOUS

LEMMA SmallRemainder ==
  ASSUME NEW d \in Nat \ {0}, NEW n \in 0 .. d - 1
  PROVE  n % d = n /\ n \div d = 0
  OBVIOUS

LEMMA Quotient ==
  ASSUME NEW n \in Nat, NEW d \in Nat \ {0}, n % d = 0
  PROVE  \E k \in Nat : k = n \div d /\ n = k * d
  <1>1. PICK k : k = n \div d
    OBVIOUS
  <1>2. PICK r : r = n % d
    OBVIOUS
  <1>3. k \in Nat /\ n = k * d + r
    BY <1>1, <1>2, Divided
  <1>4. r = 0
    BY <1>2
  <1>5. k * d \in Nat
    BY <1>3
  <1>6. n = k * d
    BY <1>3, <1>4, <1>5
  <1>7. QED
    BY <1>1, <1>3, <1>6

\* The sum of multiples, the multiple of a multiple, and a divisor of a divisor.
LEMMA Multiples ==
  ASSUME NEW a \in Nat, NEW b \in Nat, NEW d \in Nat \ {0}, a % d = 0
  PROVE  /\ b % d = 0 => (a + b) % d = 0
         /\ (b * a) % d = 0
  <1>1. PICK k \in Nat : a = k * d
    BY Quotient
  <1>2. ASSUME b % d = 0 PROVE (a + b) % d = 0
    <2>1. PICK j \in Nat : b = j * d
      BY <1>2, Quotient
    <2>2. PICK i \in Nat : i = k + j
      OBVIOUS
    <2>3. a + b = i * d
      BY <1>1, <2>1, <2>2
    <2>4. (i * d) % d = 0
      BY MultipleOf
    <2>5. QED
      BY <2>3, <2>4
  <1>3. PICK i \in Nat : i = b * k
    OBVIOUS
  <1>4. b * a = i * d
    BY <1>1, <1>3
  <1>5. (i * d) % d = 0
    BY MultipleOf
  <1>6. (b * a) % d = 0
    BY <1>4, <1>5
  <1>7. QED
    BY <1>2, <1>6

LEMMA DivisorOfDivisor ==
  ASSUME NEW n \in Nat, NEW e \in Nat \ {0}, NEW d \in Nat \ {0}, n % e = 0, e % d = 0
  PROVE  n % d = 0
  <1>1. PICK k \in Nat : n = k * e
    BY Quotient
  <1>2. QED
    BY <1>1, Multiples

\* Rounding up gives the least multiple.
LEMMA RoundUpMultiple ==
  ASSUME NEW n \in Nat, NEW d \in Nat \ {0}
  PROVE  RoundUp(n, d) \in Nat /\ RoundUp(n, d) % d = 0 /\ n <= RoundUp(n, d)
  <1>1. PICK q : q = n \div d
    OBVIOUS
  <1>2. PICK r : r = n % d
    OBVIOUS
  <1>3. q \in Nat /\ r \in 0 .. d - 1 /\ n = q * d + r
    BY <1>1, <1>2, Divided
  <1>4. CASE r = 0
    BY <1>2, <1>4 DEF RoundUp
  <1>5. CASE r # 0
    <2>1. PICK k \in Nat : k = q + 1
      BY <1>3
    <2>2. q * d \in Nat /\ k * d = q * d + d
      BY <1>3, <2>1
    <2>3. RoundUp(n, d) = (n + d) - r
      BY <1>2, <1>5 DEF RoundUp
    <2>4. RoundUp(n, d) = k * d
      BY <1>3, <2>2, <2>3
    <2>5. (k * d) % d = 0 /\ k * d \in Nat
      BY MultipleOf
    <2>6. n <= k * d
      BY <1>3, <2>2
    <2>7. QED
      BY <2>4, <2>5, <2>6
  <1>6. QED
    BY <1>4, <1>5

LEMMA RoundUpLeast ==
  ASSUME NEW n \in Nat, NEW d \in Nat \ {0}, NEW m \in Nat, n <= m, m % d = 0
  PROVE  RoundUp(n, d) <= m
  <1>1. PICK j \in Nat : m = j * d
    BY Quotient
  <1>2. PICK k \in Nat : RoundUp(n, d) = k * d
    BY RoundUpMultiple, Quotient
  <1>3. PICK r : r = n % d
    OBVIOUS
  <1>4. r \in 0 .. d - 1
    BY <1>3, Divided
  <1>5. RoundUp(n, d) < n + d
    <2>1. RoundUp(n, d) = IF r = 0 THEN n ELSE (n + d) - r
      BY <1>3 DEF RoundUp
    <2>2. QED
      BY <1>4, <2>1
  <1>6. ASSUME j < k PROVE FALSE
    <2>1. PICK e \in Nat : k = j + 1 + e
      <3>1. k - (j + 1) \in Nat /\ k = j + 1 + (k - (j + 1))
        BY <1>6
      <3>2. QED
        BY <3>1
    <2>2. k * d = j * d + d + e * d /\ e * d \in Nat
      BY <2>1
    <2>3. QED
      BY <1>1, <1>2, <1>5, <2>2
  <1>7. k <= j
    BY <1>6
  <1>8. k * d <= j * d
    <2>1. PICK e \in Nat : j = k + e
      <3>1. j - k \in Nat /\ j = k + (j - k)
        BY <1>7
      <3>2. QED
        BY <3>1
    <2>2. j * d = k * d + e * d /\ e * d \in Nat
      BY <2>1
    <2>3. k * d \in Nat
      OBVIOUS
    <2>4. QED
      BY <2>2, <2>3
  <1>9. QED
    BY <1>1, <1>2, <1>8

\* What remains of a multiple and a remainder.
LEMMA Remains ==
  ASSUME NEW k \in Nat, NEW d \in Nat \ {0}, NEW r \in 0 .. d - 1
  PROVE  (k * d + r) % d = r
  OBVIOUS

LEMMA RoundDownMultiple ==
  ASSUME NEW n \in Nat, NEW d \in Nat \ {0}
  PROVE  RoundDown(n, d) \in Nat /\ RoundDown(n, d) % d = 0 /\ RoundDown(n, d) <= n
  <1>1. PICK q : q = n \div d
    OBVIOUS
  <1>2. PICK r : r = n % d
    OBVIOUS
  <1>3. q \in Nat /\ r \in 0 .. d - 1 /\ n = q * d + r
    BY <1>1, <1>2, Divided
  <1>4. q * d \in Nat /\ (q * d) % d = 0
    BY <1>3, MultipleOf
  <1>5. RoundDown(n, d) = q * d
    BY <1>2, <1>3, <1>4 DEF RoundDown
  <1>6. QED
    BY <1>3, <1>4, <1>5

\* Two multiples are a multiple apart.
LEMMA MultiplesApart ==
  ASSUME NEW a \in Nat, NEW b \in Nat, NEW d \in Nat \ {0}, a < b, a % d = 0, b % d = 0
  PROVE  (b - a) % d = 0 /\ a + d <= b
  <1>1. PICK j \in Nat : a = j * d
    BY Quotient
  <1>2. PICK k \in Nat : b = k * d
    BY Quotient
  <1>3. ASSUME k <= j PROVE FALSE
    <2>1. PICK e \in Nat : j = k + e
      <3>1. j - k \in Nat /\ j = k + (j - k)
        BY <1>3
      <3>2. QED
        BY <3>1
    <2>2. j * d = k * d + e * d /\ e * d \in Nat
      BY <2>1
    <2>3. QED
      BY <1>1, <1>2, <2>2
  <1>4. PICK e \in Nat : k = j + 1 + e
    <2>1. k - (j + 1) \in Nat /\ k = j + 1 + (k - (j + 1))
      BY <1>3
    <2>2. QED
      BY <2>1
  <1>5. k * d = j * d + d + e * d /\ e * d \in Nat
    BY <1>4
  <1>6. b - a = (e + 1) * d
    BY <1>1, <1>2, <1>5
  <1>7. ((e + 1) * d) % d = 0
    BY MultipleOf
  <1>8. QED
    BY <1>1, <1>2, <1>5, <1>6, <1>7

\* The same number of bytes takes the same number of pages from two addresses
\* that fall on pages alike.
LEMMA SamePages ==
  ASSUME NEW v \in Nat, NEW p \in Nat, NEW len \in Nat, NEW d \in Nat \ {0}, v % d = p % d
  PROVE  RoundUp(v + len, d) - RoundDown(v, d) = RoundUp(p + len, d) - RoundDown(p, d)
  <1>1. PICK r : r = v % d
    OBVIOUS
  <1>2. PICK i \in Nat : v = i * d + r
    BY <1>1, Divided
  <1>3. PICK j \in Nat : p = j * d + r
    <2>1. r = p % d
      BY <1>1
    <2>2. PICK j : j = p \div d
      OBVIOUS
    <2>3. j \in Nat /\ p = j * d + r
      BY <2>1, <2>2, Divided
    <2>4. QED
      BY <2>3
  <1>4. r \in 0 .. d - 1
    BY <1>1, Divided
  <1>5. PICK k \in Nat, t \in 0 .. d - 1 : r + len = k * d + t
    <2>1. r + len \in Nat
      BY <1>4
    <2>2. QED
      BY <2>1, Divided
  <1>6. (v + len) % d = t
    <2>1. PICK m \in Nat : m = i + k
      OBVIOUS
    <2>2. i * d \in Nat /\ k * d \in Nat /\ m * d = i * d + k * d
      BY <2>1
    <2>3. v + len = m * d + t
      BY <1>2, <1>4, <1>5, <2>2
    <2>4. QED
      BY <2>3, Remains
  <1>7. (p + len) % d = t
    <2>1. PICK m \in Nat : m = j + k
      OBVIOUS
    <2>2. j * d \in Nat /\ k * d \in Nat /\ m * d = j * d + k * d
      BY <2>1
    <2>3. p + len = m * d + t
      BY <1>3, <1>4, <1>5, <2>2
    <2>4. QED
      BY <2>3, Remains
  <1>8. RoundUp(v + len, d) = IF t = 0 THEN v + len ELSE (v + len + d) - t
    BY <1>6 DEF RoundUp
  <1>9. RoundUp(p + len, d) = IF t = 0 THEN p + len ELSE (p + len + d) - t
    BY <1>7 DEF RoundUp
  <1>10. RoundDown(v, d) = v - r /\ RoundDown(p, d) = p - r
    BY <1>1 DEF RoundDown
  <1>11. QED
    BY <1>4, <1>5, <1>8, <1>9, <1>10

-----------------------------------------------------------------------------
(* Powers of two.                                                           *)

LEMMA TwoToEquation == TwoTo = [b \in Nat |-> IF b = 0 THEN 1 ELSE 2 * TwoTo[b - 1]]
  <1> DEFINE D == [f \in [Nat -> Nat] |-> [b \in Nat |-> IF b = 0 THEN 1 ELSE 2 * f[b - 1]]]
             m == [b \in Nat |-> b]
  <1>1. D \in [[Nat -> Nat] -> [Nat -> Nat]]
    OBVIOUS
  <1>2. ASSUME NEW f \in [Nat -> Nat], NEW g \in [Nat -> Nat], NEW b \in Nat,
               \A c \in Nat : m[c] < m[b] => f[c] = g[c]
        PROVE  D[f][b] = D[g][b]
    <2>1. b # 0 => f[b - 1] = g[b - 1]
      BY <1>2
    <2>2. QED
      BY <2>1
  <1>3. Inserts!WellFounded(D, Nat, Nat, m)
    <2>1. m \in [Nat -> Nat]
      OBVIOUS
    <2> HIDE DEF D, m
    <2>2. QED
      BY <1>1, <1>2, <2>1 DEF Inserts!WellFounded
  <1>4. PICK f \in [Nat -> Nat] : f = D[f]
    <2>1. \E f : Inserts!Satisfies(f, D, Nat, Nat)
      <3> HIDE DEF D, m
      <3>1. QED
        BY <1>3, Inserts!FixedPoint
    <2>2. QED
      BY <2>1 DEF Inserts!Satisfies
  <1>5. f = [b \in Nat |-> IF b = 0 THEN 1 ELSE 2 * f[b - 1]]
    BY <1>4
  <1>6. QED
    BY <1>5 DEF TwoTo

LEMMA TwoToSteps == TwoTo[0] = 1 /\ \A b \in Nat : TwoTo[b + 1] = 2 * TwoTo[b]
  <1>1. TwoTo[0] = 1
    BY TwoToEquation
  <1>2. ASSUME NEW b \in Nat PROVE TwoTo[b + 1] = 2 * TwoTo[b]
    <2>1. b + 1 \in Nat /\ b + 1 # 0 /\ (b + 1) - 1 = b
      OBVIOUS
    <2>2. QED
      BY <2>1, TwoToEquation
  <1>3. QED
    BY <1>1, <1>2

LEMMA TwoToAbove == \A b \in Nat : TwoTo[b] \in Nat /\ b < TwoTo[b]
  <1> DEFINE S == {b \in Nat : TwoTo[b] \in Nat /\ b < TwoTo[b]}
  <1>1. 0 \in S
    BY TwoToSteps
  <1>2. ASSUME NEW b \in Nat, b \in S PROVE b + 1 \in S
    BY <1>2, TwoToSteps
  <1>3. ASSUME NEW b \in Nat PROVE b \in S
    <2> HIDE DEF S
    <2>1. \A c \in 0 .. b - 1 : c \in S => c + 1 \in S
      BY <1>2
    <2>2. QED
      BY <1>1, <2>1, Inserts!UpTo
  <1>4. QED
    BY <1>3

\* A smaller power of two divides a greater one.
LEMMA TwoToDivides ==
  ASSUME NEW a \in Nat, NEW b \in Nat, a <= b
  PROVE  TwoTo[b] % TwoTo[a] = 0
  <1> DEFINE S == {c \in Nat : TwoTo[a + c] % TwoTo[a] = 0}
  <1>1. TwoTo[a] \in Nat \ {0}
    BY TwoToAbove
  <1>2. 0 \in S
    <2>1. TwoTo[a] = 1 * TwoTo[a] /\ a + 0 = a
      BY <1>1
    <2>2. TwoTo[a] % TwoTo[a] = 0
      BY <1>1, <2>1, MultipleOf
    <2>3. QED
      BY <2>1, <2>2
  <1>3. ASSUME NEW c \in Nat, c \in S PROVE c + 1 \in S
    <2>1. TwoTo[a + c] \in Nat /\ TwoTo[a + (c + 1)] = 2 * TwoTo[a + c]
      <3>1. a + c \in Nat /\ a + (c + 1) = (a + c) + 1
        OBVIOUS
      <3>2. QED
        BY <3>1, TwoToAbove, TwoToSteps
    <2>2. (2 * TwoTo[a + c]) % TwoTo[a] = 0
      BY <1>1, <1>3, <2>1, Multiples
    <2>3. QED
      BY <2>1, <2>2
  <1>4. ASSUME NEW c \in Nat PROVE c \in S
    <2> HIDE DEF S
    <2>1. \A e \in 0 .. c - 1 : e \in S => e + 1 \in S
      BY <1>3
    <2>2. QED
      BY <1>2, <2>1, Inserts!UpTo
  <1>5. b - a \in Nat /\ a + (b - a) = b
    OBVIOUS
  <1>6. QED
    BY <1>4, <1>5

LEMMA MsbBounds ==
  ASSUME NEW n \in Nat \ {0}
  PROVE  /\ Msb(n) \in 0 .. n
         /\ TwoTo[Msb(n)] <= n /\ n < TwoTo[Msb(n) + 1]
  <1> DEFINE above == {b \in Nat : n < TwoTo[b]}
  <1>1. above \in SUBSET Nat /\ n \in above
    BY TwoToAbove
  <1>2. PICK c \in above : \A b \in above : c <= b
    <2> HIDE DEF above
    <2>1. QED
      BY <1>1, Inserts!LeastNatural
  <1>3. c \in Nat /\ c # 0 /\ c <= n
    BY <1>1, <1>2, TwoToSteps
  <1>4. PICK b \in 0 .. n : b = c - 1
    BY <1>3
  <1>5. b \notin above /\ b + 1 = c
    BY <1>2, <1>3, <1>4
  <1>6. TwoTo[b] <= n /\ n < TwoTo[b + 1]
    BY <1>2, <1>5, TwoToAbove
  <1>7. QED
    BY <1>6 DEF Msb

LEMMA LsbDivides ==
  ASSUME NEW n \in Nat \ {0}
  PROVE  Lsb(n) \in 0 .. n /\ n % TwoTo[Lsb(n)] = 0
  <1> DEFINE not == {b \in Nat : n % TwoTo[b] # 0}
  <1>1. not \in SUBSET Nat /\ n \in not
    <2>1. TwoTo[n] \in Nat /\ n < TwoTo[n]
      BY TwoToAbove
    <2>2. QED
      BY <2>1, SmallRemainder
  <1>2. PICK c \in not : \A b \in not : c <= b
    <2> HIDE DEF not
    <2>1. QED
      BY <1>1, Inserts!LeastNatural
  <1>3. c \in Nat /\ c # 0 /\ c <= n
    <2>1. n % 1 = 0
      OBVIOUS
    <2>2. QED
      BY <1>1, <1>2, <2>1, TwoToSteps
  <1>4. PICK b \in 0 .. n : b = c - 1
    BY <1>3
  <1>5. b \notin not /\ b + 1 = c
    BY <1>2, <1>3, <1>4
  <1>6. PICK d \in Nat \ {0} : d = TwoTo[b]
    BY TwoToAbove
  <1>7. PICK q \in Nat : q = n \div d /\ n = q * d /\ n % d = 0
    <2>1. n % d = 0
      BY <1>5, <1>6
    <2>2. QED
      BY <2>1, Quotient
  <1>8. q % 2 = 1
    <2>1. ASSUME q % 2 # 1 PROVE FALSE
      <3>1. PICK k \in Nat : q = k * 2
        BY <2>1
      <3>2. n = k * (2 * d)
        BY <1>7, <3>1
      <3>3. n % (2 * d) = 0
        BY <3>2, MultipleOf
      <3>4. TwoTo[c] = 2 * d
        BY <1>5, <1>6, TwoToSteps
      <3>5. QED
        BY <1>2, <3>3, <3>4
    <2>2. QED
      BY <2>1
  <1>9. n % TwoTo[b] = 0 /\ (n \div TwoTo[b]) % 2 = 1
    BY <1>6, <1>7, <1>8
  <1>10. QED
    BY <1>9 DEF Lsb
LEMMA TwoToMonotone ==
  ASSUME NEW a \in Nat, NEW b \in Nat, a <= b
  PROVE  TwoTo[a] <= TwoTo[b]
  <1>1. TwoTo[a] \in Nat \ {0} /\ TwoTo[b] \in Nat \ {0} /\ TwoTo[b] % TwoTo[a] = 0
    BY TwoToAbove, TwoToDivides
  <1>2. TwoTo[b] < TwoTo[a] => TwoTo[b] % TwoTo[a] = TwoTo[b]
    BY <1>1, SmallRemainder
  <1>3. QED
    BY <1>1, <1>2

\* A power of two that neither the size nor the alignment of the base forbids.
LEMMA PowerFits ==
  ASSUME NEW base \in Nat, NEW size \in Nat \ {0}, NEW b \in Nat,
         b <= Msb(size), base # 0 => b <= Lsb(base)
  PROVE  /\ TwoTo[b] \in Nat \ {0} /\ TwoTo[b] <= size
         /\ base % TwoTo[b] = 0
  <1>1. TwoTo[b] \in Nat \ {0}
    BY TwoToAbove
  <1>2. PICK c \in Nat : c = Msb(size) /\ TwoTo[c] <= size /\ TwoTo[c] \in Nat
    BY MsbBounds, TwoToAbove
  <1>3. TwoTo[b] <= TwoTo[c]
    BY <1>2, TwoToMonotone
  <1>4. CASE base = 0
    BY <1>1, <1>2, <1>3, <1>4, SmallRemainder
  <1>5. CASE base # 0
    <2>1. PICK l \in Nat : l = Lsb(base) /\ base % TwoTo[l] = 0 /\ TwoTo[l] \in Nat \ {0}
      BY <1>5, LsbDivides, TwoToAbove
    <2>2. TwoTo[l] % TwoTo[b] = 0
      BY <1>5, <2>1, TwoToDivides
    <2>3. base % TwoTo[b] = 0
      BY <1>1, <2>1, <2>2, DivisorOfDivisor
    <2>4. QED
      BY <1>1, <1>2, <1>3, <2>3
  <1>6. QED
    BY <1>4, <1>5

-----------------------------------------------------------------------------
(* aligned_power_of_two_regions.                                            *)

AlignedPower(r) ==
  /\ r \in Region /\ r.base < r.end
  /\ \E b \in Nat : Size(r) = TwoTo[b]
  /\ r.base % Size(r) = 0

LEMMA FirstPiece ==
  ASSUME NEW base \in Nat, NEW end \in Nat, base < end
  PROVE  /\ PowerAt(base, end) \in Nat \ {0} /\ base + PowerAt(base, end) <= end
         /\ AlignedPower(MemoryRegion(base, base + PowerAt(base, end)))
  <1>1. PICK size \in Nat \ {0} : size = end - base
    OBVIOUS
  <1>2. PICK most \in Nat : most = Msb(size)
    BY MsbBounds
  <1>3. PICK b \in Nat : PowerAt(base, end) = TwoTo[b] /\ b <= most /\ (base # 0 => b <= Lsb(base))
    <2>1. base # 0 => Lsb(base) \in Nat
      BY LsbDivides
    <2> DEFINE bits == IF base = 0 \/ most < Lsb(base) THEN most ELSE Lsb(base)
               b == IF bits > MaxBits THEN MaxBits ELSE bits
    <2>2. PowerAt(base, end) = TwoTo[b]
      BY <1>1, <1>2 DEF PowerAt
    <2>3. bits \in Nat /\ bits <= most /\ (base # 0 => bits <= Lsb(base))
      BY <2>1
    <2>4. b \in Nat /\ b <= bits
      BY <2>3 DEF MaxBits
    <2>5. b <= most /\ (base # 0 => b <= Lsb(base))
      <3> HIDE DEF bits, b
      <3>1. QED
        BY <2>1, <2>3, <2>4
    <2>6. QED
      BY <2>2, <2>4, <2>5
  <1>4. PICK s \in Nat \ {0} : s = TwoTo[b] /\ s <= size /\ base % s = 0
    BY <1>2, <1>3, PowerFits
  <1>5. base + s <= end
    BY <1>1, <1>4
  <1>6. PICK r : r = MemoryRegion(base, base + s)
    OBVIOUS
  <1>7. r.base = base /\ r.end = base + s /\ r \in Region
    BY <1>6 DEF MemoryRegion, Region
  <1>8. Size(r) = s
    BY <1>7 DEF Size
  <1>9. AlignedPower(r)
    BY <1>4, <1>7, <1>8 DEF AlignedPower
  <1>10. QED
    BY <1>3, <1>4, <1>5, <1>6, <1>9

NextPiece(base, region) == base + PowerAt(base, region.end)

\* g is the recursive function that cuts the region.
Cutting(g, region) ==
  g = [base \in region.base .. region.end |->
         IF base = region.end THEN <<>>
         ELSE <<MemoryRegion(base, NextPiece(base, region))>> \o g[NextPiece(base, region)]]

LEMMA CutByFunction ==
  ASSUME NEW region \in Region
  PROVE  \E g : Cutting(g, region) /\ AlignedPowerOfTwoRegions(region) = g[region.base]
  <1> DEFINE S == region.base .. region.end
             T == Seq(Region)
             next(base) == NextPiece(base, region)
             D == [f \in [S -> T] |-> [base \in S |->
                     IF base = region.end THEN <<>>
                     ELSE <<MemoryRegion(base, next(base))>> \o f[next(base)]]]
             m == [base \in S |-> region.end - base]
  <1>1. region.base \in Nat /\ region.end \in Nat /\ region.base <= region.end
    BY DEF Region
  <1>2. ASSUME NEW base \in S, base # region.end
        PROVE  next(base) \in S /\ m[next(base)] < m[base] /\ MemoryRegion(base, next(base)) \in Region
    <2>1. base \in Nat /\ base < region.end
      BY <1>1, <1>2
    <2>2. PICK s \in Nat \ {0} : s = PowerAt(base, region.end) /\ base + s <= region.end
      BY <1>1, <2>1, FirstPiece
    <2>3. next(base) = base + s
      BY <2>2 DEF NextPiece
    <2> HIDE DEF next
    <2>4. next(base) \in S /\ base < next(base)
      BY <1>1, <2>1, <2>2, <2>3
    <2>5. MemoryRegion(base, next(base)) \in Region
      BY <2>1, <2>4, <1>1 DEF MemoryRegion, Region
    <2>6. QED
      BY <1>1, <2>1, <2>4, <2>5
  <1> HIDE DEF next
  <1>3. ASSUME NEW f \in [S -> T], NEW base \in S
        PROVE  D[f][base] \in T
    <2>1. CASE base = region.end
      BY <2>1
    <2>2. CASE base # region.end
      <3>1. PICK r \in Region : r = MemoryRegion(base, next(base))
        BY <1>2, <2>2
      <3>2. PICK t \in T : t = f[next(base)]
        BY <1>2, <2>2
      <3>3. <<r>> \o t \in T
        OBVIOUS
      <3>4. QED
        BY <2>2, <3>1, <3>2, <3>3
    <2>3. QED
      BY <2>1, <2>2
  <1>4. D \in [[S -> T] -> [S -> T]]
    BY <1>3
  <1>5. ASSUME NEW f \in [S -> T], NEW g \in [S -> T], NEW base \in S,
               \A c \in S : m[c] < m[base] => f[c] = g[c]
        PROVE  D[f][base] = D[g][base]
    <2>1. base # region.end => f[next(base)] = g[next(base)]
      BY <1>2, <1>5
    <2>2. QED
      BY <2>1
  <1>6. Inserts!WellFounded(D, S, T, m)
    <2>1. m \in [S -> Nat]
      BY <1>1
    <2>2. T # {}
      BY EmptySeq
    <2> HIDE DEF D, m, S, T
    <2>3. QED
      BY <1>4, <1>5, <2>1, <2>2 DEF Inserts!WellFounded
  <1>7. \E f : Inserts!Satisfies(f, D, S, T)
    <2> HIDE DEF D, m, S, T
    <2>1. QED
      BY <1>6, Inserts!FixedPoint
  <1>8. PICK f : Cutting(f, region)
    BY <1>7 DEF Inserts!Satisfies, Cutting, next
  <1>9. AlignedPowerOfTwoRegions(region) = (CHOOSE g : Cutting(g, region))[region.base]
    BY DEF AlignedPowerOfTwoRegions, Cutting, NextPiece
  <1>10. QED
    BY <1>8, <1>9

\* The pieces ps are aligned powers of two, do not overlap, and cover the addresses A.
CutInto(ps, A) ==
  /\ ps \in Seq(Region)
  /\ \A j, k \in DOMAIN ps : j # k => Clear(ps[j], ps[k])
  /\ \A k \in DOMAIN ps : AlignedPower(ps[k])
  /\ \A a \in Int : Held(a, ps) <=> a \in A

LEMMA CutNothing == CutInto(<<>>, {})
  <1>1. PICK none : none = <<>>
    OBVIOUS
  <1>2. none \in Seq(Region) /\ DOMAIN none = {}
    BY <1>1
  <1>3. CutInto(none, {})
    BY <1>2 DEF CutInto, Held
  <1>4. QED
    BY <1>1, <1>3

LEMMA CutOne ==
  ASSUME NEW r \in Region, AlignedPower(r), NEW A, \A a \in Int : Lies(a, r) <=> a \in A
  PROVE  CutInto(<<r>>, A)
  <1>1. PICK ps : ps = <<r>>
    OBVIOUS
  <1>2. ps \in Seq(Region) /\ DOMAIN ps = {1} /\ ps[1] = r
    BY <1>1
  <1>3. \A a \in Int : Held(a, ps) <=> a \in A
    BY <1>2 DEF Held
  <1>4. CutInto(ps, A)
    BY <1>2, <1>3 DEF CutInto
  <1>5. QED
    BY <1>1, <1>4

\* The ends of the pieces are among the addresses they cover.
LEMMA PieceEnds ==
  ASSUME NEW ps, NEW A, CutInto(ps, A), NEW k \in DOMAIN ps
  PROVE  /\ ps[k].base \in Nat /\ ps[k].end \in Nat /\ ps[k].base < ps[k].end
         /\ ps[k].base \in A /\ ps[k].end - 1 \in A
  <1>1. ps[k].base \in Nat /\ ps[k].end \in Nat /\ ps[k].base < ps[k].end
    BY DEF CutInto, AlignedPower, Region
  <1>2. Held(ps[k].base, ps) /\ Held(ps[k].end - 1, ps)
    BY <1>1 DEF Held, Lies
  <1>3. QED
    BY <1>1, <1>2 DEF CutInto

LEMMA CutConcat ==
  ASSUME NEW ps, NEW A, CutInto(ps, A), NEW qs, NEW B, CutInto(qs, B),
         \A a \in A : a \notin B
  PROVE  CutInto(ps \o qs, A \cup B)
  <1>1. PICK l \in Nat : l = Len(ps) /\ DOMAIN ps = 1 .. l
    BY DEF CutInto
  <1>2. PICK n \in Nat : n = Len(qs) /\ DOMAIN qs = 1 .. n
    BY DEF CutInto
  <1>3. PICK both : both = ps \o qs
    OBVIOUS
  <1>4. /\ both \in Seq(Region) /\ DOMAIN both = 1 .. l + n
        /\ \A k \in 1 .. l : both[k] = ps[k]
        /\ \A k \in l + 1 .. l + n : k - l \in 1 .. n /\ both[k] = qs[k - l]
    <2>1. ps \in Seq(Region) /\ qs \in Seq(Region)
      BY DEF CutInto
    <2>2. both \in Seq(Region) /\ Len(both) = l + n
      BY <1>1, <1>2, <1>3, <2>1, ConcatIndex
    <2>3. \A k \in 1 .. l : both[k] = ps[k]
      BY <1>1, <1>3, <2>1, ConcatIndex
    <2>4. ASSUME NEW k \in l + 1 .. l + n PROVE k - l \in 1 .. n /\ both[k] = qs[k - l]
      <3>1. PICK j \in 1 .. n : j = k - l /\ k = l + j
        OBVIOUS
      <3>2. both[l + j] = qs[j]
        BY <1>1, <1>2, <1>3, <2>1, ConcatIndex
      <3>3. QED
        BY <3>1, <3>2
    <2>5. QED
      BY <2>2, <2>3, <2>4
  <1>5. \A k \in 1 .. l + n : k \in 1 .. l \/ k \in l + 1 .. l + n
    OBVIOUS
  <1>6. ASSUME NEW j \in 1 .. l, NEW k \in 1 .. n
        PROVE  Clear(ps[j], qs[k]) /\ Clear(qs[k], ps[j])
    <2>1. PICK r : /\ r = ps[j] /\ r.base \in Nat /\ r.end \in Nat /\ r.base < r.end
                   /\ r.base \in A /\ \A a \in Int : Lies(a, r) => a \in A
      <3>1. \A a \in Int : Lies(a, ps[j]) => a \in A
        BY <1>1 DEF CutInto, Held
      <3>2. QED
        BY <1>1, <3>1, PieceEnds
    <2>2. PICK s : /\ s = qs[k] /\ s.base \in Nat /\ s.end \in Nat /\ s.base < s.end
                   /\ s.base \in B /\ \A a \in Int : Lies(a, s) => a \in B
      <3>1. \A a \in Int : Lies(a, qs[k]) => a \in B
        BY <1>2 DEF CutInto, Held
      <3>2. QED
        BY <1>2, <3>1, PieceEnds
    <2>3. r.base # s.base /\ ~Lies(s.base, r) /\ ~Lies(r.base, s)
      BY <2>1, <2>2
    <2>4. Clear(r, s) /\ Clear(s, r)
      BY <2>1, <2>2, <2>3 DEF Lies, Clear
    <2>5. QED
      BY <2>1, <2>2, <2>4
  <1>7. ASSUME NEW j \in DOMAIN both, NEW k \in DOMAIN both, j # k
        PROVE  Clear(both[j], both[k])
    <2>1. CASE j \in 1 .. l /\ k \in 1 .. l
      BY <1>1, <1>4, <1>7, <2>1 DEF CutInto
    <2>2. CASE j \in 1 .. l /\ k \in l + 1 .. l + n
      BY <1>4, <1>6, <2>2
    <2>3. CASE j \in l + 1 .. l + n /\ k \in 1 .. l
      BY <1>4, <1>6, <2>3
    <2>4. CASE j \in l + 1 .. l + n /\ k \in l + 1 .. l + n
      <3>1. j - l # k - l
        BY <1>7, <2>4
      <3>2. QED
        BY <1>2, <1>4, <2>4, <3>1 DEF CutInto
    <2>5. QED
      BY <1>4, <1>5, <2>1, <2>2, <2>3, <2>4
  <1>8. \A k \in 1 .. l + n : AlignedPower(both[k])
    BY <1>1, <1>2, <1>4, <1>5 DEF CutInto
  <1>9. ASSUME NEW a \in Int
        PROVE  Held(a, both) <=> a \in A \cup B
    <2>1. ASSUME Held(a, ps) PROVE Held(a, both)
      <3>1. PICK k \in 1 .. l : Lies(a, ps[k])
        BY <1>1, <2>1 DEF Held
      <3>2. k \in 1 .. l + n
        OBVIOUS
      <3>3. QED
        BY <1>4, <3>1, <3>2 DEF Held
    <2>2. ASSUME Held(a, qs) PROVE Held(a, both)
      <3>1. PICK k \in 1 .. n : Lies(a, qs[k])
        BY <1>2, <2>2 DEF Held
      <3>2. l + k \in l + 1 .. l + n /\ l + k \in 1 .. l + n /\ (l + k) - l = k
        OBVIOUS
      <3>3. both[l + k] = qs[k]
        BY <1>4, <3>2
      <3>4. QED
        BY <1>4, <3>1, <3>2, <3>3 DEF Held
    <2>3. ASSUME Held(a, both) PROVE Held(a, ps) \/ Held(a, qs)
      <3>1. PICK k \in 1 .. l + n : Lies(a, both[k])
        BY <1>4, <2>3 DEF Held
      <3>2. QED
        BY <1>1, <1>2, <1>4, <1>5, <3>1 DEF Held
    <2>4. QED
      BY <2>1, <2>2, <2>3 DEF CutInto
  <1>10. CutInto(both, A \cup B)
    BY <1>4, <1>7, <1>8, <1>9 DEF CutInto
  <1>11. QED
    BY <1>3, <1>10

(***************************************************************************)
(* aligned_power_of_two_regions cuts any region into aligned powers of two *)
(* that cover it without an overlap.                                       *)
(***************************************************************************)
THEOREM AlignedPowers ==
  ASSUME NEW region \in Region
  PROVE  CutInto(AlignedPowerOfTwoRegions(region), region.base .. region.end - 1)
  <1>1. PICK lo \in Nat, hi \in Nat : lo = region.base /\ hi = region.end /\ lo <= hi
    BY DEF Region
  <1>2. PICK g : Cutting(g, region) /\ AlignedPowerOfTwoRegions(region) = g[lo]
    BY <1>1, CutByFunction
  <1> DEFINE T == {n \in 0 .. hi - lo : \A base \in hi - n .. hi : CutInto(g[base], base .. hi - 1)}
  <1>3. 0 \in T
    <2>1. g[hi] = <<>>
      BY <1>1, <1>2 DEF Cutting
    <2>2. CutInto(g[hi], hi .. hi - 1)
      <3>1. hi .. hi - 1 = {}
        OBVIOUS
      <3>2. QED
        BY <2>1, <3>1, CutNothing
    <2>3. \A base \in hi - 0 .. hi : base = hi
      OBVIOUS
    <2>4. QED
      BY <1>1, <2>2, <2>3
  <1>4. ASSUME NEW n \in 0 .. (hi - lo) - 1, n \in T PROVE n + 1 \in T
    <2>1. PICK base \in Nat : base = hi - (n + 1) /\ lo <= base /\ base < hi
      BY <1>1
    <2>2. PICK next \in Nat : /\ next = NextPiece(base, region) /\ base < next /\ next <= hi
                              /\ AlignedPower(MemoryRegion(base, next))
      <3>1. PICK s \in Nat \ {0} : /\ s = PowerAt(base, hi) /\ base + s <= hi
                                   /\ AlignedPower(MemoryRegion(base, base + s))
        BY <2>1, FirstPiece
      <3>2. NextPiece(base, region) = base + s
        BY <1>1, <3>1 DEF NextPiece
      <3>3. base + s \in Nat /\ base < base + s
        OBVIOUS
      <3>4. QED
        BY <3>1, <3>2, <3>3
    <2>3. g[base] = <<MemoryRegion(base, next)>> \o g[next]
      <3>1. base \in region.base .. region.end /\ base # region.end
        BY <1>1, <2>1
      <3>2. g[base] = IF base = region.end THEN <<>>
                      ELSE <<MemoryRegion(base, NextPiece(base, region))>> \o g[NextPiece(base, region)]
        <4> HIDE DEF T
        <4>1. Cutting(g, region)
          BY <1>2
        <4>2. QED
          BY <3>1, <4>1, Zenon DEF Cutting
      <3>3. QED
        BY <2>2, <3>1, <3>2
    <2>4. next \in hi - n .. hi
      BY <2>1, <2>2
    <2>5. CutInto(g[next], next .. hi - 1)
      BY <1>4, <2>4
    <2>6. CutInto(g[base], base .. hi - 1)
      <3>1. PICK r \in Region : r = MemoryRegion(base, next) /\ r.base = base /\ r.end = next
        BY <2>2 DEF MemoryRegion, Region
      <3>2. CutInto(<<r>>, base .. next - 1)
        <4>1. \A a \in Int : Lies(a, r) <=> a \in base .. next - 1
          BY <3>1 DEF Lies
        <4>2. QED
          BY <2>2, <3>1, <4>1, CutOne
      <3>3. CutInto(<<r>> \o g[next], (base .. next - 1) \cup (next .. hi - 1))
        <4>1. \A a \in base .. next - 1 : a \notin next .. hi - 1
          OBVIOUS
        <4> HIDE DEF T
        <4>2. QED
          BY <2>5, <3>2, <4>1, CutConcat
      <3>4. (base .. next - 1) \cup (next .. hi - 1) = base .. hi - 1
        BY <2>2
      <3>5. QED
        BY <2>3, <3>1, <3>3, <3>4
    <2>7. \A b \in hi - (n + 1) .. hi : b = base \/ b \in hi - n .. hi
      BY <2>1
    <2>8. n + 1 \in 0 .. hi - lo
      OBVIOUS
    <2>9. QED
      BY <1>4, <2>6, <2>7, <2>8
  <1>5. hi - lo \in T
    <2> HIDE DEF T
    <2>1. hi - lo \in Nat
      BY <1>1
    <2>2. PICK n \in Nat : n = hi - lo
      BY <2>1
    <2>3. \A k \in 0 .. n - 1 : k \in T => k + 1 \in T
      BY <1>4, <2>2
    <2>4. QED
      BY <1>3, <2>2, <2>3, Inserts!UpTo
  <1>6. lo \in hi - (hi - lo) .. hi
    BY <1>1
  <1>7. CutInto(g[lo], lo .. hi - 1)
    BY <1>5, <1>6
  <1>8. QED
    BY <1>1, <1>2, <1>7
-----------------------------------------------------------------------------
(* The pieces of several regions.                                           *)

HeldBefore(rs, k) == {a \in Int : \E j \in 1 .. k : Lies(a, rs[j])}

(***************************************************************************)
(* The aligned powers of two of a sequence of disjoint regions cover what  *)
(* the regions hold.                                                       *)
(***************************************************************************)
THEOREM AllAlignedPowers ==
  ASSUME NEW rs \in Seq(Region), Disjoint(rs)
  PROVE  CutInto(AllAlignedRegions(rs), Addresses(rs))
  <1>1. PICK n \in Nat : n = Len(rs) /\ DOMAIN rs = 1 .. n
    OBVIOUS
  <1>2. PICK ss : ss = [k \in 1 .. n |-> AlignedPowerOfTwoRegions(rs[k])]
    OBVIOUS
  <1>3. AllAlignedRegions(rs) = FlattenSeq(ss)
    BY <1>1, <1>2 DEF AllAlignedRegions
  <1>4. \A k \in 1 .. n : /\ rs[k].base \in Nat /\ rs[k].end \in Nat
                          /\ CutInto(ss[k], rs[k].base .. rs[k].end - 1)
    BY <1>1, <1>2, AlignedPowers, RegionFields
  <1>5. ss \in Seq(Seq(Region)) /\ Len(ss) = n
    <2>1. \A k \in 1 .. n : ss[k] \in Seq(Region)
      BY <1>4 DEF CutInto
    <2>2. QED
      BY <1>2, <2>1
  <1>6. Addresses(rs) = HeldBefore(rs, n)
    BY <1>1, HeldAddresses DEF HeldBefore, Held
  <1>7. CASE n = 0
    <2>1. FlattenSeq(ss) = <<>>
      BY <1>5, <1>7 DEF FlattenSeq
    <2>2. HeldBefore(rs, n) = {}
      BY <1>7 DEF HeldBefore
    <2>3. QED
      BY <1>3, <1>6, <2>1, <2>2, CutNothing
  <1>8. CASE n # 0
    <2>1. PICK f : /\ f[1] = ss[1]
                   /\ \A i \in 1 .. n - 1 : f[i + 1] = f[i] \o ss[i + 1]
                   /\ FlattenSeq(ss) = f[n]
      <3>1. \E f : Inserts!Concats(f, ss, n)
        <4>1. n \in Nat \ {0} /\ ss \in Seq(Seq(Region)) /\ n = Len(ss)
          BY <1>5, <1>8
        <4>2. QED
          BY <4>1, Inserts!FlattenSteps
      <3>2. FlattenSeq(ss) = Inserts!FlattenSeq(ss)
        BY DEF FlattenSeq, Inserts!FlattenSeq
      <3>3. QED
        BY <3>1, <3>2 DEF Inserts!Concats
    <2> DEFINE G == {k \in 0 .. n - 1 : CutInto(f[k + 1], HeldBefore(rs, k + 1))}
    <2>2. 0 \in G
      <3>1. HeldBefore(rs, 1) = rs[1].base .. rs[1].end - 1
        BY <1>4, <1>8 DEF HeldBefore, Lies
      <3>2. CutInto(ss[1], HeldBefore(rs, 1))
        BY <1>4, <1>8, <3>1
      <3>3. QED
        BY <1>8, <2>1, <3>2
    <2>3. ASSUME NEW k \in 0 .. n - 2, k \in G PROVE k + 1 \in G
      <3>1. PICK j \in 1 .. n - 1 : j = k + 1
        OBVIOUS
      <3>2. j + 1 \in 1 .. n
        OBVIOUS
      <3>3. CutInto(f[j], HeldBefore(rs, j))
        BY <2>3, <3>1
      <3>4. CutInto(ss[j + 1], rs[j + 1].base .. rs[j + 1].end - 1)
        BY <1>4, <3>2
      <3>5. ASSUME NEW a \in HeldBefore(rs, j)
            PROVE  a \notin rs[j + 1].base .. rs[j + 1].end - 1
        <4>1. PICK i \in 1 .. j : Lies(a, rs[i])
          BY DEF HeldBefore
        <4>2. i \in 1 .. n /\ i < j + 1
          OBVIOUS
        <4>3. rs[i].end <= rs[j + 1].base
          BY <1>1, <3>2, <4>2 DEF Disjoint
        <4>4. QED
          BY <1>4, <3>2, <4>1, <4>2, <4>3 DEF HeldBefore, Lies
      <3>6. CutInto(f[j] \o ss[j + 1], HeldBefore(rs, j) \cup (rs[j + 1].base .. rs[j + 1].end - 1))
        BY <3>3, <3>4, <3>5, CutConcat
      <3>7. HeldBefore(rs, j) \cup (rs[j + 1].base .. rs[j + 1].end - 1) = HeldBefore(rs, j + 1)
        <4>1. 1 .. j + 1 = (1 .. j) \cup {j + 1}
          OBVIOUS
        <4>2. \A a \in Int : Lies(a, rs[j + 1]) <=> a \in rs[j + 1].base .. rs[j + 1].end - 1
          BY <1>4, <3>2 DEF Lies
        <4>3. rs[j + 1].base .. rs[j + 1].end - 1 \in SUBSET Int
          BY <1>4, <3>2
        <4>4. QED
          BY <4>1, <4>2, <4>3 DEF HeldBefore
      <3>8. CutInto(f[j + 1], HeldBefore(rs, j + 1))
        BY <2>1, <3>6, <3>7
      <3>9. QED
        BY <3>1, <3>8
    <2>4. n - 1 \in G
      <3> HIDE DEF G
      <3>1. PICK m \in Nat : m = n - 1
        BY <1>8
      <3>2. \A k \in 0 .. m - 1 : k \in G => k + 1 \in G
        BY <2>3, <3>1
      <3>3. QED
        BY <2>2, <3>1, <3>2, Inserts!UpTo
    <2>5. CutInto(f[n], HeldBefore(rs, n))
      BY <2>4
    <2>6. QED
      BY <1>3, <1>6, <2>1, <2>5
  <1>9. QED
    BY <1>7, <1>8
===============================================================================
