---------------------------- MODULE MemoryRegions ----------------------------
(***************************************************************************)
(* The arithmetic of tool/microkit/util.py and the sets of addresses it    *)
(* keeps as sorted sequences of disjoint regions (DisjointMemoryRegion).   *)
(***************************************************************************)
EXTENDS Integers, SequencesExt

RoundUp(n, x) == IF n % x = 0 THEN n ELSE (n + x) - (n % x)
RoundDown(n, x) == n - (n % x)

\* 1 << b, of which Python has all.
TwoTo[b \in Nat] == IF b = 0 THEN 1 ELSE 2 * TwoTo[b - 1]

\* The exponent of the greatest power of two that is at most n, and that divides n.
Msb(n) == CHOOSE b \in 0 .. n : TwoTo[b] <= n /\ n < TwoTo[b + 1]
Lsb(n) ==
  IF n = 0 THEN -1
  ELSE CHOOSE b \in 0 .. n : n % TwoTo[b] = 0 /\ (n \div TwoTo[b]) % 2 = 1

-----------------------------------------------------------------------------
\* MemoryRegion: the base is inclusive, the end exclusive.
MemoryRegion(base, end) == [base |-> base, end |-> end]
Region == {r \in [base: Nat, end: Nat] : r.base <= r.end}
Size(region) == region.end - region.base
Within(inner, outer) == outer.base <= inner.base /\ inner.end <= outer.end

\* What a sequence of regions stands for.
Addresses(regions) == UNION {regions[i].base .. regions[i].end - 1 : i \in DOMAIN regions}

\* _check, which is asserted after each change.
Disjoint(regions) ==
  \A i, j \in DOMAIN regions : i < j => regions[i].end <= regions[j].base

InsertRegion(regions, new) ==
  LET after == {i \in DOMAIN regions : new.end < regions[i].base}
  IN InsertAt(regions, Min(after \cup {Len(regions) + 1}), new)

Covers(regions, old) == \E i \in DOMAIN regions : Within(old, regions[i])

\* Mutant: the end of a region is not trimmed off.
RemoveRegionKeepsEnd(regions, old) ==
  LET i == SelectInSeq(regions, LAMBDA region : Within(old, region))
      region == regions[i]
      before == IF region.base = old.base THEN <<>>
                ELSE IF region.end = old.end THEN <<region>>
                ELSE <<MemoryRegion(region.base, old.base)>>
      after == IF region.end = old.end THEN <<>> ELSE <<MemoryRegion(old.end, region.end)>>
  IN SubSeq(regions, 1, i - 1) \o before \o after \o SubSeq(regions, i + 1, Len(regions))

\* What is left of the first region that covers old; an error if none does.
RemoveRegion(regions, old) ==
  LET i == SelectInSeq(regions, LAMBDA region : Within(old, region))
      region == regions[i]
      before == IF region.base = old.base THEN <<>> ELSE <<MemoryRegion(region.base, old.base)>>
      after == IF region.end = old.end THEN <<>> ELSE <<MemoryRegion(old.end, region.end)>>
  IN SubSeq(regions, 1, i - 1) \o before \o after \o SubSeq(regions, i + 1, Len(regions))

\* allocate: first fit.
CanAllocate(regions, size) == {i \in DOMAIN regions : size <= Size(regions[i])} # {}
Allocated(regions, size) ==
  LET i == SelectInSeq(regions, LAMBDA region : size <= Size(region))
  IN MemoryRegion(regions[i].base, regions[i].base + size)

MaxBits == 40   \* max_bits

\* Mutant: the alignment of the base is ignored.
PowerAtUnaligned(base, end) == TwoTo[Msb(end - base)]

\* The size of the untyped object at base.
PowerAt(base, end) ==
  LET size_bits == Msb(end - base)
      bits == IF base = 0 \/ size_bits < Lsb(base) THEN size_bits ELSE Lsb(base)
  IN TwoTo[IF bits > MaxBits THEN MaxBits ELSE bits]

AlignedPowerOfTwoRegions(region) ==
  LET from[base \in region.base .. region.end] ==
        IF base = region.end THEN <<>>
        ELSE LET next == base + PowerAt(base, region.end)
             IN <<MemoryRegion(base, next)>> \o from[next]
  IN from[region.base]

AllAlignedRegions(regions) ==
  FlattenSeq([i \in DOMAIN regions |-> AlignedPowerOfTwoRegions(regions[i])])
=============================================================================
