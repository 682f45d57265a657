----------------------------- MODULE LayoutProofs -----------------------------
(***************************************************************************)
(* Where the tool puts things in physical memory, for all machines,        *)
(* programs and sizes: build_system and emulate_kernel_boot give no        *)
(* address to two parties and lose none.                                   *)
(***************************************************************************)
EXTENDS MonitorBoot, RegionProofs

AddPages(sum, segment) == sum + Size(PagesOfSegment(segment))
Adds == INSTANCE FoldInduction WITH op <- AddPages
Places == INSTANCE FoldInduction WITH op <- PlaceSegment
Keeps == INSTANCE FoldInduction WITH op <- KeepLoadable

-----------------------------------------------------------------------------
(* The sizes and the choice of the regions.                                 *)

Segment == [pd: Nat, virt: Nat, phys: Nat, filesz: Nat, len: Nat, loadable: BOOLEAN]

PageAligned(a) == a % Page = 0

\* The whole pages that hold len bytes from address a on.
LEMMA PagesHold ==
  ASSUME NEW a \in Nat, NEW len \in Nat
  PROVE  LET size == RoundUp(a + len, Page) - RoundDown(a, Page)
         IN size \in Nat /\ len <= size /\ PageAligned(size)
  <1> DEFINE above == RoundUp(a + len, Page)
             below == RoundDown(a, Page)
  <1>1. Page \in Nat \ {0} /\ a + len \in Nat
    BY SizeAssumption
  <1>2. above \in Nat /\ above % Page = 0 /\ a + len <= above
    BY <1>1, RoundUpMultiple
  <1>3. below \in Nat /\ below % Page = 0 /\ below <= a
    BY <1>1, RoundDownMultiple
  <1> HIDE DEF above, below
  <1>4. above - below \in Nat /\ len <= above - below
    BY <1>2, <1>3
  <1>5. (above - below) % Page = 0
    <2>1. CASE below < above
      BY <1>1, <1>2, <1>3, <2>1, MultiplesApart
    <2>2. CASE below = above
      <3>1. above - below = 0 /\ 0 \in 0 .. Page - 1
        BY <1>1, <1>2, <2>2
      <3>2. QED
        BY <1>1, <3>1, SmallRemainder
    <2>3. QED
      BY <1>2, <1>3, <1>4, <2>1, <2>2
  <1>6. QED
    BY <1>4, <1>5 DEF above, below, PageAligned

LEMMA PagesCounted ==
  ASSUME NEW segment \in Segment
  PROVE  Size(PagesOfSegment(segment)) \in Nat /\ PageAligned(Size(PagesOfSegment(segment)))
  <1>1. Size(PagesOfSegment(segment))
          = RoundUp(segment.phys + segment.len, Page) - RoundDown(segment.phys, Page)
    BY DEF Size, PagesOfSegment, MemoryRegion
  <1>2. segment.phys \in Nat /\ segment.len \in Nat
    BY DEF Segment
  <1>3. QED
    BY <1>1, <1>2, PagesHold

LEMMA ElementsOf ==
  ASSUME NEW S, NEW s \in Seq(S)
  PROVE  \A k \in 1 .. Len(s) : s[k] \in S
  OBVIOUS

\* The sum of page aligned numbers.
LEMMA AlignedSum ==
  ASSUME NEW a \in Nat, NEW b \in Nat, PageAligned(a), PageAligned(b)
  PROVE  a + b \in Nat /\ PageAligned(a + b)
  <1>1. Page \in Nat \ {0}
    BY SizeAssumption
  <1>2. a % Page = 0 /\ b % Page = 0
    BY DEF PageAligned
  <1>3. (a + b) % Page = 0
    BY <1>1, <1>2, Multiples
  <1>4. QED
    BY <1>3 DEF PageAligned

LEMMA ReservedSizeNatural ==
  ASSUME program \in Programs, invocation_table_size \in Nat
  PROVE  /\ ReservedSize \in Nat /\ invocation_table_size <= ReservedSize
         /\ PageAligned(invocation_table_size) => PageAligned(ReservedSize)
  <1> DEFINE ss == program.segments
             table == invocation_table_size
  <1>1. ss \in Seq(Segment)
    BY ProgramAssumption DEF Segment
  <1>2. PICK n \in Nat : DOMAIN ss = 1 .. n /\ \A k \in 1 .. n : ss[k] \in Segment
    <2> HIDE DEF ss
    <2>1. Len(ss) \in Nat /\ DOMAIN ss = 1 .. Len(ss)
      BY <1>1
    <2>2. \A k \in 1 .. Len(ss) : ss[k] \in Segment
      BY <1>1, ElementsOf
    <2>3. QED
      BY <2>1, <2>2
  <1>3. ReservedSize = Adds!FoldLeft(AddPages, table, ss)
    BY DEF ReservedSize, FoldLeft, MapThenFoldSet, Max, AddPages,
           Adds!FoldLeft, Adds!MapThenFoldSet, Adds!Max
  <1> HIDE DEF ss, table
  <1>4. PICK f : Adds!Steps(f, ss, table, n) /\ Adds!FoldLeft(AddPages, table, ss) = f[n]
    <2>1. DOMAIN ss = 1 .. n
      BY <1>2
    <2>2. QED
      BY <2>1, Adds!FoldLeftSteps
  <1> DEFINE Sum(total) == /\ total \in Nat /\ table <= total
                           /\ PageAligned(table) => PageAligned(total)
             T == {k \in 0 .. n : Sum(f[k])}
  <1>5. 0 \in T
    <2>1. f[0] = table /\ table \in Nat
      BY <1>4 DEF Adds!Steps, table
    <2>2. QED
      BY <2>1
  <1>6. ASSUME NEW k \in 0 .. n - 1, k \in T PROVE k + 1 \in T
    <2>1. f[k + 1] = f[k] + Size(PagesOfSegment(ss[k + 1]))
      BY <1>4 DEF Adds!Steps, AddPages
    <2>2. PICK size : size = Size(PagesOfSegment(ss[k + 1]))
      OBVIOUS
    <2>3. size \in Nat /\ PageAligned(size)
      <3>1. ss[k + 1] \in Segment
        BY <1>2
      <3>2. QED
        BY <2>2, <3>1, PagesCounted
    <2>4. f[k] \in Nat /\ table <= f[k] /\ table \in Nat /\ f[k + 1] = f[k] + size
      BY <1>6, <2>1, <2>2 DEF table
    <2>5. f[k + 1] \in Nat /\ table <= f[k + 1]
      BY <2>3, <2>4
    <2>6. PageAligned(table) => PageAligned(f[k + 1])
      BY <1>6, <2>3, <2>4, AlignedSum
    <2>7. k + 1 \in 0 .. n
      OBVIOUS
    <2>8. QED
      BY <2>5, <2>6, <2>7
  <1> HIDE DEF T
  <1>7. n \in T
    <2>1. \A k \in 0 .. n - 1 : k \in T => k + 1 \in T
      BY <1>6
    <2>2. \A k \in 0 .. n : k \in T
      BY <1>5, <2>1, Inserts!UpTo
    <2>3. QED
      BY <2>2
  <1>8. QED
    BY <1>3, <1>4, <1>7 DEF T, table

\* allocate: a part of one of the regions.
LEMMA AllocatedWithin ==
  ASSUME NEW rs \in Seq(Region), NEW size \in Nat, CanAllocate(rs, size)
  PROVE  /\ Allocated(rs, size) \in Region /\ Covers(rs, Allocated(rs, size))
         /\ Allocated(rs, size).end = Allocated(rs, size).base + size
         /\ \E k \in DOMAIN rs : Allocated(rs, size).base = rs[k].base
  <1> DEFINE I == {n \in 1 .. Len(rs) : size <= Size(rs[n])}
             m == SelectInSeq(rs, LAMBDA region : size <= Size(region))
  <1>1. I # {} /\ I \in SUBSET Nat
    BY DEF CanAllocate
  <1>2. m = Min(I)
    BY <1>1 DEF SelectInSeq
  <1>3. \E n \in I : \A k \in I : n <= k
    <2> HIDE DEF I
    <2>1. QED
      BY <1>1, Inserts!LeastNatural
  <1>4. Min(I) \in I
    BY <1>3 DEF Min
  <1>5. m \in DOMAIN rs /\ size <= Size(rs[m])
    BY <1>2, <1>4
  <1>6. Allocated(rs, size) = MemoryRegion(rs[m].base, rs[m].base + size)
    BY DEF Allocated
  <1> HIDE DEF m
  <1>7. rs[m].base \in Nat /\ rs[m].end \in Nat
    BY <1>5, RegionFields
  <1>8. MemoryRegion(rs[m].base, rs[m].base + size) \in Region
    BY <1>7 DEF MemoryRegion, Region
  <1>9. Within(MemoryRegion(rs[m].base, rs[m].base + size), rs[m])
    BY <1>5, <1>7 DEF Within, MemoryRegion, Size
  <1>10. Allocated(rs, size).end = Allocated(rs, size).base + size
    BY <1>6 DEF MemoryRegion
  <1>11. Allocated(rs, size).base = rs[m].base
    BY <1>6 DEF MemoryRegion
  <1>12. QED
    BY <1>5, <1>6, <1>8, <1>9, <1>10, <1>11 DEF Covers

-----------------------------------------------------------------------------
(* _kernel_partial_boot                                                     *)

NormalOf(m) == RemoveRegion(m.memory, m.image)

\* Normal memory is the memory without the image of the kernel.
LEMMA PartialNormalExact ==
  ASSUME machine \in Machines
  PROVE  /\ PartialNormal = NormalOf(machine)
         /\ Without(NormalOf(machine), machine.memory, machine.image)
  <1>1. /\ machine.memory \in Seq(Region) /\ machine.image \in Region
        /\ Disjoint(machine.memory) /\ Covers(machine.memory, machine.image)
    BY MachineAssumption
  <1> DEFINE banks == machine.memory
             image == machine.image
  <1> HIDE DEF banks, image
  <1>2. FoldLeft(InsertRegion, <<>>, banks) = banks
    BY <1>1, InsertedInOrder DEF banks, image
  <1>3. Without(RemoveRegion(banks, image), banks, image)
    BY <1>1, RemoveRegionExact DEF banks, image
  <1>4. QED
    BY <1>2, <1>3 DEF PartialNormal, NormalOf, banks, image

FrameOf(m, n) == MemoryRegion(m.devices[n], m.devices[n] + Page)

LEMMA ConcatElements ==
  ASSUME NEW s \in Seq(Region), NEW t \in Seq(Region)
  PROVE  /\ s \o t \in Seq(Region)
         /\ \A k \in DOMAIN (s \o t) : \/ k \in DOMAIN s /\ (s \o t)[k] = s[k]
                                       \/ k - Len(s) \in DOMAIN t /\ (s \o t)[k] = t[k - Len(s)]
         /\ \A a : Held(a, s \o t) <=> Held(a, s) \/ Held(a, t)
  <1> DEFINE u == s \o t
  <1>1. /\ u \in Seq(Region)
        /\ \A k \in DOMAIN u : \/ k \in DOMAIN s /\ u[k] = s[k]
                               \/ k - Len(s) \in DOMAIN t /\ u[k] = t[k - Len(s)]
        /\ \A k \in DOMAIN s : k \in DOMAIN u /\ u[k] = s[k]
        /\ \A k \in DOMAIN t : Len(s) + k \in DOMAIN u /\ u[Len(s) + k] = t[k]
    OBVIOUS
  <1> HIDE DEF u
  <1>2. ASSUME NEW a PROVE Held(a, u) <=> Held(a, s) \/ Held(a, t)
    BY <1>1 DEF Held
  <1>3. QED
    BY <1>1, <1>2 DEF u

\* What the assumption on the machine says of the frames and of the banks.
LEMMA FramesAndBanks ==
  ASSUME NEW m \in Machines
  PROVE  /\ m.top \in Nat /\ m.memory \in Seq(Region) /\ m.devices \in Seq(Nat)
         /\ \A n \in DOMAIN m.memory : m.memory[n].base < m.memory[n].end /\ m.memory[n].end <= m.top
         /\ \A n \in DOMAIN m.devices : FrameOf(m, n) \in Region /\ FrameOf(m, n).base < FrameOf(m, n).end
                                         /\ FrameOf(m, n).end <= m.top
         /\ \A k, n \in DOMAIN m.devices : k # n => Clear(FrameOf(m, k), FrameOf(m, n))
         /\ \A k, n \in DOMAIN m.memory : k # n => Clear(m.memory[k], m.memory[n])
         /\ \A k \in DOMAIN m.devices, n \in DOMAIN m.memory : Clear(FrameOf(m, k), m.memory[n])
  <1> DEFINE banks == m.memory
             frames == m.devices
  <1>1. Page \in Nat /\ Page > 0
    BY SizeAssumption
  <1>2. /\ m.top \in Nat /\ banks \in Seq(Region) /\ frames \in Seq(Nat) /\ Disjoint(banks)
        /\ \A n \in DOMAIN banks : banks[n].base < banks[n].end
    BY MachineAssumption
  <1>3. \A n \in DOMAIN frames :
          /\ frames[n] + Page <= m.top
          /\ \A a \in frames[n] .. frames[n] + Page - 1 : a \notin Addresses(banks)
          /\ \A k \in DOMAIN frames \ {n} :
               frames[n] + Page <= frames[k] \/ frames[k] + Page <= frames[n]
    BY MachineAssumption
  <1>4. \A a \in Addresses(banks) : a < m.top
    BY MachineAssumption
  <1> HIDE DEF banks, frames
  <1>5. \A n \in DOMAIN banks : banks[n].base \in Nat /\ banks[n].end \in Nat
    BY <1>2, RegionFields
  <1>6. \A n \in DOMAIN frames : frames[n] \in Nat
    BY <1>2
  <1>7. \A n \in DOMAIN banks : banks[n].end <= m.top
    <2> SUFFICES ASSUME NEW n \in DOMAIN banks PROVE banks[n].end <= m.top
      OBVIOUS
    <2>1. Lies(banks[n].end - 1, banks[n]) /\ banks[n].end - 1 \in Int
      BY <1>2, <1>5 DEF Lies
    <2>2. banks[n].end - 1 \in Addresses(banks)
      BY <1>2, <2>1, HeldAddresses DEF Held
    <2>3. banks[n].end - 1 < m.top
      BY <1>4, <2>2
    <2>4. QED
      BY <1>2, <1>5, <2>3
  <1>8. \A k \in DOMAIN frames, n \in DOMAIN banks : Clear(FrameOf(m, k), banks[n])
    <2> SUFFICES ASSUME NEW k \in DOMAIN frames, NEW n \in DOMAIN banks,
                        frames[k] < banks[n].end, banks[n].base < frames[k] + Page
                 PROVE  FALSE
      BY <1>1, <1>5, <1>6 DEF Clear, FrameOf, MemoryRegion, frames
    <2>1. \A a \in Int : frames[k] <= a /\ a < frames[k] + Page => a \notin Addresses(banks)
      BY <1>1, <1>3, <1>6
    <2>2. \A a \in Int : Lies(a, banks[n]) => a \in Addresses(banks)
      BY <1>2, HeldAddresses DEF Held
    <2>3. CASE frames[k] <= banks[n].base
      <3>1. Lies(banks[n].base, banks[n]) /\ banks[n].base \in Int
        BY <1>2, <1>5 DEF Lies
      <3>2. QED
        BY <2>1, <2>2, <2>3, <3>1
    <2>4. CASE banks[n].base < frames[k]
      <3>1. Lies(frames[k], banks[n]) /\ frames[k] \in Int /\ frames[k] < frames[k] + Page
        BY <1>1, <1>5, <1>6, <2>4 DEF Lies
      <3>2. QED
        BY <2>1, <2>2, <3>1
    <2>5. QED
      BY <1>5, <1>6, <2>3, <2>4
  <1>9. \A k, n \in DOMAIN banks : k # n => Clear(banks[k], banks[n])
    <2>1. \A k, n \in DOMAIN banks : k \in Int /\ n \in Int
      BY <1>2
    <2>2. QED
      BY <1>2, <2>1 DEF Disjoint, Clear
  <1>10. \A k, n \in DOMAIN frames : k # n => Clear(FrameOf(m, k), FrameOf(m, n))
    BY <1>3 DEF Clear, FrameOf, MemoryRegion, frames
  <1>11. \A n \in DOMAIN frames : /\ FrameOf(m, n) \in Region
                                  /\ FrameOf(m, n).base < FrameOf(m, n).end
                                  /\ FrameOf(m, n).end <= m.top
    BY <1>1, <1>3, <1>6 DEF FrameOf, MemoryRegion, Region, frames
  <1>12. QED
    BY <1>2, <1>7, <1>8, <1>9, <1>10, <1>11 DEF banks, frames

\* Device memory is all below the top but the memory and the frames.
LEMMA PartialDeviceExact ==
  ASSUME machine \in Machines
  PROVE  /\ PartialDevice \in Seq(Region) /\ Disjoint(PartialDevice)
         /\ \A a \in Int : Held(a, PartialDevice) <=>
              /\ 0 <= a /\ a < machine.top /\ ~Held(a, machine.memory)
              /\ \A n \in DOMAIN machine.devices : ~Lies(a, FrameOf(machine, n))
  <1> DEFINE banks == machine.memory
             frames == [n \in DOMAIN machine.devices |-> FrameOf(machine, n)]
             cuts == frames \o banks
  <1>1. /\ machine.top \in Nat /\ banks \in Seq(Region) /\ machine.devices \in Seq(Nat)
        /\ \A n \in DOMAIN banks : banks[n].base < banks[n].end /\ banks[n].end <= machine.top
        /\ \A n \in DOMAIN machine.devices :
             FrameOf(machine, n) \in Region /\ FrameOf(machine, n).base < FrameOf(machine, n).end
               /\ FrameOf(machine, n).end <= machine.top
        /\ \A k, n \in DOMAIN machine.devices : k # n => Clear(FrameOf(machine, k), FrameOf(machine, n))
        /\ \A k, n \in DOMAIN banks : k # n => Clear(banks[k], banks[n])
        /\ \A k \in DOMAIN machine.devices, n \in DOMAIN banks : Clear(FrameOf(machine, k), banks[n])
    BY FramesAndBanks
  <1>2. PartialDevice = FoldLeft(RemoveRegion, <<MemoryRegion(0, machine.top)>>, cuts)
    BY DEF PartialDevice, FrameOf
  <1>3. frames \in Seq(Region) /\ DOMAIN frames = DOMAIN machine.devices
    BY <1>1
  <1>4. \A n \in DOMAIN frames : frames[n] = FrameOf(machine, n)
    OBVIOUS
  <1> HIDE DEF frames, banks
  <1>5. /\ cuts \in Seq(Region)
        /\ \A k \in DOMAIN cuts : \/ k \in DOMAIN frames /\ cuts[k] = frames[k]
                                  \/ k - Len(frames) \in DOMAIN banks /\ cuts[k] = banks[k - Len(frames)]
        /\ \A a : Held(a, cuts) <=> Held(a, frames) \/ Held(a, banks)
    BY <1>1, <1>3, ConcatElements
  <1> HIDE DEF cuts
  <1>6. \A n \in DOMAIN cuts : cuts[n].base < cuts[n].end /\ cuts[n].end <= machine.top
    BY <1>1, <1>3, <1>4, <1>5
  <1>7. \A k, n \in DOMAIN cuts : k # n => Clear(cuts[k], cuts[n])
    <2> SUFFICES ASSUME NEW k \in DOMAIN cuts, NEW n \in DOMAIN cuts, k # n
                 PROVE  Clear(cuts[k], cuts[n])
      OBVIOUS
    <2>1. CASE k \in DOMAIN frames /\ cuts[k] = frames[k]
      BY <1>1, <1>3, <1>4, <1>5, <2>1 DEF Clear
    <2>2. CASE k - Len(frames) \in DOMAIN banks /\ cuts[k] = banks[k - Len(frames)]
      <3>1. CASE n \in DOMAIN frames /\ cuts[n] = frames[n]
        BY <1>1, <1>3, <1>4, <2>2, <3>1 DEF Clear
      <3>2. CASE n - Len(frames) \in DOMAIN banks /\ cuts[n] = banks[n - Len(frames)]
        <4>1. k \in Int /\ n \in Int /\ Len(frames) \in Int
          BY <1>3, <1>5
        <4>2. k - Len(frames) # n - Len(frames)
          BY <4>1
        <4>3. QED
          BY <1>1, <2>2, <3>2, <4>2
      <3>3. QED
        BY <1>5, <3>1, <3>2
    <2>3. QED
      BY <1>5, <2>1, <2>2
  <1>8. /\ PartialDevice \in Seq(Region) /\ Disjoint(PartialDevice)
        /\ \A a \in Int : Held(a, PartialDevice) <=> 0 <= a /\ a < machine.top /\ ~Held(a, cuts)
    BY <1>1, <1>2, <1>5, <1>6, <1>7, CutsLeaveRest
  <1>9. \A a : Held(a, frames) <=> \E n \in DOMAIN machine.devices : Lies(a, FrameOf(machine, n))
    BY <1>3, <1>4 DEF Held
  <1>10. QED
    BY <1>5, <1>8, <1>9 DEF banks

-----------------------------------------------------------------------------
(* The invariant.                                                           *)

\* Between build_system's first part and emulate_kernel_boot.
ReservedWell(m, reserved, task) ==
  /\ reserved \in Region /\ task \in Region
  /\ Covers(NormalOf(m), reserved) /\ Covers(NormalOf(m), task)
  /\ reserved.base < task.base /\ reserved.end <= task.base

\* And after it.
NoneShared(image, task, reserved, root) ==
  /\ Clear(image, task) /\ Clear(image, reserved) /\ Clear(image, root)
  /\ Clear(task, reserved) /\ Clear(task, root) /\ Clear(reserved, root)

NormalExact(m, task, reserved, root, normal) ==
  /\ normal \in Seq(Region) /\ Disjoint(normal)
  /\ \A a \in Int : Held(a, normal) <=>
       /\ Held(a, m.memory) /\ ~Lies(a, m.image)
       /\ ~Lies(a, task) /\ ~Lies(a, reserved) /\ ~Lies(a, root)

DeviceExact(m, device) ==
  /\ device \in Seq(Region) /\ Disjoint(device)
  /\ \A a \in Int : Held(a, device) <=>
       /\ 0 <= a /\ a < m.top /\ ~Held(a, m.memory)
       /\ \A n \in DOMAIN m.devices : ~Lies(a, FrameOf(m, n))

PlacedWell(m, task, reserved, root, normal, device) ==
  /\ task \in Region /\ reserved \in Region /\ root \in Region
  /\ NoneShared(m.image, task, reserved, root)
  /\ NormalExact(m, task, reserved, root, normal)
  /\ DeviceExact(m, device)

LayoutTypes ==
  machine \in Machines /\ program \in Programs /\ task_size \in TaskSizes
    /\ invocation_table_size \in Nat

LayoutInv ==
  /\ LayoutTypes
  /\ phase = "reserved" => ReservedWell(machine, reserved_region, initial_task)
  /\ phase \notin {"start", "reserved", "error"} =>
       PlacedWell(machine, initial_task, reserved_region, root_objects, normal_memory, device_memory)

LEMMA WithinClear ==
  ASSUME NEW r \in Region, NEW s \in Region, NEW old \in Region, Within(r, s), Clear(s, old)
  PROVE  Clear(r, old) /\ Clear(old, r)
  BY DEF Region, Within, Clear

\* What is covered by what remains was covered before, and is clear of what is gone.
LEMMA CoveredByRest ==
  ASSUME NEW rs \in Seq(Region), NEW next, NEW old \in Region, Without(next, rs, old),
         NEW r \in Region, Covers(next, r)
  PROVE  Covers(rs, r) /\ Clear(r, old) /\ Clear(old, r)
  <1>1. PICK k \in DOMAIN next : Within(r, next[k])
    BY DEF Covers
  <1>2. next[k] \in Region /\ Clear(next[k], old)
    BY DEF Without
  <1>3. PICK m \in DOMAIN rs : Within(next[k], rs[m])
    BY DEF Without
  <1>4. rs[m] \in Region
    OBVIOUS
  <1>5. Within(r, rs[m])
    BY <1>1, <1>2, <1>3, <1>4 DEF Within, Region
  <1>6. QED
    BY <1>1, <1>2, <1>5, WithinClear DEF Covers

LEMMA ReserveWell ==
  ASSUME LayoutTypes, CanReserve
  PROVE  ReservedWell(machine, Reserved, Task)
  <1> DEFINE rs == NormalOf(machine)
  <1>1. PartialNormal = rs /\ rs \in Seq(Region) /\ Disjoint(rs)
    BY PartialNormalExact DEF LayoutTypes, Without
  <1>2. Reserved \in Region /\ Covers(rs, Reserved)
    <2>1. ReservedSize \in Nat /\ CanAllocate(rs, ReservedSize)
      BY <1>1, ReservedSizeNatural DEF LayoutTypes, CanReserve
    <2> HIDE DEF rs
    <2>2. QED
      BY <1>1, <2>1, AllocatedWithin DEF Reserved
  <1>3. Without(Available, rs, Reserved)
    <2> HIDE DEF rs
    <2>1. QED
      BY <1>1, <1>2, RemoveRegionExact DEF Available
  <1>4. Task \in Region /\ Covers(Available, Task)
    <2> DEFINE size == RoundUp(task_size, Page)
    <2>1. task_size \in Nat /\ Page \in Nat \ {0}
      BY SizeAssumption DEF LayoutTypes
    <2>2. size \in Nat
      BY <2>1, Rounding
    <2>3. CanAllocate(Available, size)
      BY DEF CanReserve
    <2>4. Available \in Seq(Region)
      BY <1>3 DEF Without
    <2> HIDE DEF size
    <2>5. QED
      BY <2>2, <2>3, <2>4, AllocatedWithin DEF Task, size
  <1>5. Covers(rs, Task) /\ Clear(Task, Reserved)
    <2> HIDE DEF rs
    <2>1. QED
      BY <1>1, <1>2, <1>3, <1>4, CoveredByRest
  <1>6. Reserved.base < Task.base
    BY DEF CanReserve
  <1>7. Reserved.end <= Task.base
    <2>1. \A r \in Region : r.base \in Nat /\ r.end \in Nat /\ r.base <= r.end
      BY DEF Region
    <2>2. QED
      BY <1>2, <1>4, <1>5, <1>6, <2>1 DEF Clear
  <1>8. QED
    BY <1>2, <1>4, <1>5, <1>6, <1>7 DEF ReservedWell

\* What is reserved starts with a page, and the table is a part of it.
LEMMA ReservedAligned ==
  ASSUME LayoutTypes, CanReserve
  PROVE  /\ PageAligned(Reserved.base) /\ PageAligned(Task.base)
         /\ PageAligned(Reserved.base + invocation_table_size)
         /\ Reserved.base + invocation_table_size <= Reserved.end
         /\ Reserved.end = Reserved.base + ReservedSize
  <1> DEFINE rs == NormalOf(machine)
             banks == machine.memory
             table == invocation_table_size
  <1>1. /\ banks \in Seq(Region) /\ machine.image \in Region /\ Covers(banks, machine.image)
        /\ PageAligned(machine.image.end) /\ \A k \in DOMAIN banks : PageAligned(banks[k].base)
    BY MachineAssumption DEF LayoutTypes, PageAligned
  <1>2. \A k \in DOMAIN rs : PageAligned(rs[k].base)
    <2> HIDE DEF banks
    <2>1. rs = RemoveRegion(banks, machine.image)
      BY DEF NormalOf, banks
    <2> HIDE DEF rs
    <2>2. QED
      BY <1>1, <2>1, RemovedBases
  <1>3. PartialNormal = rs /\ rs \in Seq(Region) /\ Disjoint(rs)
    BY PartialNormalExact DEF LayoutTypes, Without
  <1>4. /\ table \in Nat /\ PageAligned(table) /\ ReservedSize \in Nat
        /\ table <= ReservedSize /\ PageAligned(ReservedSize)
    BY ReservedSizeNatural DEF LayoutTypes, CanReserve, PageAligned
  <1> HIDE DEF rs, table
  <1>5. /\ Reserved \in Region /\ Covers(rs, Reserved)
        /\ Reserved.end = Reserved.base + ReservedSize
        /\ PageAligned(Reserved.base)
    <2>1. CanAllocate(rs, ReservedSize) /\ Reserved = Allocated(rs, ReservedSize)
      BY <1>3 DEF CanReserve, Reserved
    <2>2. /\ Reserved \in Region /\ Covers(rs, Reserved)
          /\ Reserved.end = Reserved.base + ReservedSize
          /\ \E k \in DOMAIN rs : Reserved.base = rs[k].base
      BY <1>3, <1>4, <2>1, AllocatedWithin
    <2>3. QED
      BY <1>2, <2>2
  <1>6. Reserved.base \in Nat
    BY <1>5 DEF Region
  <1>7. PageAligned(Reserved.end)
    BY <1>4, <1>5, <1>6, AlignedSum
  <1>8. \A k \in DOMAIN Available : PageAligned(Available[k].base)
    <2>1. Available = RemoveRegion(rs, Reserved)
      BY <1>3 DEF Available
    <2>2. QED
      BY <1>2, <1>3, <1>5, <1>7, <2>1, RemovedBases
  <1>9. PageAligned(Task.base)
    <2> DEFINE size == RoundUp(task_size, Page)
    <2>1. task_size \in Nat /\ Page \in Nat \ {0}
      BY SizeAssumption DEF LayoutTypes
    <2>2. size \in Nat
      BY <2>1, Rounding
    <2>3. CanAllocate(Available, size) /\ Task = Allocated(Available, size)
      BY DEF CanReserve, Task
    <2>4. Available \in Seq(Region)
      BY <1>3, <1>5, RemoveRegionExact DEF Available, Without
    <2> HIDE DEF size
    <2>5. PICK k \in DOMAIN Available : Task.base = Available[k].base
      BY <2>2, <2>3, <2>4, AllocatedWithin
    <2>6. QED
      BY <1>8, <2>5
  <1>10. PageAligned(Reserved.base + table)
    BY <1>4, <1>5, <1>6, AlignedSum
  <1>11. Reserved.base + table <= Reserved.end
    <2>1. Reserved.base + table <= Reserved.base + ReservedSize
      BY <1>4, <1>6
    <2>2. QED
      BY <1>5, <2>1
  <1>12. QED
    BY <1>5, <1>9, <1>10, <1>11 DEF table

LEMMA RootSizeNatural ==
  ASSUME LayoutTypes
  PROVE  RootSize \in Nat
  <1>1. /\ Page \in Nat \ {0} /\ task_size \in Nat /\ TaskVaddr \in Nat
        /\ FixedRootSize \in Nat /\ TableSize \in Nat
        /\ \A level \in 1 .. 3 : Span(level) \in Nat \ {0}
    BY SizeAssumption DEF LayoutTypes
  <1>2. RoundUp(task_size, Page) \in Nat
    <2>1. Page \in Nat \ {0} /\ task_size \in Nat
      BY <1>1
    <2>2. QED
      BY <2>1, Rounding
  <1>3. /\ TaskVirtual.base \in Nat /\ TaskVirtual.end \in Nat /\ TaskVirtual.base <= TaskVirtual.end
    BY <1>1, <1>2 DEF TaskVirtual, MemoryRegion
  <1>4. ASSUME NEW level \in 1 .. 3 PROVE TablesFor(TaskVirtual, level) \in Nat
    <2> DEFINE x == Span(level)
               above == RoundUp(TaskVirtual.end, x)
               below == RoundDown(TaskVirtual.base, x)
    <2>1. x \in Nat \ {0}
      BY <1>1
    <2>2. TablesFor(TaskVirtual, level) = (above - below) \div x
      BY DEF TablesFor
    <2> HIDE DEF x
    <2>3. /\ above \in Int /\ TaskVirtual.end <= above
          /\ below \in Int /\ below <= TaskVirtual.base
      BY <1>3, <2>1, Rounding
    <2> HIDE DEF above, below
    <2>4. above - below \in Nat
      BY <1>3, <2>3
    <2>5. \A n \in Nat, d \in Nat \ {0} : n \div d \in Nat
      OBVIOUS
    <2>6. QED
      BY <2>1, <2>2, <2>4, <2>5
  <1>5. PagingCaps \in Nat
    <2>1. \A b, c, d \in Nat : b + c + d \in Nat
      OBVIOUS
    <2>2. TablesFor(TaskVirtual, 1) \in Nat /\ TablesFor(TaskVirtual, 2) \in Nat
            /\ TablesFor(TaskVirtual, 3) \in Nat
      BY <1>4
    <2>3. QED
      BY <2>1, <2>2 DEF PagingCaps
  <1>6. \A b, c, d \in Nat : b + c * d \in Nat
    OBVIOUS
  <1>7. QED
    BY <1>1, <1>5, <1>6 DEF RootSize

\* The objects of the kernel are a part of the last region they fit into.
LEMMA RootWithin ==
  ASSUME NEW rs \in Seq(Region), rs = LeftForKernel, RootRegion # 0, LayoutTypes
  PROVE  LET start == RootStart(rs[RootRegion])
             root == MemoryRegion(start, start + RootSize)
         IN root \in Region /\ Covers(rs, root)
  <1> DEFINE I == {n \in 1 .. Len(rs) : RootStart(rs[n]) >= rs[n].base}
  <1>1. I # {} /\ RootRegion = Max(I)
    BY DEF RootRegion, SelectLastInSeq
  <1>2. \E n \in I : \A k \in I : n >= k
    <2>1. PICK m \in Nat : m = Len(rs)
      OBVIOUS
    <2> DEFINE J == {m - n : n \in I}
    <2>2. J # {} /\ J \in SUBSET Nat /\ \A n \in I : n \in Nat
      BY <1>1, <2>1
    <2>3. PICK j \in J : \A k \in J : j <= k
      <3> HIDE DEF J
      <3>1. QED
        BY <2>2, Inserts!LeastNatural
    <2>4. PICK n \in I : j = m - n
      OBVIOUS
    <2>5. ASSUME NEW k \in I PROVE n >= k
      <3>1. m - n <= m - k
        BY <2>3, <2>4
      <3>2. QED
        BY <2>2, <3>1
    <2>6. QED
      BY <2>5
  <1>3. Max(I) \in I
    BY <1>2 DEF Max
  <1> DEFINE n == RootRegion
             start == RootStart(rs[n])
  <1>4. n \in DOMAIN rs /\ start >= rs[n].base
    BY <1>1, <1>3
  <1>5. rs[n].base \in Nat /\ rs[n].end \in Nat
    <2> HIDE DEF n
    <2>1. QED
      BY <1>4, RegionFields
  <1>6. RootAlign \in Nat \ {0} /\ RootSize \in Nat
    BY SizeAssumption, RootSizeNatural
  <1>7. start \in Int /\ start <= rs[n].end - RootSize
    <2>1. rs[n].end - RootSize \in Int
      BY <1>5, <1>6
    <2>2. QED
      BY <1>6, <2>1, Rounding DEF RootStart
  <1> HIDE DEF start, n, I
  <1>8. MemoryRegion(start, start + RootSize) \in Region
    BY <1>4, <1>5, <1>6, <1>7 DEF MemoryRegion, Region
  <1>9. Within(MemoryRegion(start, start + RootSize), rs[n])
    BY <1>4, <1>5, <1>6, <1>7 DEF Within, MemoryRegion
  <1>10. QED
    BY <1>4, <1>8, <1>9 DEF Covers, start, n

LEMMA EmulateWell ==
  ASSUME LayoutTypes, ReservedWell(machine, reserved_region, initial_task), RootRegion # 0
  PROVE  LET start == RootStart(LeftForKernel[RootRegion])
             root == MemoryRegion(start, start + RootSize)
         IN PlacedWell(machine, initial_task, reserved_region, root,
                       RemoveRegion(LeftForKernel, root), PartialDevice)
  <1> DEFINE rs == NormalOf(machine)
             task == initial_task
             reserved == reserved_region
             rest == RemoveRegion(rs, task)
             left == LeftForKernel
             start == RootStart(left[RootRegion])
             root == MemoryRegion(start, start + RootSize)
             normal == RemoveRegion(left, root)
             image == machine.image
  <1>1. /\ PartialNormal = rs /\ Without(rs, machine.memory, image)
        /\ rs \in Seq(Region) /\ Disjoint(rs)
    BY PartialNormalExact DEF LayoutTypes, Without
  <1>2. /\ task \in Region /\ reserved \in Region /\ Covers(rs, task) /\ Covers(rs, reserved)
        /\ reserved.base < task.base /\ reserved.end <= task.base
    BY DEF ReservedWell
  <1>3. image \in Region /\ machine.memory \in Seq(Region)
    BY MachineAssumption DEF LayoutTypes
  <1> HIDE DEF rs, task, reserved, image
  <1>4. Without(rest, rs, task) /\ Covers(rest, reserved)
    BY <1>1, <1>2, RemoveRegionExact
  <1>5. left = RemoveRegion(rest, reserved)
    BY <1>1 DEF LeftForKernel, task, reserved
  <1> HIDE DEF rest
  <1>6. Without(left, rest, reserved)
    <2> HIDE DEF left
    <2>1. QED
      BY <1>2, <1>4, <1>5, RemoveRegionExact DEF Without
  <1>7. root \in Region /\ Covers(left, root)
    <2>1. left \in Seq(Region)
      BY <1>6 DEF Without
    <2>2. QED
      BY <2>1, RootWithin
  <1> HIDE DEF left, root
  <1>8. Without(normal, left, root)
    BY <1>6, <1>7, RemoveRegionExact DEF Without
  <1> HIDE DEF normal
  <1>9. rest \in Seq(Region) /\ left \in Seq(Region) /\ normal \in Seq(Region) /\ Disjoint(normal)
    BY <1>4, <1>6, <1>8 DEF Without
  <1>10. Covers(rest, root) /\ Clear(reserved, root)
    BY <1>2, <1>6, <1>7, <1>9, CoveredByRest
  <1>11. Covers(rs, root) /\ Clear(task, root)
    BY <1>1, <1>2, <1>4, <1>7, <1>10, CoveredByRest
  <1>12. Clear(image, root) /\ Clear(image, task) /\ Clear(image, reserved)
    BY <1>1, <1>2, <1>3, <1>7, <1>11, CoveredByRest
  <1>13. Clear(task, reserved)
    BY <1>2 DEF Clear
  <1>14. NormalExact(machine, task, reserved, root, normal)
    <2> SUFFICES ASSUME NEW a \in Int
                 PROVE  Held(a, normal) <=>
                          /\ Held(a, machine.memory) /\ ~Lies(a, image)
                          /\ ~Lies(a, task) /\ ~Lies(a, reserved) /\ ~Lies(a, root)
      BY <1>9 DEF NormalExact, image
    <2>1. Held(a, rs) <=> Held(a, machine.memory) /\ ~Lies(a, image)
      BY <1>1 DEF Without
    <2>2. Held(a, rest) <=> Held(a, rs) /\ ~Lies(a, task)
      BY <1>4 DEF Without
    <2>3. Held(a, left) <=> Held(a, rest) /\ ~Lies(a, reserved)
      BY <1>6 DEF Without
    <2>4. Held(a, normal) <=> Held(a, left) /\ ~Lies(a, root)
      BY <1>8 DEF Without
    <2>5. QED
      BY <2>1, <2>2, <2>3, <2>4
  <1>15. DeviceExact(machine, PartialDevice)
    BY PartialDeviceExact DEF DeviceExact, LayoutTypes
  <1>16. PlacedWell(machine, task, reserved, root, normal, PartialDevice)
    BY <1>2, <1>7, <1>10, <1>11, <1>12, <1>13, <1>14, <1>15 DEF PlacedWell, NoneShared, image
  <1>17. QED
    BY <1>16 DEF task, reserved, root, normal, left

-----------------------------------------------------------------------------
(* Every step keeps the invariant.                                          *)

layout == <<machine, program, task_size, invocation_table_size, reserved_region, initial_task,
            root_objects, normal_memory, device_memory, untyped_objects>>

\* A step of the rest of the tool, the loader or the monitor.
LaterStep ==
  /\ UNCHANGED layout
  /\ \/ phase \notin {"start", "reserved", "error"}
     \/ phase' = "error"
  /\ phase' \notin {"start", "reserved"}

LEMMA StepKinds ==
  ASSUME [BootNext]_systemVars
  PROVE  \/ Reserve \/ EmulateKernelBoot \/ BuildAgain
         \/ LaterStep \/ UNCHANGED <<layout, phase>>
  <1>1. CASE UNCHANGED systemVars
    BY <1>1 DEF systemVars, allVars, vars, inputs, layout
  <1>2. CASE ImageNext
    <2>1. CASE CannotReserve \/ NoRoomForKernel \/ CannotBootstrap \/ CannotPlacePages
                 \/ MonitorTooSmall
      BY <2>1 DEF CannotReserve, NoRoomForKernel, CannotBootstrap, CannotPlacePages,
                  MonitorTooSmall, LaterStep, layout, inputs
    <2>2. CASE BuildFits
      BY <2>2 DEF BuildFits, LaterStep, layout, inputs
    <2>3. CASE MakeImage \/ PowerOn \/ StartKernel \/ LoaderLost
      BY <2>3 DEF MakeImage, PowerOn, StartKernel, LoaderLost, LaterStep, layout, inputs
    <2>4. CASE CopyRegion
      BY <2>4 DEF CopyRegion, vars, inputs, layout
    <2>5. QED
      BY <1>2, <2>1, <2>2, <2>3, <2>4 DEF ImageNext, Next
  <1>3. CASE StartMonitor
    BY <1>3 DEF StartMonitor, LaterStep, layout, inputs
  <1>4. CASE PerformInvocation
    BY <1>4 DEF PerformInvocation, LaterStep, layout, inputs
  <1>5. CASE BootstrapDone
    BY <1>5 DEF BootstrapDone, LaterStep, layout, inputs
  <1>6. QED
    BY <1>1, <1>2, <1>3, <1>4, <1>5 DEF BootNext

LEMMA LayoutStep ==
  ASSUME LayoutInv, [BootNext]_systemVars
  PROVE  LayoutInv'
  <1>1. CASE Reserve
    <2>1. ReservedWell(machine, Reserved, Task)
      BY <1>1, ReserveWell DEF LayoutInv, Reserve
    <2>2. LayoutTypes'
      BY <1>1 DEF LayoutInv, LayoutTypes, Reserve, inputs
    <2>3. ReservedWell(machine, reserved_region, initial_task)'
      <3>1. machine' = machine /\ reserved_region' = Reserved /\ initial_task' = Task
        BY <1>1 DEF Reserve, inputs
      <3>2. QED
        BY <2>1, <3>1 DEF ReservedWell, NormalOf
    <2>4. phase' = "reserved"
      BY <1>1 DEF Reserve
    <2>5. QED
      BY <2>2, <2>3, <2>4 DEF LayoutInv
  <1>2. CASE EmulateKernelBoot
    <2> DEFINE start == RootStart(LeftForKernel[RootRegion])
               root == MemoryRegion(start, start + RootSize)
               normal == RemoveRegion(LeftForKernel, root)
    <2>1. PlacedWell(machine, initial_task, reserved_region, root, normal, PartialDevice)
      BY <1>2, EmulateWell DEF LayoutInv, EmulateKernelBoot
    <2>2. /\ root_objects' = root /\ normal_memory' = normal /\ device_memory' = PartialDevice
          /\ phase' = "booted" /\ UNCHANGED <<inputs, reserved_region, initial_task>>
      BY <1>2 DEF EmulateKernelBoot
    <2> HIDE DEF root, normal
    <2>3. LayoutTypes'
      BY <2>2 DEF LayoutInv, LayoutTypes, inputs
    <2>4. PlacedWell(machine, initial_task, reserved_region, root_objects, normal_memory, device_memory)'
      BY <2>1, <2>2 DEF PlacedWell, NoneShared, NormalExact, DeviceExact, FrameOf, inputs
    <2>5. QED
      BY <2>2, <2>3, <2>4 DEF LayoutInv
  <1>3. CASE BuildAgain
    <2>1. PICK size \in DataSizes :
            invocation_table_size' = Max({invocation_table_size, RoundUp(size, Page)})
      BY <1>3 DEF BuildAgain
    <2>2. RoundUp(size, Page) \in Nat
      <3>1. Page \in Nat \ {0} /\ size \in Nat
        BY SizeAssumption, DataAssumption
      <3>2. QED
        BY <3>1, Rounding
    <2>3. \A b, c \in Nat : Max({b, c}) \in Nat
      <3> SUFFICES ASSUME NEW b \in Nat, NEW c \in Nat PROVE Max({b, c}) \in Nat
        OBVIOUS
      <3>1. \E x \in {b, c} : \A y \in {b, c} : x >= y
        OBVIOUS
      <3>2. QED
        BY <3>1 DEF Max
    <2>4. LayoutTypes'
      BY <1>3, <2>1, <2>2, <2>3 DEF LayoutInv, LayoutTypes, BuildAgain
    <2>5. phase' = "start"
      BY <1>3 DEF BuildAgain
    <2>6. QED
      BY <2>4, <2>5 DEF LayoutInv
  <1>4. CASE LaterStep
    <2>1. UNCHANGED layout
      BY <1>4 DEF LaterStep
    <2>2. LayoutTypes'
      BY <2>1 DEF LayoutInv, LayoutTypes, layout
    <2>3. CASE phase \notin {"start", "reserved", "error"}
      <3>1. PlacedWell(machine, initial_task, reserved_region, root_objects, normal_memory, device_memory)'
        BY <2>1, <2>3 DEF LayoutInv, PlacedWell, NoneShared, NormalExact, DeviceExact, FrameOf, layout
      <3>2. QED
        BY <1>4, <2>2, <3>1 DEF LayoutInv, LaterStep
    <2>4. CASE phase' = "error"
      BY <2>2, <2>4 DEF LayoutInv
    <2>5. QED
      BY <1>4, <2>3, <2>4 DEF LaterStep
  <1>5. CASE UNCHANGED <<layout, phase>>
    <2>1. (LayoutTypes <=> LayoutTypes') /\ phase' = phase
      BY <1>5 DEF LayoutTypes, layout
    <2>2. ReservedWell(machine, reserved_region, initial_task)
            => ReservedWell(machine, reserved_region, initial_task)'
      BY <1>5 DEF ReservedWell, NormalOf, layout
    <2>3. PlacedWell(machine, initial_task, reserved_region, root_objects, normal_memory, device_memory)
            => PlacedWell(machine, initial_task, reserved_region, root_objects, normal_memory, device_memory)'
      BY <1>5 DEF PlacedWell, NoneShared, NormalExact, DeviceExact, FrameOf, layout
    <2>4. QED
      BY <2>1, <2>2, <2>3 DEF LayoutInv
  <1>6. QED
    BY <1>1, <1>2, <1>3, <1>4, <1>5, StepKinds

(***************************************************************************)
(* What build_system reserves is clear of the image of the kernel, and     *)
(* once the boot of the kernel is emulated all that is in use is apart and *)
(* the remaining regions are exact; nothing changes it until it is built   *)
(* again.                                                                  *)
(***************************************************************************)
THEOREM LayoutInvariant == BootSpec => []LayoutInv
  <1>1. BootInit => LayoutInv
    <2>1. Page \in Nat
      BY SizeAssumption
    <2>2. QED
      BY <2>1 DEF BootInit, ImageInit, Init, LayoutInv, LayoutTypes
  <1>2. LayoutInv /\ [BootNext]_systemVars => LayoutInv'
    BY LayoutStep
  <1>3. QED
    BY <1>1, <1>2, PTL DEF BootSpec

(***************************************************************************)
(* No two of the image of the kernel, the monitor, the reserved region and *)
(* the objects of the kernel have an address in common, for every machine, *)
(* every list of programs, and however often the system is built again.    *)
(***************************************************************************)
THEOREM NoAddressTwice == BootSpec => []NothingShared
  <1>1. LayoutInv => NothingShared
    <2> SUFFICES ASSUME LayoutInv, phase \in Placed,
                        NEW k \in DOMAIN InUse, NEW n \in DOMAIN InUse, k # n
                 PROVE  Clear(InUse[k], InUse[n])
      BY DEF NothingShared, Clear
    <2>1. PlacedWell(machine, initial_task, reserved_region, root_objects, normal_memory, device_memory)
      BY DEF LayoutInv, Placed
    <2>2. NoneShared(machine.image, initial_task, reserved_region, root_objects)
      BY <2>1 DEF PlacedWell
    <2>3. DOMAIN InUse = 1 .. 4
      BY DEF InUse
    <2>4. k \in {1, 2, 3, 4} /\ n \in {1, 2, 3, 4}
      BY <2>3
    <2>5. /\ InUse[1] = machine.image /\ InUse[2] = initial_task
          /\ InUse[3] = reserved_region /\ InUse[4] = root_objects
      BY DEF InUse
    <2>6. QED
      BY <2>2, <2>4, <2>5 DEF NoneShared, Clear
  <1>2. QED
    BY <1>1, LayoutInvariant, PTL

(***************************************************************************)
(* The sorted regions hold what they should: the normal memory is exactly  *)
(* what is not in use, the device memory exactly what is neither memory    *)
(* nor a device of the kernel.                                             *)
(***************************************************************************)
THEOREM FreeMemoryExact == BootSpec => []RegionsExact
  <1>1. LayoutInv => RegionsExact
    <2> SUFFICES ASSUME LayoutInv, phase \in Placed
                 PROVE  LET banks == Addresses(machine.memory)
                            frames == UNION {p .. p + Page - 1 : p \in Range(machine.devices)}
                        IN /\ Disjoint(normal_memory) /\ Disjoint(device_memory)
                           /\ Addresses(normal_memory) = banks \ Addresses(InUse)
                           /\ Addresses(device_memory) = (0 .. machine.top - 1) \ (banks \cup frames)
      BY DEF RegionsExact
    <2> DEFINE banks == Addresses(machine.memory)
               frames == UNION {p .. p + Page - 1 : p \in Range(machine.devices)}
    <2>1. /\ initial_task \in Region /\ reserved_region \in Region /\ root_objects \in Region
          /\ NormalExact(machine, initial_task, reserved_region, root_objects, normal_memory)
          /\ DeviceExact(machine, device_memory)
      BY DEF LayoutInv, Placed, PlacedWell
    <2>2. /\ machine.memory \in Seq(Region) /\ machine.image \in Region
          /\ machine.top \in Nat /\ machine.devices \in Seq(Nat)
      BY MachineAssumption DEF LayoutInv, LayoutTypes
    <2>3. InUse \in Seq(Region)
      BY <2>1, <2>2 DEF InUse
    <2>4. \A a \in Int : Held(a, InUse) <=>
            \/ Lies(a, machine.image) \/ Lies(a, initial_task)
            \/ Lies(a, reserved_region) \/ Lies(a, root_objects)
      <3>1. DOMAIN InUse = {1, 2, 3, 4}
        BY DEF InUse
      <3>2. /\ InUse[1] = machine.image /\ InUse[2] = initial_task
            /\ InUse[3] = reserved_region /\ InUse[4] = root_objects
        BY DEF InUse
      <3>3. QED
        BY <3>1, <3>2 DEF Held
    <2>5. /\ banks = {a \in Int : Held(a, machine.memory)}
          /\ Addresses(InUse) = {a \in Int : Held(a, InUse)}
      BY <2>2, <2>3, HeldAddresses
    <2>6. /\ Addresses(normal_memory) = {a \in Int : Held(a, normal_memory)}
          /\ Addresses(device_memory) = {a \in Int : Held(a, device_memory)}
      BY <2>1, HeldAddresses DEF NormalExact, DeviceExact
    <2>7. \A a \in Int : a \in frames <=> \E n \in DOMAIN machine.devices : Lies(a, FrameOf(machine, n))
      <3>1. Page \in Nat /\ \A n \in DOMAIN machine.devices : machine.devices[n] \in Nat
        <4>1. machine.devices \in Seq(Nat)
          BY <2>2
        <4>2. \A n \in DOMAIN machine.devices : machine.devices[n] \in Nat
          BY <4>1
        <4>3. QED
          BY <4>2, SizeAssumption
      <3>2. Range(machine.devices) = {machine.devices[n] : n \in DOMAIN machine.devices}
        BY DEF Range
      <3>3. QED
        BY <3>1, <3>2 DEF Lies, FrameOf, MemoryRegion
    <2>8. Addresses(normal_memory) = banks \ Addresses(InUse)
      BY <2>1, <2>4, <2>5, <2>6 DEF NormalExact
    <2>9. Addresses(device_memory) = (0 .. machine.top - 1) \ (banks \cup frames)
      <3> HIDE DEF banks, frames
      <3>1. \A a \in Int : a \in 0 .. machine.top - 1 <=> 0 <= a /\ a < machine.top
        BY <2>2
      <3>2. \A a \in Int : Held(a, device_memory)
              <=> a \in (0 .. machine.top - 1) \ (banks \cup frames)
        BY <2>1, <2>5, <2>7, <3>1 DEF DeviceExact
      <3>3. QED
        BY <2>6, <3>2
    <2>10. QED
      BY <2>1, <2>8, <2>9 DEF NormalExact, DeviceExact
  <1>2. QED
    BY <1>1, LayoutInvariant, PTL

-----------------------------------------------------------------------------
(* The untyped objects.                                                     *)

UntypedsOf(reserved, device, boot, normal) ==
  LET devices == AlignedPowerOfTwoRegions(reserved) \o AllAlignedRegions(device)
      normals == AlignedPowerOfTwoRegions(boot) \o AllAlignedRegions(normal)
  IN [k \in 1 .. Len(devices) + Len(normals) |->
        [region |-> (devices \o normals)[k], device |-> k <= Len(devices)]]

UntypedInv ==
  /\ LayoutInv
  /\ phase \notin {"start", "reserved", "error"} =>
       /\ untyped_objects = UntypedsOf(reserved_region, device_memory, machine.boot, normal_memory)
       /\ \A a \in Int : Lies(a, reserved_region) => Held(a, machine.memory)
       /\ \A a \in Int : Lies(a, initial_task) => Held(a, machine.memory)

LEMMA CoveredIsHeld ==
  ASSUME NEW rs \in Seq(Region), NEW r \in Region, Covers(rs, r)
  PROVE  \A a \in Int : Lies(a, r) => Held(a, rs)
  <1>1. PICK k \in DOMAIN rs : Within(r, rs[k])
    BY DEF Covers
  <1>2. rs[k] \in Region
    OBVIOUS
  <1>3. \A a \in Int : Lies(a, r) => Lies(a, rs[k])
    BY <1>1, <1>2 DEF Within, Lies, Region
  <1>4. QED
    BY <1>3 DEF Held

LEMMA UntypedStep ==
  ASSUME UntypedInv, [BootNext]_systemVars
  PROVE  UntypedInv'
  <1>1. LayoutInv'
    BY LayoutStep DEF UntypedInv
  <1>2. CASE Reserve
    <2>1. phase' = "reserved"
      BY <1>2 DEF Reserve
    <2>2. QED
      BY <1>1, <2>1 DEF UntypedInv
  <1>3. CASE EmulateKernelBoot
    <2>1. /\ untyped_objects' = UntypedsOf(reserved_region, device_memory', machine.boot, normal_memory')
          /\ machine' = machine /\ reserved_region' = reserved_region /\ initial_task' = initial_task
      BY <1>3 DEF EmulateKernelBoot, UntypedsOf, inputs
    <2>2. ReservedWell(machine, reserved_region, initial_task) /\ machine \in Machines
      BY <1>3 DEF EmulateKernelBoot, UntypedInv, LayoutInv, LayoutTypes
    <2>3. machine.memory \in Seq(Region) /\ Without(NormalOf(machine), machine.memory, machine.image)
      BY <2>2, MachineAssumption, PartialNormalExact
    <2>4. \A a \in Int : Lies(a, reserved_region) \/ Lies(a, initial_task)
                            => Held(a, NormalOf(machine))
      BY <2>2, <2>3, CoveredIsHeld DEF ReservedWell, Without
    <2>5. \A a \in Int : Lies(a, reserved_region) \/ Lies(a, initial_task) => Held(a, machine.memory)
      BY <2>3, <2>4 DEF Without
    <2>6. QED
      BY <1>1, <2>1, <2>5 DEF UntypedInv
  <1>4. CASE BuildAgain
    <2>1. phase' = "start"
      BY <1>4 DEF BuildAgain
    <2>2. QED
      BY <1>1, <2>1 DEF UntypedInv
  <1>5. CASE LaterStep
    BY <1>1, <1>5 DEF UntypedInv, LaterStep, layout
  <1>6. CASE UNCHANGED <<layout, phase>>
    BY <1>1, <1>6 DEF UntypedInv, layout
  <1>7. QED
    BY <1>2, <1>3, <1>4, <1>5, <1>6, StepKinds

Cells(r) == r.base .. r.end - 1

LEMMA CellsOfOne ==
  ASSUME NEW r
  PROVE  Addresses(<<r>>) = Cells(r)
  <1>1. PICK s : s = <<r>>
    OBVIOUS
  <1>2. DOMAIN s = {1} /\ s[1] = r
    BY <1>1
  <1>3. Addresses(s) = UNION {s[n].base .. s[n].end - 1 : n \in {1}}
    BY <1>2 DEF Addresses
  <1>4. UNION {s[n].base .. s[n].end - 1 : n \in {1}} = s[1].base .. s[1].end - 1
    OBVIOUS
  <1>5. QED
    BY <1>1, <1>2, <1>3, <1>4 DEF Cells

CellsOf(us) == UNION {u.region.base .. u.region.end - 1 : u \in us}

\* The objects of one kind, where kind[k] is the kind of object k.
OfKind(all, S, kind, device) ==
  {u \in {[region |-> all[k], device |-> kind[k]] : k \in S} : u.device = device}

\* The cells of the objects of one kind.
LEMMA CellsOfKind ==
  ASSUME NEW all, NEW S, NEW kind \in [S -> BOOLEAN], NEW device \in BOOLEAN
  PROVE  \A a : a \in CellsOf(OfKind(all, S, kind, device))
                  <=> \E k \in S : kind[k] = device /\ a \in all[k].base .. all[k].end - 1
  <1> DEFINE us == {[region |-> all[k], device |-> kind[k]] : k \in S}
             of == {u \in us : u.device = device}
  <1>1. ASSUME NEW k \in S, kind[k] = device
        PROVE  \E u \in of : u.region = all[k]
    <2>1. PICK u : u = [region |-> all[k], device |-> kind[k]]
      OBVIOUS
    <2>2. u \in us /\ u.device = device /\ u.region = all[k]
      BY <1>1, <2>1
    <2>3. QED
      BY <2>2
  <1>2. ASSUME NEW u \in of
        PROVE  \E k \in S : kind[k] = device /\ u.region = all[k]
    OBVIOUS
  <1> HIDE DEF of
  <1>3. \A a : a \in CellsOf(of)
                 <=> \E k \in S : kind[k] = device /\ a \in all[k].base .. all[k].end - 1
    <2>1. ASSUME NEW a, a \in CellsOf(of)
          PROVE  \E k \in S : kind[k] = device /\ a \in all[k].base .. all[k].end - 1
      <3>1. PICK u \in of : a \in u.region.base .. u.region.end - 1
        BY <2>1 DEF CellsOf
      <3>2. QED
        BY <1>2, <3>1
    <2>2. ASSUME NEW a, NEW k \in S, kind[k] = device, a \in all[k].base .. all[k].end - 1
          PROVE  a \in CellsOf(of)
      <3>1. PICK u \in of : u.region = all[k]
        BY <1>1, <2>2
      <3>2. QED
        BY <2>2, <3>1 DEF CellsOf
    <2>3. QED
      BY <2>1, <2>2
  <1>4. QED
    BY <1>3 DEF of, OfKind

LEMMA UntypedsCutMemory ==
  ASSUME machine \in Machines,
         PlacedWell(machine, initial_task, reserved_region, root_objects, normal_memory, device_memory),
         \A a \in Int : Lies(a, reserved_region) => Held(a, machine.memory)
  PROVE  LET devices == AlignedPowerOfTwoRegions(reserved_region) \o AllAlignedRegions(device_memory)
             normals == AlignedPowerOfTwoRegions(machine.boot) \o AllAlignedRegions(normal_memory)
             of_devices == Cells(reserved_region) \cup Addresses(device_memory)
             of_normals == Cells(machine.boot) \cup Addresses(normal_memory)
         IN /\ CutInto(devices, of_devices) /\ CutInto(normals, of_normals)
            /\ CutInto(devices \o normals, of_devices \cup of_normals)
  <1>1. /\ machine.memory \in Seq(Region) /\ machine.image \in Region /\ machine.boot \in Region
        /\ Covers(machine.memory, machine.image)
        /\ machine.boot.base = machine.image.base /\ machine.boot.end <= machine.image.end
    BY MachineAssumption
  <1>2. /\ reserved_region \in Region /\ Clear(machine.image, reserved_region)
        /\ device_memory \in Seq(Region) /\ Disjoint(device_memory)
        /\ normal_memory \in Seq(Region) /\ Disjoint(normal_memory)
    BY DEF PlacedWell, NoneShared, DeviceExact, NormalExact
  <1>3. /\ CutInto(AlignedPowerOfTwoRegions(reserved_region), Cells(reserved_region))
        /\ CutInto(AlignedPowerOfTwoRegions(machine.boot), Cells(machine.boot))
        /\ CutInto(AllAlignedRegions(device_memory), Addresses(device_memory))
        /\ CutInto(AllAlignedRegions(normal_memory), Addresses(normal_memory))
    BY <1>1, <1>2, AlignedPowers, AllAlignedPowers DEF Cells
  <1>4. \A a \in Cells(reserved_region) : a \in Int /\ Lies(a, reserved_region)
    BY <1>2 DEF Cells, Lies, Region
  <1>5. \A a \in Cells(machine.boot) : a \in Int /\ Lies(a, machine.image)
    BY <1>1 DEF Cells, Lies, Region
  <1>6. \A a \in Addresses(device_memory) : a \in Int /\ ~Held(a, machine.memory)
    BY <1>2, HeldAddresses DEF PlacedWell, DeviceExact
  <1>7. \A a \in Addresses(normal_memory) :
           a \in Int /\ Held(a, machine.memory) /\ ~Lies(a, machine.image) /\ ~Lies(a, reserved_region)
    BY <1>2, HeldAddresses DEF PlacedWell, NormalExact
  <1>8. \A a \in Int : Lies(a, machine.image) => Held(a, machine.memory) /\ ~Lies(a, reserved_region)
    <2>1. \A a \in Int : Lies(a, machine.image) => ~Lies(a, reserved_region)
      BY <1>1, <1>2 DEF Lies, Clear, Region
    <2>2. QED
      BY <1>1, <2>1, CoveredIsHeld
  <1> DEFINE devices == AlignedPowerOfTwoRegions(reserved_region) \o AllAlignedRegions(device_memory)
             normals == AlignedPowerOfTwoRegions(machine.boot) \o AllAlignedRegions(normal_memory)
             of_devices == Cells(reserved_region) \cup Addresses(device_memory)
             of_normals == Cells(machine.boot) \cup Addresses(normal_memory)
  <1>9. CutInto(devices, of_devices)
    <2>1. \A a \in Cells(reserved_region) : a \notin Addresses(device_memory)
      BY <1>4, <1>6
    <2>2. QED
      BY <1>3, <2>1, CutConcat
  <1>10. CutInto(normals, of_normals)
    <2>1. \A a \in Cells(machine.boot) : a \notin Addresses(normal_memory)
      BY <1>5, <1>7
    <2>2. QED
      BY <1>3, <2>1, CutConcat
  <1>11. \A a \in of_devices : a \notin of_normals
    BY <1>4, <1>5, <1>6, <1>7, <1>8
  <1>12. CutInto(devices \o normals, of_devices \cup of_normals)
    <2> HIDE DEF devices, normals, of_devices, of_normals
    <2>1. QED
      BY <1>9, <1>10, <1>11, CutConcat
  <1>13. QED
    BY <1>9, <1>10, <1>12

LEMMA UntypedsWell == UntypedInv => UntypedsPartition
  <1> SUFFICES ASSUME UntypedInv, phase \in Placed
               PROVE  LET of(device) == {u \in Range(untyped_objects) : u.device = device}
                          cells(us) == UNION {u.region.base .. u.region.end - 1 : u \in us}
                      IN /\ \A u, v \in Range(untyped_objects) : u # v =>
                              u.region.end <= v.region.base \/ v.region.end <= u.region.base
                         /\ \A u \in Range(untyped_objects) :
                              /\ \E b \in 0 .. Size(u.region) : Size(u.region) = TwoTo[b]
                              /\ u.region.base % Size(u.region) = 0
                         /\ cells(of(TRUE)) = Addresses(device_memory) \cup Addresses(<<reserved_region>>)
                         /\ cells(of(FALSE)) = Addresses(normal_memory) \cup Addresses(<<machine.boot>>)
    BY DEF UntypedsPartition
  <1> DEFINE devices == AlignedPowerOfTwoRegions(reserved_region) \o AllAlignedRegions(device_memory)
             normals == AlignedPowerOfTwoRegions(machine.boot) \o AllAlignedRegions(normal_memory)
             of_devices == Cells(reserved_region) \cup Addresses(device_memory)
             of_normals == Cells(machine.boot) \cup Addresses(normal_memory)
  <1>1. /\ machine \in Machines
        /\ PlacedWell(machine, initial_task, reserved_region, root_objects, normal_memory, device_memory)
        /\ untyped_objects = UntypedsOf(reserved_region, device_memory, machine.boot, normal_memory)
        /\ \A a \in Int : Lies(a, reserved_region) => Held(a, machine.memory)
    BY DEF UntypedInv, LayoutInv, LayoutTypes, Placed
  <1>2. /\ CutInto(devices, of_devices) /\ CutInto(normals, of_normals)
        /\ CutInto(devices \o normals, of_devices \cup of_normals)
    BY <1>1, UntypedsCutMemory
  <1>3. PICK all : all = devices \o normals
    OBVIOUS
  <1>4. PICK d \in Nat : d = Len(devices) /\ DOMAIN devices = 1 .. d
    BY <1>2 DEF CutInto
  <1>5. PICK n \in Nat : n = Len(normals) /\ DOMAIN normals = 1 .. n
    BY <1>2 DEF CutInto
  <1>6. untyped_objects = [k \in 1 .. d + n |-> [region |-> all[k], device |-> k <= d]]
    BY <1>1, <1>3, <1>4, <1>5 DEF UntypedsOf
  <1>7. /\ DOMAIN all = 1 .. d + n
        /\ \A k \in 1 .. d : all[k] = devices[k]
        /\ \A k \in 1 .. n : all[d + k] = normals[k]
    <2>1. devices \in Seq(Region) /\ normals \in Seq(Region)
      BY <1>2 DEF CutInto
    <2> HIDE DEF devices, normals
    <2>2. all \in Seq(Region) /\ Len(all) = d + n
      BY <1>3, <1>4, <1>5, <2>1, ConcatIndex
    <2>3. QED
      BY <1>3, <1>4, <1>5, <2>1, <2>2, ConcatIndex
  <1> HIDE DEF devices, normals
  <1>8. /\ \A j, k \in 1 .. d + n : j # k => Clear(all[j], all[k])
        /\ \A k \in 1 .. d + n : AlignedPower(all[k])
    BY <1>2, <1>3, <1>7 DEF CutInto
  <1>9. Range(untyped_objects) = {[region |-> all[k], device |-> k <= d] : k \in 1 .. d + n}
    BY <1>6 DEF Range
  <1>10. ASSUME NEW u \in Range(untyped_objects), NEW v \in Range(untyped_objects), u # v
         PROVE  u.region.end <= v.region.base \/ v.region.end <= u.region.base
    <2>1. PICK j \in 1 .. d + n : u = [region |-> all[j], device |-> j <= d]
      BY <1>9
    <2>2. PICK k \in 1 .. d + n : v = [region |-> all[k], device |-> k <= d]
      BY <1>9
    <2>3. j # k
      BY <1>10, <2>1, <2>2
    <2>4. QED
      BY <1>8, <2>1, <2>2, <2>3 DEF Clear
  <1>11. ASSUME NEW u \in Range(untyped_objects)
         PROVE  /\ \E b \in 0 .. Size(u.region) : Size(u.region) = TwoTo[b]
                /\ u.region.base % Size(u.region) = 0
    <2>1. PICK k \in 1 .. d + n : u.region = all[k]
      BY <1>9
    <2>2. AlignedPower(u.region)
      BY <1>8, <2>1
    <2>3. PICK b \in Nat : Size(u.region) = TwoTo[b]
      BY <2>2 DEF AlignedPower
    <2>4. b \in 0 .. Size(u.region)
      BY <2>3, TwoToAbove
    <2>5. QED
      BY <2>2, <2>3, <2>4 DEF AlignedPower
  <1> DEFINE of(device) == {u \in Range(untyped_objects) : u.device = device}
             kind == [k \in 1 .. d + n |-> k <= d]
  <1>12. /\ Addresses(<<reserved_region>>) = Cells(reserved_region)
         /\ Addresses(<<machine.boot>>) = Cells(machine.boot)
    BY CellsOfOne
  <1>13. ASSUME NEW k \in 1 .. d + n, NEW a
         PROVE  a \in all[k].base .. all[k].end - 1 <=> a \in Int /\ Lies(a, all[k])
    BY <1>8 DEF AlignedPower, Region, Lies
  <1>14. /\ kind \in [1 .. d + n -> BOOLEAN]
         /\ Range(untyped_objects) = {[region |-> all[k], device |-> kind[k]] : k \in 1 .. d + n}
         /\ \A k \in 1 .. d : k \in 1 .. d + n /\ kind[k] = TRUE
         /\ \A k \in 1 .. d + n : kind[k] = TRUE => k \in 1 .. d
         /\ \A k \in 1 .. d + n : kind[k] = FALSE => k \in d + 1 .. d + n
         /\ \A k \in d + 1 .. d + n : k \in 1 .. d + n /\ kind[k] = FALSE
    <2>1. kind \in [1 .. d + n -> BOOLEAN]
      OBVIOUS
    <2>2. Range(untyped_objects) = {[region |-> all[k], device |-> kind[k]] : k \in 1 .. d + n}
      <3>1. \A k \in 1 .. d + n : kind[k] = (k <= d)
        OBVIOUS
      <3> HIDE DEF kind
      <3>2. QED
        BY <1>9, <3>1, Zenon
    <2>3. \A k \in 1 .. d + n : kind[k] = TRUE <=> k <= d
      OBVIOUS
    <2> HIDE DEF kind
    <2>4. \A k \in 1 .. d + n : kind[k] = FALSE <=> ~(k <= d)
      <3>1. \A k \in 1 .. d + n : kind[k] \in BOOLEAN
        BY <2>1, Zenon
      <3>2. QED
        BY <2>3, <3>1, Zenon
    <2>5. QED
      BY <2>1, <2>2, <2>3, <2>4
  <1> HIDE DEF kind
  <1>15. ASSUME NEW device \in BOOLEAN
         PROVE  \A a : a \in CellsOf(of(device))
                  <=> \E k \in 1 .. d + n : kind[k] = device /\ a \in all[k].base .. all[k].end - 1
    <2>1. of(device) = OfKind(all, 1 .. d + n, kind, device)
      BY <1>14 DEF OfKind
    <2>2. kind \in [1 .. d + n -> BOOLEAN]
      BY <1>14
    <2> HIDE DEF of
    <2>3. QED
      BY <2>1, <2>2, CellsOfKind
  <1> HIDE DEF of
  <1>16. CellsOf(of(TRUE)) = of_devices
    <2>1. \A a : a \in CellsOf(of(TRUE)) <=> a \in Int /\ Held(a, devices)
      <3>1. \A a : a \in CellsOf(of(TRUE)) <=> \E k \in 1 .. d : a \in all[k].base .. all[k].end - 1
        BY <1>14, <1>15
      <3>2. QED
        BY <1>4, <1>7, <1>13, <1>14, <3>1 DEF Held
    <2>2. of_devices \in SUBSET Int
      BY <1>1, HeldAddresses DEF PlacedWell, DeviceExact, Cells, Region
    <2>3. QED
      BY <1>2, <2>1, <2>2 DEF CutInto
  <1>17. CellsOf(of(FALSE)) = of_normals
    <2>1. \A a : a \in CellsOf(of(FALSE)) <=> a \in Int /\ Held(a, normals)
      <3>1. \A a : a \in CellsOf(of(FALSE))
                     <=> \E k \in d + 1 .. d + n : a \in all[k].base .. all[k].end - 1
        BY <1>14, <1>15
      <3>2. \A k \in d + 1 .. d + n : k - d \in 1 .. n /\ all[k] = normals[k - d]
        <4>1. ASSUME NEW k \in d + 1 .. d + n PROVE k - d \in 1 .. n /\ all[k] = normals[k - d]
          <5>1. PICK j \in 1 .. n : j = k - d /\ k = d + j
            OBVIOUS
          <5>2. QED
            BY <1>7, <5>1
        <4>2. QED
          BY <4>1
      <3>3. \A j \in 1 .. n : d + j \in d + 1 .. d + n /\ all[d + j] = normals[j]
        BY <1>7
      <3>4. ASSUME NEW a
            PROVE  a \in CellsOf(of(FALSE)) <=> a \in Int /\ \E j \in 1 .. n : Lies(a, normals[j])
        <4>1. ASSUME NEW k \in d + 1 .. d + n, a \in all[k].base .. all[k].end - 1
              PROVE  a \in Int /\ \E j \in 1 .. n : Lies(a, normals[j])
          BY <1>13, <1>14, <3>2, <4>1
        <4>2. ASSUME NEW j \in 1 .. n, a \in Int, Lies(a, normals[j])
              PROVE  \E k \in d + 1 .. d + n : a \in all[k].base .. all[k].end - 1
          BY <1>13, <1>14, <3>3, <4>2
        <4>3. QED
          BY <3>1, <4>1, <4>2
      <3>5. QED
        BY <1>5, <3>4 DEF Held
    <2>2. of_normals \in SUBSET Int
      BY <1>1, HeldAddresses, MachineAssumption DEF PlacedWell, NormalExact, Cells, Region
    <2>3. QED
      BY <1>2, <2>1, <2>2 DEF CutInto
  <1>18. /\ CellsOf(of(TRUE)) = Addresses(device_memory) \cup Addresses(<<reserved_region>>)
         /\ CellsOf(of(FALSE)) = Addresses(normal_memory) \cup Addresses(<<machine.boot>>)
    BY <1>12, <1>16, <1>17
  <1>19. QED
    BY <1>10, <1>11, <1>18 DEF of, CellsOf

(***************************************************************************)
(* The untyped objects the tool expects of the kernel are aligned powers   *)
(* of two that do not overlap; the device ones cover exactly the device    *)
(* memory and the reserved region, the others exactly the free memory and  *)
(* the boot code: for every machine and however often it is built again.   *)
(***************************************************************************)
THEOREM UntypedsCutFreeMemory == BootSpec => []UntypedsPartition
  <1>1. BootInit => UntypedInv
    <2>1. Page \in Nat
      BY SizeAssumption
    <2>2. QED
      BY <2>1 DEF BootInit, ImageInit, Init, UntypedInv, LayoutInv, LayoutTypes
  <1>2. UntypedInv /\ [BootNext]_systemVars => UntypedInv'
    BY UntypedStep
  <1>3. QED
    BY <1>1, <1>2, UntypedsWell, PTL DEF BootSpec

-----------------------------------------------------------------------------
(* The segments of the programs.                                            *)

LoadableOf(p) == FoldLeft(KeepLoadable, <<>>, p.segments)

LEMMA Appended ==
  ASSUME NEW S, NEW s \in Seq(S), NEW x \in S, NEW n \in Nat, n = Len(s)
  PROVE  /\ Append(s, x) \in Seq(S) /\ Len(Append(s, x)) = n + 1
         /\ DOMAIN s = 1 .. n /\ DOMAIN Append(s, x) = 1 .. n + 1
         /\ \A k \in 1 .. n : Append(s, x)[k] = s[k]
         /\ Append(s, x)[n + 1] = x
  OBVIOUS

\* The regions rs of the segments ss, page after page from start to next.
InOrder(rs, ss, start, next) ==
  /\ rs \in Seq(Region) /\ ss \in Seq(Segment) /\ next \in Nat /\ start <= next /\ PageAligned(next)
  /\ \E n \in Nat :
       /\ n = Len(rs) /\ n = Len(ss)
       /\ \A k \in 1 .. n : /\ start <= rs[k].base /\ rs[k].end <= next /\ PageAligned(rs[k].base)
                            /\ ss[k].len \in Nat /\ rs[k].base + ss[k].len <= rs[k].end
       /\ \A k, m \in 1 .. n : k < m => rs[k].end <= rs[m].base
       /\ \A a \in Int : start <= a /\ a < next => \E k \in 1 .. n : Lies(a, rs[k])

LEMMA OrderedElements ==
  ASSUME NEW rs, NEW ss, NEW start, NEW next, InOrder(rs, ss, start, next)
  PROVE  /\ rs \in Seq(Region)
         /\ \A k \in DOMAIN rs : /\ rs[k].base \in Nat /\ rs[k].end \in Nat
                                 /\ rs[k].base <= rs[k].end /\ PageAligned(rs[k].base)
                                 /\ start <= rs[k].base /\ rs[k].end <= next
         /\ \A a \in Int : start <= a /\ a < next => Held(a, rs)
  <1>1. rs \in Seq(Region)
    BY DEF InOrder
  <1>2. PICK n \in Nat :
          /\ n = Len(rs)
          /\ \A k \in 1 .. n : /\ start <= rs[k].base /\ rs[k].end <= next
                               /\ PageAligned(rs[k].base)
          /\ \A a \in Int : start <= a /\ a < next => \E k \in 1 .. n : Lies(a, rs[k])
    BY DEF InOrder
  <1>3. DOMAIN rs = 1 .. n /\ \A k \in 1 .. n : /\ rs[k].base \in Nat /\ rs[k].end \in Nat
                                               /\ rs[k].base <= rs[k].end
    BY <1>1, <1>2, RegionFields
  <1>4. QED
    BY <1>1, <1>2, <1>3 DEF Held

LEMMA OneMore ==
  ASSUME NEW rs, NEW ss, NEW start \in Nat, NEW next, InOrder(rs, ss, start, next),
         NEW segment \in Segment, NEW size \in Nat, segment.len <= size, PageAligned(size)
  PROVE  InOrder(Append(rs, MemoryRegion(next, next + size)), Append(ss, segment),
                 start, next + size)
  <1>0. PICK r : r = MemoryRegion(next, next + size)
    OBVIOUS
  <1> DEFINE rs2 == Append(rs, r)
             ss2 == Append(ss, segment)
  <1>1. /\ rs \in Seq(Region) /\ ss \in Seq(Segment) /\ next \in Nat /\ start <= next /\ PageAligned(next)
    BY DEF InOrder
  <1>2. PICK n \in Nat :
          /\ n = Len(rs) /\ n = Len(ss)
          /\ \A k \in 1 .. n : /\ start <= rs[k].base /\ rs[k].end <= next
                               /\ PageAligned(rs[k].base)
                               /\ ss[k].len \in Nat /\ rs[k].base + ss[k].len <= rs[k].end
          /\ \A k, m \in 1 .. n : k < m => rs[k].end <= rs[m].base
          /\ \A a \in Int : start <= a /\ a < next => \E k \in 1 .. n : Lies(a, rs[k])
    BY DEF InOrder
  <1>3. r \in Region /\ r.base = next /\ r.end = next + size
    BY <1>0, <1>1 DEF MemoryRegion, Region
  <1>4. segment.len \in Nat
    BY DEF Segment
  <1>5. /\ rs2 \in Seq(Region) /\ Len(rs2) = n + 1 /\ rs2[n + 1] = r
        /\ \A k \in 1 .. n : rs2[k] = rs[k] /\ rs[k] \in Region
    <2>1. \A k \in 1 .. n : rs[k] \in Region
      BY <1>1, <1>2, ElementsOf
    <2>2. rs \in Seq(Region) /\ r \in Region /\ n = Len(rs)
      BY <1>1, <1>2, <1>3
    <2>3. /\ rs2 \in Seq(Region) /\ Len(rs2) = n + 1 /\ rs2[n + 1] = r
          /\ \A k \in 1 .. n : rs2[k] = rs[k]
      BY <2>2, Appended
    <2>4. QED
      BY <2>1, <2>3
  <1>6. /\ ss2 \in Seq(Segment) /\ Len(ss2) = n + 1 /\ ss2[n + 1] = segment
        /\ \A k \in 1 .. n : ss2[k] = ss[k]
    BY <1>1, <1>2, Appended
  <1> HIDE DEF rs2, ss2
  <1>7. \A k \in 1 .. n : rs[k].base \in Nat /\ rs[k].end \in Nat
    BY <1>5 DEF Region
  <1>8. \A k \in 1 .. n + 1 : k \in 1 .. n \/ k = n + 1
    OBVIOUS
  <1>9. \A k \in 1 .. n + 1 : /\ start <= rs2[k].base /\ rs2[k].end <= next + size /\ PageAligned(rs2[k].base)
                              /\ ss2[k].len \in Nat /\ rs2[k].base + ss2[k].len <= rs2[k].end
    <2> SUFFICES ASSUME NEW k \in 1 .. n + 1
                 PROVE  /\ start <= rs2[k].base /\ rs2[k].end <= next + size /\ PageAligned(rs2[k].base)
                        /\ ss2[k].len \in Nat /\ rs2[k].base + ss2[k].len <= rs2[k].end
      OBVIOUS
    <2>1. CASE k \in 1 .. n
      <3>1. start <= rs[k].base /\ rs[k].end <= next /\ rs[k].end \in Nat
            /\ PageAligned(rs[k].base) /\ ss[k].len \in Nat /\ rs[k].base + ss[k].len <= rs[k].end
        BY <1>2, <1>7, <2>1
      <3>2. rs[k].end <= next + size
        BY <1>1, <3>1
      <3>3. rs2[k] = rs[k] /\ ss2[k] = ss[k]
        BY <1>5, <1>6, <2>1
      <3>4. QED
        BY <3>1, <3>2, <3>3
    <2>2. CASE k = n + 1
      BY <1>1, <1>3, <1>4, <1>5, <1>6, <2>2
    <2>3. QED
      BY <1>8, <2>1, <2>2
  <1>10. \A k, m \in 1 .. n + 1 : k < m => rs2[k].end <= rs2[m].base
    <2> SUFFICES ASSUME NEW k \in 1 .. n + 1, NEW m \in 1 .. n + 1, k < m
                 PROVE  rs2[k].end <= rs2[m].base
      OBVIOUS
    <2>1. k \in 1 .. n /\ rs2[k] = rs[k]
      <3>1. k \in 1 .. n
        OBVIOUS
      <3>2. QED
        BY <1>5, <3>1
    <2>2. CASE m \in 1 .. n
      BY <1>2, <1>5, <2>1, <2>2
    <2>3. CASE m = n + 1
      BY <1>2, <1>3, <1>5, <2>1, <2>3
    <2>4. QED
      BY <1>8, <2>2, <2>3
  <1>11. n + 1 \in Nat /\ next + size \in Nat /\ start <= next + size /\ PageAligned(next + size)
    BY <1>1, AlignedSum
  <1>12. n + 1 = Len(rs2) /\ n + 1 = Len(ss2)
    BY <1>5, <1>6
  <1>13. ASSUME NEW a \in Int, start <= a, a < next + size
         PROVE  \E k \in 1 .. n + 1 : Lies(a, rs2[k])
    <2>1. CASE a < next
      <3>1. PICK k \in 1 .. n : Lies(a, rs[k])
        BY <1>2, <1>13, <2>1
      <3>2. k \in 1 .. n + 1 /\ rs2[k] = rs[k]
        BY <1>5
      <3>3. QED
        BY <3>1, <3>2
    <2>2. CASE next <= a
      <3>1. Lies(a, r)
        BY <1>3, <1>13, <2>2 DEF Lies
      <3>2. n + 1 \in 1 .. n + 1 /\ rs2[n + 1] = r
        BY <1>5
      <3>3. QED
        BY <3>1, <3>2
    <2>3. QED
      BY <1>1, <2>1, <2>2
  <1>14. InOrder(rs2, ss2, start, next + size)
    BY <1>5, <1>6, <1>9, <1>10, <1>11, <1>12, <1>13 DEF InOrder
  <1>15. QED
    BY <1>0, <1>14 DEF rs2, ss2

\* SegmentsCongruent, of a segment.
PagesAlike(segment) == segment.loadable => segment.virt % Page = segment.phys % Page

\* What the three folds over the segments have after k of them: the size grows
\* by at least as much as the regions if virtual and physical addresses agree.
Placing(total, acc, kept, table, start, congruent) ==
  /\ total \in Nat /\ InOrder(acc.regions, kept, start, acc.phys_addr_next)
  /\ congruent => acc.phys_addr_next + table <= start + total

LEMMA PlacingStep ==
  ASSUME NEW total, NEW acc, NEW kept, NEW table \in Nat, NEW start \in Nat, NEW congruent,
         Placing(total, acc, kept, table, start, congruent), NEW segment \in Segment,
         congruent => PagesAlike(segment)
  PROVE  Placing(AddPages(total, segment), PlaceSegment(acc, segment), KeepLoadable(kept, segment),
                 table, start, congruent)
  <1> DEFINE size == RoundUp(segment.virt + segment.len, Page) - RoundDown(segment.virt, Page)
             counted == Size(PagesOfSegment(segment))
             next == acc.phys_addr_next
  <1>1. size \in Nat /\ segment.len <= size /\ PageAligned(size)
    <2>1. segment.virt \in Nat /\ segment.len \in Nat
      BY DEF Segment
    <2>2. QED
      BY <2>1, PagesHold
  <1>2. counted \in Nat /\ AddPages(total, segment) = total + counted
    BY PagesCounted DEF AddPages
  <1>3. congruent /\ segment.loadable => counted = size
    <2> SUFFICES ASSUME congruent, segment.loadable PROVE counted = size
      OBVIOUS
    <2>1. segment.virt % Page = segment.phys % Page
      BY DEF PagesAlike
    <2>2. /\ segment.virt \in Nat /\ segment.phys \in Nat /\ segment.len \in Nat
          /\ Page \in Nat \ {0}
      BY SizeAssumption DEF Segment
    <2>3. size = RoundUp(segment.phys + segment.len, Page) - RoundDown(segment.phys, Page)
      BY <2>1, <2>2, SamePages
    <2>4. QED
      BY <2>3 DEF Size, PagesOfSegment, MemoryRegion
  <1>4. /\ total \in Nat /\ next \in Nat /\ (congruent => next + table <= start + total)
        /\ InOrder(acc.regions, kept, start, next)
    BY DEF Placing, InOrder
  <1>5. CASE ~segment.loadable
    <2>1. PlaceSegment(acc, segment) = acc /\ KeepLoadable(kept, segment) = kept
      BY <1>5 DEF PlaceSegment, KeepLoadable
    <2> HIDE DEF counted, next
    <2>2. /\ total + counted \in Nat
          /\ congruent => next + table <= start + (total + counted)
      BY <1>2, <1>4
    <2>3. QED
      BY <1>2, <1>4, <2>1, <2>2 DEF Placing, next
  <1>6. CASE segment.loadable
    <2>1. /\ PlaceSegment(acc, segment).phys_addr_next = next + size
          /\ PlaceSegment(acc, segment).regions
               = Append(acc.regions, MemoryRegion(next, next + size))
          /\ KeepLoadable(kept, segment) = Append(kept, segment)
      BY <1>6 DEF PlaceSegment, KeepLoadable
    <2> HIDE DEF size, counted, next
    <2>2. /\ total + counted \in Nat
          /\ congruent => (next + size) + table <= start + (total + counted)
      BY <1>1, <1>2, <1>3, <1>4, <1>6
    <2>3. InOrder(Append(acc.regions, MemoryRegion(next, next + size)), Append(kept, segment),
                  start, next + size)
      BY <1>1, <1>4, OneMore
    <2>4. QED
      BY <1>2, <2>1, <2>2, <2>3 DEF Placing
  <1>7. QED
    BY <1>5, <1>6

LEMMA SegmentsPlaced ==
  ASSUME program \in Programs, invocation_table_size \in Nat,
         NEW start \in Nat, PageAligned(start)
  PROVE  \E next \in Nat :
           /\ InOrder(PlaceSegments(start), LoadableOf(program), start, next)
           /\ SegmentsCongruent => next + invocation_table_size <= start + ReservedSize
  <1> DEFINE ss == program.segments
             table == invocation_table_size
             none == [phys_addr_next |-> start, regions |-> <<>>]
  <1>1. ss \in Seq(Segment)
    BY ProgramAssumption DEF Segment
  <1>2. PICK n \in Nat : DOMAIN ss = 1 .. n /\ \A k \in 1 .. n : ss[k] \in Segment
    <2> HIDE DEF ss
    <2>1. Len(ss) \in Nat /\ DOMAIN ss = 1 .. Len(ss)
      BY <1>1
    <2>2. \A k \in 1 .. Len(ss) : ss[k] \in Segment
      BY <1>1, ElementsOf
    <2>3. QED
      BY <2>1, <2>2
  <1>3. /\ ReservedSize = Adds!FoldLeft(AddPages, table, ss)
        /\ PlaceSegments(start) = Places!FoldLeft(PlaceSegment, none, ss).regions
        /\ LoadableOf(program) = Keeps!FoldLeft(KeepLoadable, <<>>, ss)
    <2>1. ReservedSize = Adds!FoldLeft(AddPages, table, ss)
      BY DEF ReservedSize, FoldLeft, MapThenFoldSet, Max, AddPages,
             Adds!FoldLeft, Adds!MapThenFoldSet, Adds!Max
    <2>2. PlaceSegments(start) = Places!FoldLeft(PlaceSegment, none, ss).regions
      BY DEF PlaceSegments, FoldLeft, MapThenFoldSet, Max,
             Places!FoldLeft, Places!MapThenFoldSet, Places!Max
    <2>3. LoadableOf(program) = Keeps!FoldLeft(KeepLoadable, <<>>, ss)
      BY DEF LoadableOf, FoldLeft, MapThenFoldSet, Max,
             Keeps!FoldLeft, Keeps!MapThenFoldSet, Keeps!Max
    <2>4. QED
      BY <2>1, <2>2, <2>3
  <1>alike. SegmentsCongruent => \A k \in 1 .. n : PagesAlike(ss[k])
    BY <1>2 DEF SegmentsCongruent, PagesAlike
  <1> HIDE DEF ss, table
  <1>4. DOMAIN ss = 1 .. n /\ table \in Nat
    BY <1>2 DEF table
  <1>5. PICK f : Adds!Steps(f, ss, table, n) /\ Adds!FoldLeft(AddPages, table, ss) = f[n]
    BY <1>4, Adds!FoldLeftSteps
  <1>6. PICK g : Places!Steps(g, ss, none, n) /\ Places!FoldLeft(PlaceSegment, none, ss) = g[n]
    <2> HIDE DEF none
    <2>1. QED
      BY <1>4, Places!FoldLeftSteps
  <1>7. PICK empty : empty = <<>> /\ empty \in Seq(Region) /\ empty \in Seq(Segment) /\ Len(empty) = 0
    <2>1. PICK empty : empty = <<>>
      OBVIOUS
    <2>2. empty \in Seq(Region) /\ empty \in Seq(Segment) /\ Len(empty) = 0
      <3>1. <<>> \in Seq(Region) /\ <<>> \in Seq(Segment)
        BY EmptySeq
      <3>2. empty \in Seq(Region) /\ empty \in Seq(Segment)
        BY <2>1, <3>1, Zenon
      <3>3. QED
        BY <2>1, <3>2, EmptySeq, Zenon
    <2>3. QED
      BY <2>1, <2>2
  <1>8. PICK h : Keeps!Steps(h, ss, empty, n) /\ Keeps!FoldLeft(KeepLoadable, empty, ss) = h[n]
    BY <1>4, Keeps!FoldLeftSteps
  <1> DEFINE T == {k \in 0 .. n : Placing(f[k], g[k], h[k], table, start, SegmentsCongruent)}
  <1>9. 0 \in T
    <2>1. f[0] = table /\ g[0] = none /\ h[0] = empty
      BY <1>5, <1>6, <1>8 DEF Adds!Steps, Places!Steps, Keeps!Steps
    <2>2. none.phys_addr_next = start /\ none.regions = empty
      BY <1>7
    <2>3. start \in Nat /\ start <= start /\ start + table <= start + table
      BY <1>4
    <2> HIDE DEF none
    <2>4. InOrder(empty, empty, start, start)
      <3>1. 0 \in Nat /\ 0 = Len(empty)
        BY <1>7
      <3>2. \A k \in 1 .. 0 : FALSE
        OBVIOUS
      <3>3. QED
        BY <1>7, <2>3, <3>1, <3>2 DEF InOrder
    <2>5. Placing(table, none, empty, table, start, SegmentsCongruent)
      BY <1>4, <2>2, <2>3, <2>4 DEF Placing
    <2>6. QED
      BY <2>1, <2>5
  <1>10. ASSUME NEW k \in 0 .. n - 1, k \in T PROVE k + 1 \in T
    <2>1. ss[k + 1] \in Segment
      <3>1. k + 1 \in 1 .. n
        OBVIOUS
      <3>2. QED
        BY <1>2, <3>1
    <2>2. /\ f[k + 1] = AddPages(f[k], ss[k + 1])
          /\ g[k + 1] = PlaceSegment(g[k], ss[k + 1])
          /\ h[k + 1] = KeepLoadable(h[k], ss[k + 1])
      BY <1>5, <1>6, <1>8 DEF Adds!Steps, Places!Steps, Keeps!Steps
    <2>3. Placing(f[k], g[k], h[k], table, start, SegmentsCongruent)
      BY <1>10
    <2>4. Placing(f[k + 1], g[k + 1], h[k + 1], table, start, SegmentsCongruent)
      <3>1. SegmentsCongruent => PagesAlike(ss[k + 1])
        BY <1>alike
      <3>2. QED
        BY <1>4, <2>1, <2>2, <2>3, <3>1, PlacingStep
    <2>5. k + 1 \in 0 .. n
      OBVIOUS
    <2>6. QED
      BY <2>4, <2>5
  <1> HIDE DEF T
  <1>11. n \in T
    <2>1. \A k \in 0 .. n - 1 : k \in T => k + 1 \in T
      BY <1>10
    <2>2. \A k \in 0 .. n : k \in T
      BY <1>9, <2>1, Inserts!UpTo
    <2>3. QED
      BY <2>2
  <1>12. Placing(f[n], g[n], h[n], table, start, SegmentsCongruent)
    BY <1>11 DEF T
  <1>13. /\ ReservedSize = f[n] /\ PlaceSegments(start) = g[n].regions
         /\ LoadableOf(program) = h[n]
    BY <1>3, <1>5, <1>6, <1>7, <1>8
  <1>14. g[n].phys_addr_next \in Nat
    BY <1>12 DEF Placing, InOrder
  <1>15. /\ InOrder(PlaceSegments(start), LoadableOf(program), start, g[n].phys_addr_next)
         /\ SegmentsCongruent => g[n].phys_addr_next + table <= start + ReservedSize
    BY <1>12, <1>13 DEF Placing
  <1>16. QED
    BY <1>14, <1>15 DEF table

-----------------------------------------------------------------------------
(* The image that is made of them.                                          *)

\* The table is in the reserved region and the segments follow it, and the
\* monitor is in its own region.
SegmentsWell(p, table, size, reserved, task, segs) ==
  /\ reserved \in Region /\ task \in Region /\ task.base + size <= task.end
  /\ PageAligned(task.base) /\ reserved.base + table <= reserved.end
  /\ \E next \in Nat :
       /\ InOrder(segs, LoadableOf(p), reserved.base + table, next)
       /\ (\A k \in DOMAIN p.segments : PagesAlike(p.segments[k])) => next <= reserved.end

\* What is left of CanPlacePages: no page of a segment has been found in
\* ordinary memory outside the reserved region.
PagesHeld(segs, device, reserved) ==
  \A a \in Nat : PageAligned(a) /\ Held(a, segs) => Held(a, device) \/ Lies(a, reserved)

BuiltWell ==
  phase = "built" =>
    /\ invocation_data \in Nat /\ invocation_data <= invocation_table_size
    /\ PagesHeld(segments, device_memory, reserved_region)

ImageInv ==
  /\ UntypedInv
  /\ phase \notin {"start", "error"} =>
       SegmentsWell(program, invocation_table_size, task_size, reserved_region, initial_task, segments)
  /\ BuiltWell
  /\ phase # "overlap"

LEMMA ReserveSegments ==
  ASSUME LayoutTypes, CanReserve
  PROVE  SegmentsWell(program, invocation_table_size, task_size, Reserved, Task,
                      PlaceSegments(Reserved.base + invocation_table_size))
  <1>1. Reserved \in Region /\ Task \in Region
    BY ReserveWell DEF ReservedWell
  <1>2. Reserved.base \in Nat /\ Task.base \in Nat
    BY <1>1 DEF Region
  <1>3. program \in Programs /\ invocation_table_size \in Nat
    BY DEF LayoutTypes
  <1>4. task_size \in Nat /\ Page \in Nat \ {0}
    BY SizeAssumption DEF LayoutTypes
  <1>5. PartialNormal \in Seq(Region)
    BY PartialNormalExact DEF LayoutTypes, Without
  <1>6. /\ Reserved.end = Reserved.base + ReservedSize /\ ReservedSize \in Nat
        /\ PageAligned(Task.base) /\ PageAligned(Reserved.base + invocation_table_size)
        /\ Reserved.base + invocation_table_size <= Reserved.end
    BY <1>3, ReservedAligned, ReservedSizeNatural
  <1>7. Task.base + task_size <= Task.end
    <2> DEFINE size == RoundUp(task_size, Page)
    <2>1. size \in Nat /\ task_size <= size
      BY <1>4, Rounding
    <2>2. CanAllocate(Available, size)
      BY DEF CanReserve
    <2>3. Available \in Seq(Region)
      BY <1>1, <1>5, RemoveRegionExact, ReserveWell, PartialNormalExact
         DEF Available, ReservedWell, Without, LayoutTypes
    <2> HIDE DEF size
    <2>4. Task.end = Task.base + size
      BY <2>1, <2>2, <2>3, AllocatedWithin DEF Task, size
    <2>5. QED
      BY <1>2, <1>4, <2>1, <2>4
  <1>8. Reserved.base + invocation_table_size \in Nat
    BY <1>2, <1>3
  <1>9. PICK next \in Nat :
          /\ InOrder(PlaceSegments(Reserved.base + invocation_table_size), LoadableOf(program),
                     Reserved.base + invocation_table_size, next)
          /\ SegmentsCongruent =>
               next + invocation_table_size <= Reserved.base + invocation_table_size + ReservedSize
    BY <1>3, <1>6, <1>8, SegmentsPlaced
  <1>10. (\A k \in DOMAIN program.segments : PagesAlike(program.segments[k])) => next <= Reserved.end
    <2>1. (\A k \in DOMAIN program.segments : PagesAlike(program.segments[k])) => SegmentsCongruent
      BY DEF SegmentsCongruent, PagesAlike
    <2>2. SegmentsCongruent => next <= Reserved.end
      BY <1>2, <1>3, <1>6, <1>9
    <2>3. QED
      BY <2>1, <2>2
  <1>11. QED
    BY <1>1, <1>6, <1>7, <1>9, <1>10 DEF SegmentsWell

\* Each page of a segment is found in a device untyped object.
LEMMA PagesPlaced ==
  ASSUME UntypedInv, phase = "booted", CanPlacePages,
         NEW next \in Nat, NEW ss, NEW start, InOrder(segments, ss, start, next)
  PROVE  PagesHeld(segments, device_memory, reserved_region)
  <1> SUFFICES ASSUME NEW a \in Nat, PageAligned(a), NEW k \in DOMAIN segments, Lies(a, segments[k])
               PROVE  Held(a, device_memory) \/ Lies(a, reserved_region)
    BY DEF PagesHeld, Held
  <1>1. PageAligned(segments[k].base)
    BY OrderedElements
  <1>2. segments[k].base \in Nat /\ segments[k].end \in Nat
    BY OrderedElements
  <1>3. segments[k].base <= a /\ a < segments[k].end
    BY DEF Lies
  <1>4. a \in segments[k].base .. segments[k].end - 1
    BY <1>2, <1>3
  <1>5. (a - segments[k].base) % Page = 0
    <2>1. Page \in Nat \ {0}
      BY SizeAssumption
    <2>2. CASE segments[k].base < a
      BY <1>1, <1>2, <2>1, <2>2, MultiplesApart DEF PageAligned
    <2>3. CASE segments[k].base = a
      <3>1. a - segments[k].base = 0 /\ 0 \in 0 .. Page - 1
        BY <2>1, <2>3
      <3>2. QED
        BY <2>1, <3>1, SmallRemainder
    <2>4. QED
      BY <1>2, <1>3, <2>2, <2>3
  <1>6. PICK u \in DOMAIN untyped_objects :
          /\ untyped_objects[u].device
          /\ a \in untyped_objects[u].region.base .. untyped_objects[u].region.end - 1
    BY <1>4, <1>5 DEF CanPlacePages
  <1> DEFINE of == {v \in Range(untyped_objects) : v.device = TRUE}
  <1>7. untyped_objects[u] \in of
    <2>1. PICK v : v = untyped_objects[u]
      OBVIOUS
    <2>2. v \in Range(untyped_objects)
      BY <2>1 DEF Range
    <2>3. v.device = TRUE
      <3> DEFINE devices == AlignedPowerOfTwoRegions(reserved_region)
                              \o AllAlignedRegions(device_memory)
                 normals == AlignedPowerOfTwoRegions(machine.boot) \o AllAlignedRegions(normal_memory)
                 d == Len(devices)
      <3>1. untyped_objects
              = [m \in 1 .. d + Len(normals) |->
                   [region |-> (devices \o normals)[m], device |-> m <= d]]
        BY DEF UntypedInv, UntypedsOf
      <3> HIDE DEF devices, normals
      <3>2. v.device = (u <= d)
        BY <2>1, <3>1
      <3>3. QED
        BY <1>6, <2>1, <3>2
    <2>4. QED
      BY <2>1, <2>2, <2>3
  <1>8. UNION {v.region.base .. v.region.end - 1 : v \in of}
          = Addresses(device_memory) \cup Addresses(<<reserved_region>>)
    BY UntypedsWell DEF UntypedsPartition, Placed
  <1> HIDE DEF of
  <1>9. a \in Addresses(device_memory) \cup Cells(reserved_region)
    BY <1>6, <1>7, <1>8, CellsOfOne
  <1>10. device_memory \in Seq(Region) /\ reserved_region \in Region
    BY DEF UntypedInv, LayoutInv, PlacedWell, DeviceExact
  <1>11. QED
    BY <1>9, <1>10, HeldAddresses DEF Cells, Lies, Region

LEMMA TwoLists ==
  ASSUME NEW S, NEW s \in Seq(S), NEW t \in Seq(S)
  PROVE  \A k \in DOMAIN (s \o t) : \/ k \in 1 .. Len(s) /\ (s \o t)[k] = s[k]
                                    \/ k - Len(s) \in DOMAIN t /\ (s \o t)[k] = t[k - Len(s)]
  OBVIOUS

\* A piece of the image lies in a region.
Inside(piece, region) ==
  /\ region \in Region /\ piece.base \in Nat /\ piece.len \in Nat
  /\ region.base = piece.base /\ piece.base + piece.len <= region.end

\* The pieces have the numbers 1 to 3 and those of the segments.
PieceNumber(k) == k \in {1, 2, 3} \/ (k \in Nat /\ k > 3 /\ k - 3 \in DOMAIN segments)

\* What each piece of the image lies in.
Place(k) ==
  IF k = 1 THEN machine.image
  ELSE IF k = 2 THEN initial_task
  ELSE IF k = 3 THEN MemoryRegion(reserved_region.base, reserved_region.base + invocation_table_size)
  ELSE segments[k - 3]

LEMMA PiecesOfImage ==
  ASSUME ImageInv, phase = "built"
  PROVE  \A k \in DOMAIN LoaderRegions :
           PieceNumber(k) /\ Inside(LoaderRegions[k], Place(k))
  <1> DEFINE table == MemoryRegion(reserved_region.base, reserved_region.base + invocation_table_size)
             lengths == LoadableOf(program)
  <1>1. /\ task_size \in Nat /\ invocation_table_size \in Nat /\ machine.image \in Region
        /\ invocation_data \in Nat /\ invocation_data <= invocation_table_size
    BY SizeAssumption, MachineAssumption DEF ImageInv, UntypedInv, LayoutInv, LayoutTypes, BuiltWell
  <1>2. /\ initial_task \in Region /\ reserved_region \in Region
        /\ initial_task.base + task_size <= initial_task.end
    BY DEF ImageInv, SegmentsWell
  <1>3. PICK next \in Nat :
          InOrder(segments, lengths, reserved_region.base + invocation_table_size, next)
    BY DEF ImageInv, SegmentsWell
  <1>4. PICK n \in Nat :
          /\ n = Len(segments) /\ n = Len(lengths)
          /\ \A m \in 1 .. n : /\ lengths[m].len \in Nat
                               /\ segments[m].base + lengths[m].len <= segments[m].end
    BY <1>3 DEF InOrder
  <1>5. segments \in Seq(Region) /\ DOMAIN segments = 1 .. n
    <2>1. segments \in Seq(Region)
      BY <1>3 DEF InOrder
    <2>2. DOMAIN segments = 1 .. Len(segments)
      BY <2>1
    <2>3. QED
      BY <1>4, <2>1, <2>2
  <1>6. \A m \in 1 .. n : segments[m] \in Region
    BY <1>4, <1>5, ElementsOf
  <1>7. \A m \in 1 .. n : segments[m].base \in Nat
    BY <1>6 DEF Region
  <1>8. /\ machine.image.base \in Nat /\ machine.image.end \in Nat
        /\ machine.image.base <= machine.image.end
        /\ initial_task.base \in Nat /\ reserved_region.base \in Nat
    BY <1>1, <1>2 DEF Region
  <1> DEFINE image == RegionAt(machine.image.base, Size(machine.image))
             monitor == RegionAt(initial_task.base, task_size)
             data == RegionAt(reserved_region.base, invocation_data)
             piece(m) == RegionAt(segments[m].base, lengths[m].len)
             first == <<image, monitor, data>>
             others == [m \in 1 .. n |-> piece(m)]
             Piece == [base: Nat, len: Nat]
  <1>9. LoaderRegions = first \o others
    BY <1>5 DEF LoaderRegions, Loadable, LoadableOf
  <1>10. /\ Inside(image, machine.image) /\ Inside(monitor, initial_task) /\ Inside(data, table)
         /\ image \in Piece /\ monitor \in Piece /\ data \in Piece
    BY <1>1, <1>2, <1>8 DEF Inside, RegionAt, Size, MemoryRegion, Region
  <1>11. \A m \in 1 .. n : piece(m) \in Piece /\ Inside(piece(m), segments[m])
    BY <1>4, <1>6, <1>7 DEF Inside, RegionAt
  <1> HIDE DEF lengths
  <1>12. /\ first \in Seq(Piece) /\ Len(first) = 3
         /\ first[1] = image /\ first[2] = monitor /\ first[3] = data
    <2> HIDE DEF image, monitor, data, Piece
    <2>1. QED
      BY <1>10
  <1>13. others \in Seq(Piece) /\ DOMAIN others = 1 .. n
    <2> HIDE DEF piece, Piece
    <2>1. QED
      BY <1>11
  <1>14. \A m \in 1 .. n : others[m] = piece(m)
    OBVIOUS
  <1> HIDE DEF first, others, Piece, image, monitor, data, piece
  <1>15. ASSUME NEW k \in DOMAIN LoaderRegions
         PROVE  \/ k \in 1 .. 3 /\ LoaderRegions[k] = first[k]
                \/ k - 3 \in 1 .. n /\ LoaderRegions[k] = others[k - 3]
    BY <1>9, <1>12, <1>13, TwoLists, ZenonT(40)
  <1> SUFFICES ASSUME NEW k \in DOMAIN LoaderRegions
               PROVE  PieceNumber(k) /\ Inside(LoaderRegions[k], Place(k))
    OBVIOUS
  <1>16. k \in Nat
    <2>1. LoaderRegions \in Seq(Piece)
      BY <1>9, <1>12, <1>13
    <2>2. QED
      BY <2>1
  <1>17. CASE k \in 1 .. 3 /\ LoaderRegions[k] = first[k]
    <2>1. k = 1 \/ k = 2 \/ k = 3
      BY <1>17
    <2>2. QED
      BY <1>10, <1>12, <1>17, <2>1 DEF Place, PieceNumber
  <1>18. CASE k - 3 \in 1 .. n /\ LoaderRegions[k] = others[k - 3]
    <2>1. k > 3 /\ k # 1 /\ k # 2 /\ k # 3
      BY <1>16, <1>18
    <2>2. LoaderRegions[k] = piece(k - 3) /\ Inside(piece(k - 3), segments[k - 3])
      BY <1>11, <1>14, <1>18
    <2>3. QED
      BY <1>5, <1>16, <1>18, <2>1, <2>2 DEF Place, PieceNumber
  <1>19. QED
    BY <1>15, <1>17, <1>18

\* No segment has a page in the image of the kernel or in the monitor: it would
\* have been looked for among the device untyped objects.
LEMMA SegmentsClear ==
  ASSUME ImageInv, phase = "built", NEW m \in DOMAIN segments
  PROVE  Clear(machine.image, segments[m]) /\ Clear(initial_task, segments[m])
  <1> DEFINE start == reserved_region.base + invocation_table_size
  <1>1. /\ Clear(machine.image, reserved_region) /\ Clear(initial_task, reserved_region)
        /\ DeviceExact(machine, device_memory)
    BY DEF ImageInv, UntypedInv, LayoutInv, PlacedWell, NoneShared
  <1>2. machine \in Machines /\ invocation_table_size \in Nat /\ task_size \in Nat \ {0}
    BY SizeAssumption DEF ImageInv, UntypedInv, LayoutInv, LayoutTypes
  <1>3. /\ reserved_region \in Region /\ initial_task \in Region
        /\ initial_task.base + task_size <= initial_task.end /\ PageAligned(initial_task.base)
        /\ start <= reserved_region.end
    BY DEF ImageInv, SegmentsWell
  <1>4. /\ machine.image \in Region /\ machine.image.base < machine.image.end
        /\ PageAligned(machine.image.base)
        /\ machine.memory \in Seq(Region) /\ Covers(machine.memory, machine.image)
    BY <1>2, MachineAssumption DEF PageAligned
  <1>5. PICK next \in Nat : InOrder(segments, LoadableOf(program), start, next)
    BY DEF ImageInv, SegmentsWell
  <1>6. /\ PageAligned(segments[m].base)
        /\ start <= segments[m].base /\ segments[m].end <= next
    BY <1>5, OrderedElements
  <1>7. segments[m].base \in Nat /\ segments[m].end \in Nat /\ segments[m].base <= segments[m].end
    BY <1>5, OrderedElements
  <1>8. \A a \in Nat : PageAligned(a) /\ start <= a /\ a < next =>
          ~Held(a, machine.memory) \/ Lies(a, reserved_region)
    <2>1. \A a \in Nat : start <= a /\ a < next => Held(a, segments)
      BY <1>5, OrderedElements
    <2>2. PagesHeld(segments, device_memory, reserved_region)
      BY DEF ImageInv, BuiltWell
    <2>3. \A a \in Nat : Held(a, device_memory) => ~Held(a, machine.memory)
      BY <1>1 DEF DeviceExact
    <2>4. QED
      BY <2>1, <2>2, <2>3 DEF PagesHeld
  <1>9. reserved_region.base \in Nat /\ reserved_region.end \in Nat /\ start \in Nat
    BY <1>2, <1>3 DEF Region
  <1> HIDE DEF start
  <1>10. ASSUME NEW r \in Region, r.base < r.end, PageAligned(r.base), Clear(r, reserved_region),
                \A a \in Int : Lies(a, r) => Held(a, machine.memory)
         PROVE  Clear(r, segments[m])
    <2> SUFFICES ASSUME segments[m].base < r.end, r.base < segments[m].end
                 PROVE  FALSE
      BY <1>7 DEF Clear, Region
    <2>1. r.base \in Nat /\ r.end \in Nat
      BY DEF Region
    <2>2. \A a \in Nat : Lies(a, r) => ~Lies(a, reserved_region)
      BY <1>9, <1>10, <2>1 DEF Lies, Clear
    <2>3. \A a \in Nat : ~(PageAligned(a) /\ start <= a /\ a < next /\ Lies(a, r))
      BY <1>8, <1>10, <2>2
    <2>4. CASE segments[m].base <= r.base
      <3>1. Lies(r.base, r) /\ start <= r.base /\ r.base < next
        BY <1>6, <1>7, <1>9, <1>10, <2>1, <2>4 DEF Lies
      <3>2. QED
        BY <1>10, <2>1, <2>3, <3>1
    <2>5. CASE r.base < segments[m].base
      <3>1. Page \in Nat \ {0}
        BY SizeAssumption
      <3>2. PICK b \in Nat : b = segments[m].base - Page /\ r.base <= b
        <4>1. r.base % Page = 0 /\ segments[m].base % Page = 0
          BY <1>6, <1>10 DEF PageAligned
        <4>2. r.base + Page <= segments[m].base
          BY <1>7, <2>1, <2>5, <3>1, <4>1, MultiplesApart
        <4>3. segments[m].base - Page \in Nat /\ r.base <= segments[m].base - Page
          BY <1>7, <2>1, <3>1, <4>2
        <4>4. QED
          BY <4>3
      <3>3. Lies(b, r) /\ b < next
        BY <1>6, <1>7, <2>1, <3>1, <3>2 DEF Lies
      <3>4. PageAligned(b)
        <4>1. Page % Page = 0 /\ Page <= segments[m].base
          <5>1. (1 * Page) % Page = 0 /\ 1 * Page = Page
            BY <3>1, MultipleOf
          <5>2. QED
            BY <1>7, <3>1, <3>2, <5>1
        <4>2. CASE Page < segments[m].base
          BY <1>6, <1>7, <3>1, <3>2, <4>1, <4>2, MultiplesApart DEF PageAligned
        <4>3. CASE Page = segments[m].base
          <5>1. b = 0 /\ 0 \in 0 .. Page - 1
            BY <3>1, <3>2, <4>3
          <5>2. QED
            BY <3>1, <5>1, SmallRemainder DEF PageAligned
        <4>4. QED
          BY <1>7, <3>1, <4>1, <4>2, <4>3
      <3>5. CASE start <= b
        BY <2>3, <3>3, <3>4, <3>5
      <3>6. CASE b < start
        <4>1. r.base < start /\ start < r.end
          BY <1>6, <1>7, <1>9, <2>1, <3>2, <3>6
        <4>2. reserved_region.base <= start /\ start <= reserved_region.end
          BY <1>2, <1>3, <1>9 DEF start
        <4>3. QED
          BY <1>9, <1>10, <2>1, <4>1, <4>2 DEF Clear
      <3>7. QED
        BY <1>9, <3>5, <3>6
    <2>6. QED
      BY <1>7, <2>1, <2>4, <2>5
  <1>11. Clear(machine.image, segments[m])
    <2>1. \A a \in Int : Lies(a, machine.image) => Held(a, machine.memory)
      BY <1>4, CoveredIsHeld
    <2>2. QED
      BY <1>1, <1>4, <1>10, <2>1
  <1>12. Clear(initial_task, segments[m])
    <2>1. \A a \in Int : Lies(a, initial_task) => Held(a, machine.memory)
      BY DEF ImageInv, UntypedInv
    <2>2. initial_task.base < initial_task.end
      BY <1>2, <1>3 DEF Region
    <2>3. QED
      BY <1>1, <1>3, <1>10, <2>1, <2>2
  <1>13. QED
    BY <1>11, <1>12

LEMMA PlacesApart ==
  ASSUME ImageInv, phase = "built",
         NEW j \in Nat, NEW k \in Nat, j < k, PieceNumber(j), PieceNumber(k)
  PROVE  Clear(Place(j), Place(k))
  <1> DEFINE table == MemoryRegion(reserved_region.base, reserved_region.base + invocation_table_size)
  <1>1. /\ Clear(machine.image, initial_task) /\ Clear(machine.image, reserved_region)
        /\ Clear(initial_task, reserved_region)
    BY DEF ImageInv, UntypedInv, LayoutInv, PlacedWell, NoneShared
  <1>2. reserved_region \in Region /\ initial_task \in Region /\ machine.image \in Region
        /\ invocation_table_size \in Nat
    BY MachineAssumption DEF ImageInv, UntypedInv, LayoutInv, LayoutTypes, SegmentsWell
  <1>3. PICK next \in Nat :
          InOrder(segments, LoadableOf(program), reserved_region.base + invocation_table_size, next)
    BY DEF ImageInv, SegmentsWell
  <1>4. reserved_region.base \in Nat /\ reserved_region.end \in Nat
    BY <1>2 DEF Region
  <1>5. PICK n \in Nat :
          /\ n = Len(segments)
          /\ \A m \in 1 .. n : /\ reserved_region.base + invocation_table_size <= segments[m].base
                               /\ segments[m].end <= next
          /\ \A l, m \in 1 .. n : l < m => segments[l].end <= segments[m].base
    BY <1>3 DEF InOrder
  <1>6. segments \in Seq(Region) /\ DOMAIN segments = 1 .. n
    BY <1>3, <1>5 DEF InOrder
  <1>7. \A m \in 1 .. n : segments[m] \in Region
    BY <1>5, <1>6, ElementsOf
  <1>8. table \in Region /\ Within(table, reserved_region)
    <2>1. reserved_region.base + invocation_table_size <= reserved_region.end
      BY DEF ImageInv, SegmentsWell
    <2>2. QED
      BY <1>2, <1>4, <2>1 DEF Within, MemoryRegion, Region
  <1>9. ASSUME NEW m \in 1 .. n
        PROVE  Clear(table, segments[m])
    BY <1>5 DEF Clear, MemoryRegion
  <1> HIDE DEF table
  <1>10. Clear(machine.image, table) /\ Clear(initial_task, table)
    <2>1. Clear(reserved_region, machine.image) /\ Clear(reserved_region, initial_task)
      BY <1>1 DEF Clear
    <2>2. QED
      BY <1>2, <1>8, <2>1, WithinClear
  <1>11. /\ Place(1) = machine.image /\ Place(2) = initial_task /\ Place(3) = table
    BY DEF Place, table
  <1>12. k > 3 => k - 3 \in 1 .. n /\ Place(k) = segments[k - 3]
    BY <1>6 DEF Place, PieceNumber
  <1>13. j > 3 => j - 3 \in 1 .. n /\ Place(j) = segments[j - 3]
    BY <1>6 DEF Place, PieceNumber
  <1>14. CASE k \in {1, 2, 3}
    <2>1. (j = 1 /\ k = 2) \/ (j = 1 /\ k = 3) \/ (j = 2 /\ k = 3)
      <3>1. j = 1 \/ j = 2
        BY <1>14 DEF PieceNumber
      <3>2. QED
        BY <1>14, <3>1
    <2>2. QED
      BY <1>1, <1>10, <1>11, <2>1
  <1>15. CASE k > 3
    <2>1. CASE j = 1 \/ j = 2
      <3>1. Place(j) = machine.image \/ Place(j) = initial_task
        BY <1>11, <2>1
      <3>2. Place(k) = segments[k - 3] /\ k - 3 \in 1 .. n
        BY <1>12, <1>15
      <3>3. Clear(machine.image, segments[k - 3]) /\ Clear(initial_task, segments[k - 3])
        BY <1>6, <3>2, SegmentsClear
      <3>4. QED
        BY <3>1, <3>2, <3>3
    <2>2. CASE j = 3
      BY <1>9, <1>11, <1>12, <1>15, <2>2
    <2>3. CASE j > 3
      <3>1. j - 3 \in 1 .. n /\ k - 3 \in 1 .. n /\ j - 3 < k - 3
        BY <1>12, <1>13, <1>15, <2>3
      <3>2. segments[j - 3].end <= segments[k - 3].base
        BY <1>5, <3>1
      <3>3. QED
        BY <1>12, <1>13, <1>15, <2>3, <3>2 DEF Clear
    <2>4. QED
      BY <2>1, <2>2, <2>3 DEF PieceNumber
  <1>16. QED
    BY <1>14, <1>15 DEF PieceNumber

LEMMA ImageApart ==
  ASSUME ImageInv, phase = "built"
  PROVE  NonOverlapping(LoaderRegions)
  <1> DEFINE rs == LoaderRegions
  <1> SUFFICES ASSUME NEW n \in DOMAIN rs, NEW j \in DOMAIN rs, j < n
               PROVE  rs[n].base + rs[n].len <= rs[j].base \/ rs[j].base + rs[j].len <= rs[n].base
    BY DEF NonOverlapping
  <1>1. /\ PieceNumber(n) /\ PieceNumber(j)
        /\ Inside(rs[n], Place(n)) /\ Inside(rs[j], Place(j))
    BY PiecesOfImage
  <1>2. n \in Nat /\ j \in Nat
    BY <1>1 DEF PieceNumber
  <1> HIDE DEF rs
  <1>3. Clear(Place(j), Place(n))
    BY <1>1, <1>2, PlacesApart
  <1>4. QED
    <2>1. /\ Place(n).base \in Nat /\ Place(n).end \in Nat
          /\ Place(j).base \in Nat /\ Place(j).end \in Nat
      BY <1>1 DEF Inside, Region
    <2>2. QED
      BY <1>1, <1>3, <2>1 DEF Inside, Clear

-----------------------------------------------------------------------------
(* And every step keeps it so.                                              *)

placing == <<program, task_size, invocation_table_size, reserved_region, initial_task, segments>>

\* A step that leaves the segments where they are.
QuietStep ==
  /\ UNCHANGED placing
  /\ phase \notin {"start", "error"} /\ phase' \notin {"built", "overlap"}

LEMMA PlacingSteps ==
  ASSUME [BootNext]_systemVars
  PROVE  \/ Reserve \/ phase' \in {"start", "error"} \/ BuildFits \/ MakeImage \/ QuietStep
         \/ UNCHANGED <<placing, phase, invocation_data, device_memory>>
  <1>1. CASE UNCHANGED systemVars
    BY <1>1 DEF systemVars, allVars, vars, inputs, imageVars, placing
  <1>2. CASE ImageNext
    <2>1. CASE CannotReserve \/ NoRoomForKernel \/ CannotBootstrap \/ CannotPlacePages
                 \/ MonitorTooSmall \/ BuildAgain
      BY <2>1 DEF CannotReserve, NoRoomForKernel, CannotBootstrap, CannotPlacePages,
                  MonitorTooSmall, BuildAgain
    <2>2. CASE EmulateKernelBoot
      BY <2>2 DEF EmulateKernelBoot, QuietStep, placing, inputs
    <2>3. CASE PowerOn \/ StartKernel \/ LoaderLost
      BY <2>3 DEF PowerOn, StartKernel, LoaderLost, QuietStep, placing, inputs
    <2>4. CASE CopyRegion
      BY <2>4 DEF CopyRegion, vars, inputs, placing
    <2>5. QED
      BY <1>2, <2>1, <2>2, <2>3, <2>4 DEF ImageNext, Next
  <1>3. CASE StartMonitor
    BY <1>3 DEF StartMonitor, QuietStep, placing, inputs
  <1>4. CASE PerformInvocation
    BY <1>4 DEF PerformInvocation, QuietStep, placing, inputs
  <1>5. CASE BootstrapDone
    BY <1>5 DEF BootstrapDone, QuietStep, placing, inputs
  <1>6. QED
    BY <1>1, <1>2, <1>3, <1>4, <1>5 DEF BootNext

LEMMA ImageStep ==
  ASSUME ImageInv, [BootNext]_systemVars
  PROVE  ImageInv'
  <1> DEFINE Well == SegmentsWell(program, invocation_table_size, task_size, reserved_region,
                                  initial_task, segments)
  <1>1. UntypedInv'
    BY UntypedStep DEF ImageInv
  <1>2. CASE Reserve
    <2>1. SegmentsWell(program, invocation_table_size, task_size, Reserved, Task,
                       PlaceSegments(Reserved.base + invocation_table_size))
      BY <1>2, ReserveSegments DEF ImageInv, UntypedInv, LayoutInv, Reserve
    <2>2. /\ program' = program /\ invocation_table_size' = invocation_table_size
          /\ task_size' = task_size /\ reserved_region' = Reserved /\ initial_task' = Task
          /\ segments' = PlaceSegments(Reserved.base + invocation_table_size)
          /\ phase' = "reserved"
      BY <1>2 DEF Reserve, inputs
    <2>3. Well'
      BY <2>1, <2>2 DEF SegmentsWell, InOrder, LoadableOf
    <2>4. QED
      BY <1>1, <2>2, <2>3 DEF ImageInv, BuiltWell
  <1>3. CASE phase' \in {"start", "error"}
    BY <1>1, <1>3 DEF ImageInv, BuiltWell
  <1>4. ASSUME UNCHANGED placing, Well PROVE Well'
    BY <1>4 DEF placing, SegmentsWell, InOrder, LoadableOf
  <1> HIDE DEF Well
  <1>5. CASE BuildFits
    <2>1. /\ UNCHANGED placing /\ phase = "booted" /\ phase' = "built" /\ CanPlacePages
          /\ UNCHANGED device_memory
      BY <1>5 DEF BuildFits, CanBuild, placing, inputs
    <2>2. Well'
      BY <1>4, <2>1 DEF ImageInv, Well
    <2>3. invocation_data' \in Nat /\ invocation_data' <= invocation_table_size'
      BY <1>5, DataAssumption DEF BuildFits, Fits, inputs
    <2>4. PagesHeld(segments, device_memory, reserved_region)
      <3>1. PICK next \in Nat : InOrder(segments, LoadableOf(program),
                                       reserved_region.base + invocation_table_size, next)
        BY <2>1 DEF ImageInv, SegmentsWell
      <3>2. QED
        BY <2>1, <3>1, PagesPlaced DEF ImageInv
    <2>5. PagesHeld(segments, device_memory, reserved_region)'
      BY <2>1, <2>4 DEF PagesHeld, Held, placing
    <2>6. QED
      BY <1>1, <2>1, <2>2, <2>3, <2>5 DEF ImageInv, BuiltWell, Well
  <1>6. CASE MakeImage
    <2>1. UNCHANGED placing /\ phase = "built" /\ phase' = "image"
      BY <1>6, ImageApart DEF MakeImage, placing, inputs
    <2>2. Well'
      BY <1>4, <2>1 DEF ImageInv, Well
    <2>3. QED
      BY <1>1, <2>1, <2>2 DEF ImageInv, BuiltWell, Well
  <1>7. CASE QuietStep
    <2>1. Well'
      BY <1>4, <1>7 DEF ImageInv, QuietStep, Well
    <2>2. QED
      BY <1>1, <1>7, <2>1 DEF ImageInv, BuiltWell, QuietStep, Well
  <1>8. CASE UNCHANGED <<placing, phase, invocation_data, device_memory>>
    <2>1. UNCHANGED placing /\ phase' = phase /\ invocation_data' = invocation_data
          /\ invocation_table_size' = invocation_table_size /\ device_memory' = device_memory
      BY <1>8 DEF placing
    <2>2. BuiltWell'
      BY <2>1 DEF ImageInv, BuiltWell, PagesHeld, Held, placing
    <2>3. QED
      BY <1>1, <1>4, <2>1, <2>2 DEF ImageInv, Well
  <1>9. QED
    BY <1>2, <1>3, <1>5, <1>6, <1>7, <1>8, PlacingSteps

(***************************************************************************)
(* Once build_system has reserved its memory, the table lies in it and the *)
(* segments of the programs follow, page after page; they end in it if the *)
(* virtual addresses, by which they are placed, fall on pages like the     *)
(* physical ones, by which they are counted.  Of a build that is accepted  *)
(* the data fit into the table and, whatever the addresses, no page of a   *)
(* segment is in ordinary memory that is not reserved; UntypedInv comes    *)
(* with it.                                                                *)
(***************************************************************************)
THEOREM ImageInvariant == BootSpec => []ImageInv
  <1>1. BootInit => ImageInv
    <2>1. Page \in Nat
      BY SizeAssumption
    <2>2. QED
      BY <2>1 DEF BootInit, ImageInit, Init, ImageInv, UntypedInv, LayoutInv, LayoutTypes, BuiltWell
  <1>2. ImageInv /\ [BootNext]_systemVars => ImageInv'
    BY ImageStep
  <1>3. QED
    BY <1>1, <1>2, PTL DEF BootSpec

(***************************************************************************)
(* The segments of the programs are apart from each other and from the     *)
(* invocation table, whatever the programs, and they end in the reserved   *)
(* region if each is linked at an address that falls on a page like its    *)
(* physical one: then phys_mem_regions_from_elf, which sizes the region,   *)
(* counts no less for a segment than build_system, which places it.        *)
(***************************************************************************)
THEOREM SegmentsInPlace == BootSpec => []SegmentsFit
  <1>1. ImageInv => SegmentsFit
    <2> SUFFICES ASSUME ImageInv, phase \in Placed \cup {"reserved"}
                 PROVE  /\ Disjoint(segments)
                        /\ \A k \in DOMAIN segments :
                             /\ reserved_region.base + invocation_table_size <= segments[k].base
                             /\ SegmentsCongruent => segments[k].end <= reserved_region.end
      BY DEF SegmentsFit
    <2>1. PICK next \in Nat :
            /\ InOrder(segments, LoadableOf(program),
                       reserved_region.base + invocation_table_size, next)
            /\ (\A k \in DOMAIN program.segments : PagesAlike(program.segments[k]))
                 => next <= reserved_region.end
      BY DEF ImageInv, SegmentsWell, Placed
    <2>2. PICK n \in Nat :
            /\ n = Len(segments)
            /\ \A m \in 1 .. n : /\ reserved_region.base + invocation_table_size <= segments[m].base
                                 /\ segments[m].end <= next
            /\ \A l, m \in 1 .. n : l < m => segments[l].end <= segments[m].base
      BY <2>1 DEF InOrder
    <2>3. segments \in Seq(Region) /\ DOMAIN segments = 1 .. n
      <3>1. segments \in Seq(Region)
        BY <2>1 DEF InOrder
      <3>2. DOMAIN segments = 1 .. Len(segments)
        BY <3>1
      <3>3. QED
        BY <2>2, <3>1, <3>2
    <2>4. Disjoint(segments)
      BY <2>2, <2>3 DEF Disjoint
    <2>5. ASSUME SegmentsCongruent, NEW k \in 1 .. n
          PROVE  segments[k].end <= reserved_region.end
      <3>1. segments[k] \in Region /\ reserved_region \in Region
        BY <2>2, <2>3, ElementsOf DEF ImageInv, SegmentsWell, Placed
      <3>2. segments[k].end \in Nat /\ reserved_region.end \in Nat
        BY <3>1 DEF Region
      <3>3. next <= reserved_region.end
        BY <2>1, <2>5 DEF SegmentsCongruent, PagesAlike
      <3>4. QED
        BY <2>2, <3>2, <3>3
    <2>6. QED
      BY <2>2, <2>3, <2>4, <2>5
  <1>2. QED
    BY <1>1, ImageInvariant, PTL

(***************************************************************************)
(* The tool never makes an image it then rejects: the kernel, the monitor, *)
(* the data of the table and the segments do not overlap, whatever the     *)
(* machine, the addresses in the programs and the sizes of the builds.     *)
(* Pages of a segment that the reserved region has no room for are either  *)
(* refused by allocate_fixed_objects or lie in device memory.              *)
(***************************************************************************)
THEOREM ImageNeverRejected == BootSpec => []ImageAccepted
  <1>1. ImageInv => ImageAccepted
    BY DEF ImageInv, ImageAccepted
  <1>2. QED
    BY <1>1, ImageInvariant, PTL

=============================================================================
