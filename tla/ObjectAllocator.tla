--------------------------- MODULE ObjectAllocator ---------------------------
(***************************************************************************)
(* The allocation of kernel objects (tool/microkit/__main__.py, classes    *)
(* KernelObjectAllocator and InitSystem).  The tool decides on the build   *)
(* machine which untyped object each kernel object comes from and where it *)
(* will be; the monitor makes the kernel retype the objects at boot, in    *)
(* the same order, and the kernel has its own idea of where they go.       *)
(***************************************************************************)
EXTENDS MemoryRegions

CONSTANTS
  Untyped,     \* untyped_objects: a sequence of [base, end, device]
  AllocSize,   \* of each object type, the size the tool reckons with
  KernelSize,  \* of each object type, the size the kernel gives it
  FanOut,      \* fan_out_limit: the objects one retype can make
  Counts,      \* how many objects a request asks for
  FixedPages,  \* the pages that may be asked for at an address, <<phys, type>>
  MaxSlots     \* bound: no request once this many slots are in use

ASSUME UntypedAssumption ==
  \A u \in DOMAIN Untyped :
    /\ Untyped[u].base \in Nat /\ Untyped[u].end \in Nat
    /\ Untyped[u].base < Untyped[u].end
    /\ Untyped[u].device \in BOOLEAN
    /\ \A v \in DOMAIN Untyped \ {u} :
         Untyped[u].end <= Untyped[v].base \/ Untyped[v].end <= Untyped[u].base

ASSUME SizeAssumption ==
  /\ FanOut \in Nat \ {0}
  /\ DOMAIN AllocSize = DOMAIN KernelSize
  /\ \A t \in DOMAIN AllocSize :
       /\ AllocSize[t] \in Nat \ {0} /\ KernelSize[t] \in Nat \ {0}
       /\ AllocSize[t] % KernelSize[t] = 0

\* xml2mr checks the alignment; nothing checks that the page ends where its
\* untyped object does or before, so that is assumed here.
ASSUME FixedPagesAssumption ==
  /\ Counts \subseteq Nat /\ MaxSlots \in Nat
  /\ \A f \in FixedPages :
       /\ f[1] \in Nat /\ f[2] \in DOMAIN AllocSize
       /\ AllocSize[f[2]] = KernelSize[f[2]]
       /\ f[1] % AllocSize[f[2]] = 0
       /\ \A u \in DOMAIN Untyped :
            Untyped[u].device /\ Untyped[u].base <= f[1] /\ f[1] < Untyped[u].end
              => f[1] + AllocSize[f[2]] <= Untyped[u].end

VARIABLES
  phase,            \* build, error or boot
  allocation_point, \* of each normal untyped, as an address
  watermark,        \* of each device untyped
  last_fixed,       \* _last_fixed_address
  cap_slot,         \* _cap_slot: the next slot of the system CNode
  invocations,      \* the retypes generated and not performed yet
  objects,          \* of each slot, the object the tool believes is there
  free,             \* EXTERNAL, the kernel's: of each untyped, where it is free
  placed            \* EXTERNAL: of each slot, the object that is there

tool == <<allocation_point, watermark, last_fixed, cap_slot, objects>>
vars == <<phase, tool, invocations, free, placed>>

Bases == [u \in DOMAIN Untyped |-> Untyped[u].base]

Init ==
  /\ phase = "build"
  /\ allocation_point = Bases /\ watermark = Bases
  /\ last_fixed = 0
  /\ cap_slot = 1
  /\ invocations = <<>>
  /\ objects = <<>>
  /\ free = Bases
  /\ placed = <<>>

-----------------------------------------------------------------------------
(* Normal memory *)

\* One retype: from which untyped, of what size, into which slots.
RetypeOf(u, size, slot, count) == [ut |-> u, size |-> size, slot |-> slot, count |-> count]

Fits(u, size, count) ==
  /\ ~Untyped[u].device
  /\ RoundUp(allocation_point[u], size) + count * size <= Untyped[u].end

FirstFit(u, size, count) ==
  Fits(u, size, count) /\ \A v \in 1..(u - 1) : ~Fits(v, size, count)

\* Mutant: every batch goes into the slots of the first.
RetypesSameSlots(u, type, slot, count) ==
  [n \in 1..((count + FanOut - 1) \div FanOut) |->
     RetypeOf(u, KernelSize[type], slot,
              IF count - (n - 1) * FanOut < FanOut THEN count - (n - 1) * FanOut ELSE FanOut)]

\* No retype makes more than fan_out_limit objects.
Retypes(u, type, slot, count) ==
  [n \in 1..((count + FanOut - 1) \div FanOut) |->
     LET done == (n - 1) * FanOut
     IN RetypeOf(u, KernelSize[type], slot + done,
                 IF count - done < FanOut THEN count - done ELSE FanOut)]

\* InitSystem.allocate_objects and KernelObjectAllocator.alloc.
AllocateObjects(type, count) ==
  LET size == AllocSize[type]
  IN /\ phase = "build"
     /\ \E u \in DOMAIN Untyped :
          LET start == RoundUp(allocation_point[u], size)
          IN /\ FirstFit(u, size, count)
             /\ allocation_point' = [allocation_point EXCEPT ![u] = start + count * size]
             /\ invocations' = invocations \o Retypes(u, type, cap_slot, count)
             /\ objects' = objects \o
                  [n \in 1..count |-> [type |-> type, phys |-> start + (n - 1) * size, fixed |-> FALSE]]
     /\ cap_slot' = cap_slot + count
     /\ UNCHANGED <<phase, watermark, last_fixed, free, placed>>

\* "Can't alloc"
NoSpace(type, count) ==
  /\ phase = "build"
  /\ \A u \in DOMAIN Untyped : ~Fits(u, AllocSize[type], count)
  /\ phase' = "error"
  /\ UNCHANGED <<tool, invocations, free, placed>>
-----------------------------------------------------------------------------
(* Device memory, where an object has to be at a given address. *)

\* The device untyped an address is in, if any.
In(phys, u) == Untyped[u].device /\ Untyped[u].base <= phys /\ phys < Untyped[u].end

\* Mutant: the padding is as large as possible, whatever its alignment.
PadSizeUnaligned(wm, phys) == TwoTo[Msb(phys - wm)]

\* The size of the first padding object between the watermark and an address.
PadSize(wm, phys) ==
  LET bits == IF Lsb(wm) < Msb(phys - wm) THEN Lsb(wm) ELSE Msb(phys - wm)
  IN IF bits < 0 THEN 0 ELSE TwoTo[bits]

\* The sizes of all of them.
Padding(wm, phys) ==
  LET from[w \in wm .. phys] ==
        IF w = phys THEN <<>> ELSE <<PadSize(w, phys)>> \o from[w + PadSize(w, phys)]
  IN from[wm]

\* The shift by a negative count stops the tool.
Placeable(phys, u) ==
  /\ In(phys, u)
  /\ phys >= watermark[u]
  /\ watermark[u] < phys => PadSize(watermark[u], phys) # 0

\* InitSystem.allocate_fixed_objects.  It asserts that the requests are in
\* ascending order, which build_system sees to by sorting the pages.
AllocateFixed(phys, type) ==
  /\ phase = "build"
  /\ phys >= last_fixed
  /\ \E u \in DOMAIN Untyped :
       LET pads == Padding(watermark[u], phys)
       IN /\ Placeable(phys, u)
          /\ invocations' = invocations \o
               [n \in DOMAIN pads |-> RetypeOf(u, pads[n], cap_slot + (n - 1), 1)] \o
               <<RetypeOf(u, KernelSize[type], cap_slot + Len(pads), 1)>>
          /\ objects' = objects \o
               [n \in DOMAIN pads |-> [type |-> "untyped", phys |-> 0, fixed |-> FALSE]] \o
               <<[type |-> type, phys |-> phys, fixed |-> TRUE]>>
          /\ cap_slot' = cap_slot + Len(pads) + 1
          /\ watermark' = [watermark EXCEPT ![u] = phys + AllocSize[type]]
  /\ last_fixed' = phys + AllocSize[type]
  /\ UNCHANGED <<phase, allocation_point, free, placed>>

\* "not in any device untyped", "is below watermark", negative shift count.
CannotPlace(phys) ==
  /\ phase = "build"
  /\ phys >= last_fixed
  /\ \A u \in DOMAIN Untyped : ~Placeable(phys, u)
  /\ phase' = "error"
  /\ UNCHANGED <<tool, invocations, free, placed>>

-----------------------------------------------------------------------------
(* Boot: the monitor performs the retypes in the order they were generated. *)

StartBoot ==
  /\ phase = "build"
  /\ phase' = "boot"
  /\ UNCHANGED <<tool, invocations, free, placed>>

\* EXTERNAL: the kernel aligns its free pointer to the object size.
Start(r) == RoundUp(free[r.ut], r.size)
Room(r) == Start(r) + r.count * r.size <= Untyped[r.ut].end
Slots(r) == r.slot .. (r.slot + r.count - 1)
Fresh(r) == Slots(r) \cap DOMAIN placed = {}

\* A retype that has no room, or whose slots are in use, is an invocation
\* error: the monitor stops there.
Retype ==
  /\ phase = "boot" /\ invocations # <<>>
  /\ LET r == Head(invocations)
     IN /\ Room(r) /\ Fresh(r)
        /\ free' = [free EXCEPT ![r.ut] = Start(r) + r.count * r.size]
        /\ placed' = [s \in DOMAIN placed \cup Slots(r) |->
                        IF s \in DOMAIN placed THEN placed[s]
                        ELSE Start(r) + (s - r.slot) * r.size]
  /\ invocations' = Tail(invocations)
  /\ UNCHANGED <<phase, tool>>

Request ==
  /\ cap_slot <= MaxSlots
  /\ \/ \E t \in DOMAIN AllocSize, n \in Counts : AllocateObjects(t, n) \/ NoSpace(t, n)
     \/ \E f \in FixedPages : AllocateFixed(f[1], f[2]) \/ CannotPlace(f[1])

Next == Request \/ StartBoot \/ Retype

Spec == Init /\ [][Next]_vars

-----------------------------------------------------------------------------
(* Properties *)

(***************************************************************************)
(* Every retype of the tool succeeds at boot: whatever the kernel does     *)
(* with the untyped objects, there is room in the one the tool chose, and  *)
(* no slot is used twice.                                                  *)
(***************************************************************************)
RetypesSucceed ==
  phase = "boot" /\ invocations # <<>> =>
    Room(Head(invocations)) /\ Fresh(Head(invocations))

(***************************************************************************)
(* A page of a region with phys_addr is at that address: the padding       *)
(* objects moved the kernel's free pointer exactly there.                  *)
(***************************************************************************)
FixedWhereAsked ==
  \A s \in DOMAIN placed : objects[s].fixed => placed[s] = objects[s].phys

(***************************************************************************)
(* docs/manual.md:483 says of region_paddr "The symbol's value shall be    *)
(* updated to this MR's physical address": the address the tool computes   *)
(* for a page is the one it has.                                           *)
(***************************************************************************)
PageAddressesKnown ==
  \A s \in DOMAIN placed :
    objects[s].type = "page" => placed[s] = objects[s].phys
=============================================================================
