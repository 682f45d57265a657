------------------------------ MODULE KernelBoot ------------------------------
(***************************************************************************)
(* Where things go in physical memory (tool/microkit/__main__.py, the      *)
(* first part of build_system, and emulate_kernel_boot of sel4.py): the    *)
(* reserved region with the invocation table and the programs, the         *)
(* monitor, the objects the kernel makes for itself, and the untyped       *)
(* objects that are left.  The tool emulates what the kernel will do.      *)
(***************************************************************************)
EXTENDS MemoryRegions

CONSTANTS
  Machines,     \* what kernel.elf and the board say: [top, devices, memory, image, boot,
                \* link (of the loader), offset (of virtual addresses of the kernel)]
  Programs,     \* the programs: the segments of all of them, in the order of the
                \* domains, [pd, virt, phys, filesz, len, loadable], and the symbols the
                \* tool writes to, [pd, vaddr, size]
  TaskSizes,    \* the size of the monitor
  Page,         \* minimum_page_size, also the frame size of the kernel
  MaxTable,     \* MAX_SYSTEM_INVOCATION_SIZE
  FixedRootSize, RootAlign,   \* of the objects the kernel makes for the monitor
  TaskVaddr,    \* the address the monitor is linked at
  TableSize,    \* the size of a page table
  Entries       \* and how many it has

Span(level) == Page * Entries ^ level   \* the memory a table of a level covers

ASSUME SizeAssumption ==
  /\ {Page, RootAlign} \cup TaskSizes \subseteq Nat \ {0}
  /\ {MaxTable, FixedRootSize, TaskVaddr, TableSize} \subseteq Nat
  /\ \A level \in 1 .. 3 : Span(level) \in Nat \ {0}

\* The image of the kernel lies in its memory and starts with the boot code;
\* its devices are different frames outside the memory.  The kernel is linked to
\* whole pages, and banks of memory start at one.
ASSUME MachineAssumption ==
  \A m \in Machines :
    /\ m.top \in Nat /\ m.image \in Region /\ m.boot \in Region
    /\ m.memory \in Seq(Region) /\ m.devices \in Seq(Nat)
    /\ m.image.base < m.image.end /\ m.image.base % Page = 0 /\ m.image.end % Page = 0
    /\ \A i \in DOMAIN m.memory :
         m.memory[i].base < m.memory[i].end /\ m.memory[i].base % Page = 0
    /\ Disjoint(m.memory) /\ Covers(m.memory, m.image)
    /\ m.boot.base = m.image.base /\ m.boot.end <= m.image.end
    /\ \A i \in DOMAIN m.devices :
         /\ m.devices[i] + Page <= m.top
         /\ \A a \in m.devices[i] .. m.devices[i] + Page - 1 : a \notin Addresses(m.memory)
         /\ \A j \in DOMAIN m.devices \ {i} :
              \/ m.devices[i] + Page <= m.devices[j]
              \/ m.devices[j] + Page <= m.devices[i]
    /\ \A a \in Addresses(m.memory) : a < m.top

ASSUME ProgramAssumption ==
  \A p \in Programs :
    p.segments \in
      Seq([pd: Nat, virt: Nat, phys: Nat, filesz: Nat, len: Nat, loadable: BOOLEAN])

VARIABLES
  phase,            \* of build_system; error when it stops
  machine, program, task_size,   \* the inputs
  invocation_table_size, system_cnode_size,   \* what main tries next
  reserved_region,  \* kept from the kernel: the table and the segments
  initial_task,     \* initial_task_phys_region
  segments,         \* where each loadable segment goes
  normal_memory, device_memory,   \* what emulate_kernel_boot leaves
  root_objects,     \* where it expects the objects the kernel makes
  untyped_objects   \* in the order of their capabilities

inputs == <<machine, program, task_size, invocation_table_size, system_cnode_size>>
vars == <<phase, inputs, reserved_region, initial_task, segments,
          normal_memory, device_memory, root_objects, untyped_objects>>

Nowhere == MemoryRegion(0, 0)

Init ==
  /\ phase = "start"
  /\ machine \in Machines /\ program \in Programs /\ task_size \in TaskSizes
  /\ invocation_table_size = Page /\ system_cnode_size = 2
  /\ reserved_region = Nowhere /\ initial_task = Nowhere /\ root_objects = Nowhere
  /\ segments = <<>> /\ untyped_objects = <<>>
  /\ normal_memory = <<>> /\ device_memory = <<>>

-----------------------------------------------------------------------------
(* _kernel_partial_boot: all addresses are device memory at first; the      *)
(* devices of the kernel are taken out, the memory is moved to the normal   *)
(* regions, and the image of the kernel is taken out of it.                 *)

PartialDevice ==
  LET frames == [i \in DOMAIN machine.devices |->
                   MemoryRegion(machine.devices[i], machine.devices[i] + Page)]
  IN FoldLeft(RemoveRegion, <<MemoryRegion(0, machine.top)>>, frames \o machine.memory)

PartialNormal ==
  RemoveRegion(FoldLeft(InsertRegion, <<>>, machine.memory), machine.image)

-----------------------------------------------------------------------------
(* build_system *)

\* Mutant: the end of a segment is not rounded up.
PagesOfSegmentRoundedDown(segment) ==
  MemoryRegion(RoundDown(segment.phys, Page), RoundDown(segment.phys + segment.len, Page))

PagesOfSegment(segment) ==
  MemoryRegion(RoundDown(segment.phys, Page), RoundUp(segment.phys + segment.len, Page))

\* phys_mem_regions_from_elf: every segment counts, loadable or not.
ReservedSize ==
  FoldLeft(LAMBDA sum, segment : sum + Size(PagesOfSegment(segment)),
           invocation_table_size, program.segments)

\* The loadable segments, in the order of the programs.
KeepLoadable(kept, segment) == IF segment.loadable THEN Append(kept, segment) ELSE kept
Loadable == FoldLeft(KeepLoadable, <<>>, program.segments)

\* They follow the table, each on pages of its own, as many as it takes where
\* it is mapped.
PlaceSegment(placed, segment) ==
  LET aligned_size == RoundUp(segment.virt + segment.len, Page) - RoundDown(segment.virt, Page)
      end == placed.phys_addr_next + aligned_size
  IN IF ~segment.loadable THEN placed
     ELSE [phys_addr_next |-> end,
           regions |-> Append(placed.regions, MemoryRegion(placed.phys_addr_next, end))]
PlaceSegments(start) ==
  FoldLeft(PlaceSegment, [phys_addr_next |-> start, regions |-> <<>>], program.segments).regions

\* available_memory.allocate for both, and the assertions.
Reserved == Allocated(PartialNormal, ReservedSize)
Available == RemoveRegion(PartialNormal, Reserved)
Task == Allocated(Available, RoundUp(task_size, Page))

PowersOfTwo == {2 ^ b : b \in 0 .. 20}

CanReserve ==
  /\ system_cnode_size \in PowersOfTwo
  /\ invocation_table_size % Page = 0 /\ invocation_table_size <= MaxTable
  /\ CanAllocate(PartialNormal, ReservedSize)
  /\ CanAllocate(Available, RoundUp(task_size, Page))
  /\ Reserved.base < Task.base

Reserve ==
  /\ phase = "start" /\ CanReserve
  /\ phase' = "reserved"
  /\ reserved_region' = Reserved
  /\ initial_task' = Task
  /\ segments' = PlaceSegments(Reserved.base + invocation_table_size)
  /\ UNCHANGED <<inputs, normal_memory, device_memory, root_objects, untyped_objects>>

CannotReserve ==
  /\ phase = "start" /\ ~CanReserve
  /\ phase' = "error"
  /\ UNCHANGED <<inputs, reserved_region, initial_task, segments, normal_memory,
                 device_memory, root_objects, untyped_objects>>

-----------------------------------------------------------------------------
(* emulate_kernel_boot *)

TaskVirtual == MemoryRegion(TaskVaddr, TaskVaddr + RoundUp(task_size, Page))

\* The tables of a level that a region needs.
TablesFor(region, level) ==
  (RoundUp(region.end, Span(level)) - RoundDown(region.base, Span(level))) \div Span(level)
PagingCaps == TablesFor(TaskVirtual, 1) + TablesFor(TaskVirtual, 2) + TablesFor(TaskVirtual, 3)
RootSize == FixedRootSize + PagingCaps * TableSize

\* Mutant: the reserved region is not taken out.
LeftForKernelWithReserved == RemoveRegion(PartialNormal, initial_task)

LeftForKernel == RemoveRegion(RemoveRegion(PartialNormal, initial_task), reserved_region)

\* The objects of the monitor go as high as possible.
RootStart(region) == RoundDown(region.end - RootSize, RootAlign)
RootRegion ==
  SelectLastInSeq(LeftForKernel, LAMBDA region : RootStart(region) >= region.base)

EmulateKernelBoot ==
  LET start == RootStart(LeftForKernel[RootRegion])
      root == MemoryRegion(start, start + RootSize)
      normal == RemoveRegion(LeftForKernel, root)
  IN /\ phase = "reserved" /\ RootRegion # 0
     /\ phase' = "booted"
     /\ root_objects' = root
     /\ normal_memory' = normal
     /\ device_memory' = PartialDevice
     /\ untyped_objects' =
          LET devices == AlignedPowerOfTwoRegions(reserved_region) \o AllAlignedRegions(PartialDevice)
              normals == AlignedPowerOfTwoRegions(machine.boot) \o AllAlignedRegions(normal)
          IN [i \in 1 .. Len(devices) + Len(normals) |->
                [region |-> (devices \o normals)[i], device |-> i <= Len(devices)]]
     /\ UNCHANGED <<inputs, reserved_region, initial_task, segments>>

NoRoomForKernel ==
  /\ phase = "reserved" /\ RootRegion = 0
  /\ phase' = "error"
  /\ UNCHANGED <<inputs, reserved_region, initial_task, segments, normal_memory,
                 device_memory, root_objects, untyped_objects>>

Next == Reserve \/ CannotReserve \/ EmulateKernelBoot \/ NoRoomForKernel

-----------------------------------------------------------------------------
\* The phases from the end of build_system on; the first is its own, the others
\* are those of what uses its results.
Placed == {"booted", "built", "copying", "kernel", "bootstrap", "system"}

(***************************************************************************)
(* What is in use once the kernel has booted: its image, the monitor, the  *)
(* reserved region and the objects of the kernel have no address in        *)
(* common.  (The boot code of the image is given back.)                    *)
(***************************************************************************)
InUse == <<machine.image, initial_task, reserved_region, root_objects>>
NothingShared ==
  phase \in Placed =>
    \A i, j \in DOMAIN InUse : i # j =>
      InUse[i].end <= InUse[j].base \/ InUse[j].end <= InUse[i].base

(***************************************************************************)
(* The sorted sequences of regions, after all the insertions, removals and *)
(* splits, hold exactly the addresses they should: normal memory is the    *)
(* memory that is not in use, device memory all that is neither memory nor *)
(* a device of the kernel.                                                 *)
(***************************************************************************)
RegionsExact ==
  phase \in Placed =>
    LET memory == Addresses(machine.memory)
        kernel == UNION {p .. p + Page - 1 : p \in Range(machine.devices)}
    IN /\ Disjoint(normal_memory) /\ Disjoint(device_memory)
       /\ Addresses(normal_memory) = memory \ Addresses(InUse)
       /\ Addresses(device_memory) = (0 .. machine.top - 1) \ (memory \cup kernel)

(***************************************************************************)
(* The untyped objects cut the free memory into aligned powers of two:     *)
(* each address is in one of them and only one, and what the kernel will   *)
(* treat as device memory is not ordinary memory, but for the reserved     *)
(* region.                                                                 *)
(***************************************************************************)
UntypedsPartition ==
  phase \in Placed =>
    LET of(device) == {u \in Range(untyped_objects) : u.device = device}
        cells(us) == UNION {u.region.base .. u.region.end - 1 : u \in us}
    IN /\ \A u, v \in Range(untyped_objects) : u # v =>
            u.region.end <= v.region.base \/ v.region.end <= u.region.base
       /\ \A u \in Range(untyped_objects) :
            /\ \E b \in 0 .. Size(u.region) : Size(u.region) = TwoTo[b]
            /\ u.region.base % Size(u.region) = 0
       /\ cells(of(TRUE)) = Addresses(device_memory) \cup Addresses(<<reserved_region>>)
       /\ cells(of(FALSE)) = Addresses(normal_memory) \cup Addresses(<<machine.boot>>)

\* The region is sized by physical addresses and filled by virtual ones, which
\* the file gives independently; nothing checks that they fall on pages alike.
SegmentsCongruent ==
  \A i \in DOMAIN program.segments :
    LET segment == program.segments[i]
    IN segment.loadable => segment.virt % Page = segment.phys % Page

(***************************************************************************)
(* The segments of the programs do not overlap each other or the           *)
(* invocation table, and the reserved region is large enough for all,      *)
(* provided that virtual and physical addresses fall on pages alike.       *)
(***************************************************************************)
SegmentsFit ==
  phase \in Placed \cup {"reserved"} =>
    /\ Disjoint(segments)
    /\ \A i \in DOMAIN segments :
         /\ reserved_region.base + invocation_table_size <= segments[i].base
         /\ SegmentsCongruent => segments[i].end <= reserved_region.end
=============================================================================
