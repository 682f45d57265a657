-------------------------------- MODULE Image --------------------------------
(***************************************************************************)
(* From the built system to the running kernel: the loop of main           *)
(* (tool/microkit/__main__.py) that builds until the sizes fit, the image  *)
(* the tool writes (tool/microkit/loader.py), and the loader on the board, *)
(* which copies the regions of the image and starts the kernel             *)
(* (loader/src/loader.c).                                                  *)
(***************************************************************************)
EXTENDS Bootstrap, BootTables

CONSTANTS
  ObjectCaps,   \* bound: number_of_system_caps of a build, after the bootstrap
  DataSizes,    \* bound: invocation_data_size of a build
  MaxUntypeds,  \* max_untyped_objects of the monitor
  BootstrapDataSize,   \* of its bootstrap_invocation_data, in words
  CodeSize      \* the loader without the headers of its regions

ASSUME DataAssumption == DataSizes \subseteq Nat

VARIABLES
  invocation_data,   \* len(system_invocation_data) of the last build
  regions,           \* Loader._regions: [base, len]
  memory,            \* what is at each address once the board is on
  copied             \* i of copy_data

imageVars == <<invocation_data, regions, memory, copied>>
allVars == <<vars, imageVars>>

ImageInit ==
  /\ Init
  /\ invocation_data = 0 /\ regions = <<>> /\ memory = <<>> /\ copied = 0

-----------------------------------------------------------------------------
(* main: build again with larger sizes until everything fits.               *)

\* Mutant: the invocation data may be larger than its table.
FitsCapsOnly(caps, size) == caps <= system_cnode_size

Fits(caps, size) == caps <= system_cnode_size /\ size <= invocation_table_size

\* number_of_system_caps
CapCounts == {BootstrapCaps + n : n \in ObjectCaps}

\* allocate_fixed_objects: each page of a segment is taken from the device
\* untyped object its first address is in.
CanPlacePages ==
  \A j \in DOMAIN segments : \A a \in segments[j].base .. segments[j].end - 1 :
    (a - segments[j].base) % Page = 0 =>
      \E u \in DOMAIN untyped_objects :
        /\ untyped_objects[u].device
        /\ a \in untyped_objects[u].region.base .. untyped_objects[u].region.end - 1
        /\ Watermark(u) <= a

CanBuild == CanBootstrap /\ CanPlacePages

BuildFits ==
  \E caps \in CapCounts, size \in DataSizes :
    /\ phase = "booted" /\ CanBuild /\ Fits(caps, size)
    /\ phase' = "built"
    /\ invocation_data' = size
    /\ UNCHANGED <<inputs, reserved_region, initial_task, segments, normal_memory,
                   device_memory, root_objects, untyped_objects, regions, memory, copied>>

PowerOfTwoAbove(n) == CHOOSE p \in PowersOfTwo : n <= p /\ p < 2 * n

\* Mutant: the new sizes replace the old ones, even if they are smaller.
BuildAgainLastSizes ==
  \E caps \in CapCounts, size \in DataSizes :
    /\ phase = "booted" /\ CanBuild /\ ~Fits(caps, size)
    /\ phase' = "start"
    /\ invocation_table_size' = RoundUp(size, Page)
    /\ system_cnode_size' = PowerOfTwoAbove(caps)
    /\ UNCHANGED <<machine, program, task_size, reserved_region, initial_task, segments,
                   normal_memory, device_memory, root_objects, untyped_objects, imageVars>>

\* Each build starts from nothing but its parameters; the sizes only grow.
BuildAgain ==
  \E caps \in CapCounts, size \in DataSizes :
    /\ phase = "booted" /\ CanBuild /\ ~Fits(caps, size)
    /\ phase' = "start"
    /\ invocation_table_size' = Max({invocation_table_size, RoundUp(size, Page)})
    /\ system_cnode_size' = Max({system_cnode_size, PowerOfTwoAbove(caps)})
    /\ UNCHANGED <<machine, program, task_size, reserved_region, initial_task, segments,
                   normal_memory, device_memory, root_objects, untyped_objects, imageVars>>

CannotBootstrap ==
  /\ phase = "booted" /\ ~CanBootstrap
  /\ phase' = "error"
  /\ UNCHANGED <<inputs, reserved_region, initial_task, segments, normal_memory, device_memory,
                 root_objects, untyped_objects, imageVars>>

\* "not in any device untyped": the segments have taken more pages than were
\* reserved for them.
CannotPlacePages ==
  /\ phase = "booted" /\ CanBootstrap /\ ~CanPlacePages
  /\ phase' = "error"
  /\ UNCHANGED <<inputs, reserved_region, initial_task, segments, normal_memory, device_memory,
                 root_objects, untyped_objects, imageVars>>

-----------------------------------------------------------------------------
(* Loader: the kernel, the monitor, the invocation table and the segments.   *)

RegionAt(base, len) == [base |-> base, len |-> len]
Bytes(region) == region.base .. region.base + region.len - 1

LoaderRegions ==
  <<RegionAt(machine.image.base, Size(machine.image)),
    RegionAt(initial_task.base, task_size),
    RegionAt(reserved_region.base, invocation_data)>>
  \o [i \in DOMAIN segments |-> RegionAt(segments[i].base, Loadable[i].len)]

\* _check_non_overlapping; an empty region overlaps if it starts inside another.
NonOverlapping(rs) ==
  \A i, j \in DOMAIN rs : j < i =>
    rs[i].base + rs[i].len <= rs[j].base \/ rs[j].base + rs[j].len <= rs[i].base

\* The k-th byte of region i, and of what is written to the n-th symbol; the
\* instructions and headers of the loader, whatever else is in memory, and 0.
Byte(i, k) == <<i, k>>
Patch(n, k) == <<-n, k>>
Loader == <<0, 0>>
Garbage == <<0, 1>>
Zero == <<0, 2>>

\* ElfFile.write_symbol: a symbol that is in no segment is not written at all.
InSegment(symbol, segment) ==
  /\ symbol.pd = segment.pd
  /\ symbol.vaddr >= segment.virt
  /\ symbol.vaddr + symbol.size <= segment.virt + segment.len

\* ElfFile.from_path: what the file has of a segment, filled up with zeros.
FromFile(i, k) == IF i > 3 /\ k >= Loadable[i - 3].filesz THEN Zero ELSE Byte(i, k)

\* Mutant: the regions of the segments are copies, made before the symbols are written.
ContentBefore(i) == [n \in 1 .. LoaderRegions[i].len |-> FromFile(i, n - 1)]

\* The data of a region; those of the segments are shared with the ELF files.
Content(i) ==
  LET written(n) ==
        {s \in DOMAIN program.symbols :
           /\ i > 3 /\ InSegment(program.symbols[s], Loadable[i - 3])
           /\ Loadable[i - 3].virt + n \in
                program.symbols[s].vaddr .. program.symbols[s].vaddr + program.symbols[s].size - 1}
  IN [k \in 1 .. LoaderRegions[i].len |->
        IF written(k - 1) = {} THEN FromFile(i, k - 1)
        ELSE LET s == Max(written(k - 1))
             IN Patch(s, Loadable[i - 3].virt + k - 1 - program.symbols[s].vaddr)]

\* write_image: the loader, a header for each region, and the data.
DataStart == machine.link + CodeSize + Len(regions)
File ==
  [n \in 1 .. CodeSize + Len(regions) |-> Loader]
  \o FlattenSeq([i \in DOMAIN regions |-> Content(i)])

\* Mutant: the offset is taken after the length of the region has been added.
OffsetAfter(i) == FoldLeft(LAMBDA sum, r : sum + r.len, 0, SubSeq(regions, 1, i))

\* Where the header of region i says that its data is, from DataStart.
Offset(i) == FoldLeft(LAMBDA sum, r : sum + r.len, 0, SubSeq(regions, 1, i - 1))

\* The addresses of the loader and its data, which follow its last section.
LoaderImage == machine.link .. machine.link + Len(File) - 1

\* What the monitor's own tables have room for.
MonitorFits ==
  /\ Len(untyped_objects) <= MaxUntypeds
  /\ Len(RawData(BootstrapInvocations)) <= BootstrapDataSize

MonitorTooSmall ==
  /\ phase = "built" /\ ~MonitorFits
  /\ phase' = "error"
  /\ UNCHANGED <<inputs, reserved_region, initial_task, segments, normal_memory, device_memory,
                 root_objects, untyped_objects, imageVars>>

\* The constructor stops with an exception if two regions overlap.
MakeImage ==
  /\ phase = "built" /\ MonitorFits
  /\ phase' = IF NonOverlapping(LoaderRegions) THEN "image" ELSE "overlap"
  /\ regions' = LoaderRegions
  /\ UNCHANGED <<inputs, reserved_region, initial_task, segments, normal_memory, device_memory,
                 root_objects, untyped_objects, invocation_data, memory, copied>>

-----------------------------------------------------------------------------
(* The loader on the board.                                                 *)

\* External: the boot loader of the board puts the image where it is linked.
PowerOn ==
  /\ phase = "image"
  /\ phase' = "copying"
  /\ memory' = [a \in 0 .. machine.top - 1 |->
       IF a \in LoaderImage THEN File[a - machine.link + 1] ELSE Garbage]
  /\ UNCHANGED <<inputs, reserved_region, initial_task, segments, normal_memory, device_memory,
                 root_objects, untyped_objects, invocation_data, regions, copied>>

LoaderWhole == \A a \in machine.link .. DataStart - 1 : memory[a] = Loader

\* memcpy goes upwards: a target in the source repeats what is before it.  What is
\* written where there is no memory is lost.
CopyRegion ==
  LET i == copied + 1
      to == regions[i].base
      from == DataStart + Offset(i)
      source(k) == IF from < to THEN from + (k % (to - from)) ELSE from + k
  IN /\ phase = "copying" /\ copied < Len(regions) /\ LoaderWhole
     /\ memory' = [a \in DOMAIN memory |->
                     IF a \in Bytes(regions[i]) \cap Addresses(machine.memory)
                     THEN memory[source(a - to)] ELSE memory[a]]
     /\ copied' = i
     /\ UNCHANGED <<vars, invocation_data, regions>>

StartKernel ==
  /\ phase = "copying" /\ copied = Len(regions) /\ LoaderWhole
  /\ phase' = "kernel"
  /\ UNCHANGED <<inputs, reserved_region, initial_task, segments, normal_memory, device_memory,
                 root_objects, untyped_objects, imageVars>>

\* The loader has copied a region over itself: anything may happen.
LoaderLost ==
  /\ phase = "copying" /\ ~LoaderWhole
  /\ phase' = "lost"
  /\ UNCHANGED <<inputs, reserved_region, initial_task, segments, normal_memory, device_memory,
                 root_objects, untyped_objects, imageVars>>

ImageNext ==
  \/ Next /\ UNCHANGED imageVars
  \/ BuildFits \/ BuildAgain \/ CannotBootstrap \/ CannotPlacePages \/ MonitorTooSmall \/ MakeImage
  \/ PowerOn \/ CopyRegion \/ StartKernel \/ LoaderLost

-----------------------------------------------------------------------------
(***************************************************************************)
(* What build_system places never collides: the check of the image for     *)
(* overlapping regions, "FIXME: Verify that the regions do not overlap!",  *)
(* does not find any.                                                      *)
(***************************************************************************)
ImageAccepted == phase # "overlap"

\* Nothing is copied to where the loader or its image lies.  No check of the
\* tool or the loader looks at this; the link address of the board decides it.
LoaderApart == \A i \in DOMAIN regions : Bytes(regions[i]) \cap LoaderImage = {}

(***************************************************************************)
(* When the kernel starts, every region is complete in memory where the    *)
(* tool has placed it, and but for the boot code of the kernel none of it  *)
(* lies in memory the kernel is going to give away as ordinary memory,     *)
(* provided that the loader is not in the way and that the segments are    *)
(* where they were meant to be.                                            *)
(***************************************************************************)
LoadedIntact ==
  regions # <<>> /\ LoaderApart /\ SegmentsCongruent =>
    /\ phase # "lost"
    /\ phase = "kernel" =>
         \A i \in DOMAIN regions :
           LET content == Content(i)
           IN \A a \in Bytes(regions[i]) :
                /\ memory[a] = content[a - regions[i].base + 1]
                /\ \A u \in Range(untyped_objects) :
                     ~u.device /\ a \in u.region.base .. u.region.end - 1
                       => a \in Addresses(<<machine.boot>>)

(***************************************************************************)
(* With the page tables of the image the loader finds itself where it was  *)
(* before the MMU was on, and the whole kernel is at the addresses it is   *)
(* linked for, wherever in memory it was put and however many blocks it    *)
(* takes, provided that it ends in the table it starts in.                 *)
(***************************************************************************)
KernelMapped ==
  phase = "kernel" /\ KernelInOneTable =>
    /\ \A a \in machine.image.base .. machine.image.end - 1 : MappedTo(a + kernel_p_v_offset, a)
    /\ \A a \in LoaderImage : a < Span(3) => MappedTo(a, a)

(***************************************************************************)
(* A variable of a program that the tool sets (microkit_name, passive and  *)
(* those of setvar elements) has its value in the memory that is mapped    *)
(* into the domain at the address of the variable, provided that it lies   *)
(* in a segment that is loaded, and that the segment is page aligned.  The *)
(* regions of the image are made before the symbols are written.           *)
(***************************************************************************)
VariablesSet ==
  phase = "kernel" /\ LoaderApart /\ SegmentsCongruent =>
    \A s \in DOMAIN program.symbols, j \in DOMAIN segments :
      LET symbol == program.symbols[s]
          segment == Loadable[j]
      IN InSegment(symbol, segment) /\ segment.virt % Page = 0 =>
           \A k \in 0 .. symbol.size - 1 :
             memory[segments[j].base + (symbol.vaddr - segment.virt) + k] = Patch(s, k)
=============================================================================
