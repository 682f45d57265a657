------------------------------- MODULE MCImage -------------------------------
(***************************************************************************)
(* Small machines for TLC: a page is two units of memory, a table covers   *)
(* three pages.                                                            *)
(***************************************************************************)
EXTENDS MonitorBoot

Machine(devices, memories, image, boot, link, offset) ==
  [top |-> 64, devices |-> devices, memory |-> memories, image |-> image, boot |-> boot,
   link |-> link, offset |-> offset]

\* One bank of memory with the loader well behind all; a small bank before the
\* one with the kernel, and the loader close behind; the kernel in the middle
\* of a bank, the loader before it, and devices on both sides, in no order; and
\* a bank that is too small for some inputs, with the loader just behind the kernel.
\* The kernel is linked across two blocks, at the end of the last table, in the
\* middle of one, and at the start of the upper half.
MCMachines ==
  {Machine(<<0>>, <<MemoryRegion(4, 60)>>, MemoryRegion(4, 10), MemoryRegion(4, 6), 32, 234),
   Machine(<<60, 62>>, <<MemoryRegion(2, 6), MemoryRegion(8, 56)>>,
           MemoryRegion(8, 12), MemoryRegion(8, 10), 22, 312),
   Machine(<<26, 2, 62>>, <<MemoryRegion(6, 22), MemoryRegion(28, 58)>>,
           MemoryRegion(50, 54), MemoryRegion(50, 54), 28, 174),
   Machine(<<>>, <<MemoryRegion(8, 26)>>, MemoryRegion(8, 12), MemoryRegion(8, 10), 14, 162)}

\* Programs are linked at address 0 or, unaligned, at 1, a page below their
\* physical address; the long segment ends with a zero that is not in the file.
\* One has addresses that do not fall on pages alike, and takes one page more
\* than is counted for it.
Segments(pd, loadable) ==
  LET linked(virt, phys, filesz, len) ==
        [pd : {pd}, virt : {virt}, phys : {phys}, filesz : {filesz}, len : {len},
         loadable : loadable]
  IN UNION {linked(v, v + Page, f, 2 * f - 1) : v \in 0 .. 1, f \in 1 .. 2} \cup
     linked(1, 0, 1, 2)
Segment == Segments(1, BOOLEAN)
Other == Segments(2, {TRUE})
Symbol(pd, vaddr, size) == [pd |-> pd, vaddr |-> vaddr, size |-> size]

\* Symbols at the start, in the middle, and across the end of a segment.
MCPrograms ==
  {[segments |-> <<>>, symbols |-> <<>>]} \cup
  {[segments |-> <<s>>, symbols |-> <<Symbol(1, 0, 1), Symbol(1, 1, 2)>>] : s \in Segment} \cup
  {[segments |-> <<s, t>>, symbols |-> <<Symbol(2, 1, 1)>>] : s \in Segment, t \in Other}
=============================================================================
