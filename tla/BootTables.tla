------------------------------ MODULE BootTables ------------------------------
(***************************************************************************)
(* The page tables the tool writes into the loader (_setup_pagetables of   *)
(* tool/microkit/loader.py).  The loader switches the MMU on with them     *)
(* while it runs, and jumps to the kernel at its virtual address.          *)
(*                                                                         *)
(* The upper half of the virtual addresses follows the lower half, each of *)
(* Span(4), where the machine has a gap of unused addresses.               *)
(***************************************************************************)
EXTENDS KernelBoot

LowerHalf == 0 .. Span(4) - 1

kernel_first_paddr == machine.image.base
kernel_p_v_offset == machine.offset
kernel_first_vaddr == kernel_first_paddr + kernel_p_v_offset

\* lvl2_index, lvl1_index and lvl0_index are those of levels 1, 2 and 3.
Index(level, addr) == (addr \div Span(level)) % Entries

Table(name) == [kind |-> "table", at |-> name]
Block(addr) == [kind |-> "block", at |-> addr]
Invalid == [kind |-> "invalid"]

\* A table with one entry that is not zero.
OneEntry(index, entry) == [i \in 0 .. Entries - 1 |-> IF i = index THEN entry ELSE Invalid]

\* Mutant: the first block of the kernel is the first entry of the table.
UpperBlocksFromZero == [i \in 0 .. Entries - 1 |-> Block(kernel_first_paddr + i * Span(1))]

\* From the block of the kernel's first address to the end of the table.
UpperBlocks ==
  LET first == Index(1, kernel_first_vaddr)
  IN [i \in 0 .. Entries - 1 |->
        IF i < first THEN Invalid ELSE Block(kernel_first_paddr + (i - first) * Span(1))]

pagetable_vars ==
  [boot_lvl0_lower |-> OneEntry(0, Table("boot_lvl1_lower")),
   boot_lvl1_lower |-> [i \in 0 .. Entries - 1 |-> Block(i * Span(2))],
   boot_lvl0_upper |-> OneEntry(Index(3, kernel_first_vaddr), Table("boot_lvl1_upper")),
   boot_lvl1_upper |-> OneEntry(Index(2, kernel_first_vaddr), Table("boot_lvl2_upper")),
   boot_lvl2_upper |-> UpperBlocks]

\* External: the MMU reads an entry of each level until it meets a block, which
\* starts where its address, rounded down, says.
Walk(vaddr) ==
  LET root == IF vaddr \in LowerHalf THEN "boot_lvl0_lower" ELSE "boot_lvl0_upper"
      read(seen, level) ==
        IF seen.kind # "table" THEN seen
        ELSE LET entry == pagetable_vars[seen.at][Index(level, vaddr)]
             IN IF entry.kind # "block" THEN entry
                ELSE [kind |-> "address",
                      at |-> RoundDown(entry.at, Span(level)) + (vaddr % Span(level))]
  IN FoldLeft(read, Table(root), <<3, 2, 1>>)

MappedTo(vaddr, paddr) == Walk(vaddr) = [kind |-> "address", at |-> paddr]

\* What nothing in the tool checks, and what it never uses kernel_last_vaddr for:
\* the kernel ends in the table it starts in, and blocks are mapped to blocks.
KernelInOneTable ==
  /\ kernel_p_v_offset % Span(1) = 0
  /\ RoundDown(kernel_first_vaddr, Span(2))
       = RoundDown(kernel_first_vaddr + Size(machine.image) - 1, Span(2))
=============================================================================
