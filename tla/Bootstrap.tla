------------------------------ MODULE Bootstrap -------------------------------
(***************************************************************************)
(* The invocations that make room for all the others (the second part of   *)
(* build_system, tool/microkit/__main__.py): the monitor's CSpace becomes  *)
(* a root CNode with its first CNode and the system CNode below it, and    *)
(* the pages of the invocation table are mapped into its address space.    *)
(***************************************************************************)
EXTENDS KernelBoot, Invocations

CONSTANTS
  FanOut,      \* fan_out_limit
  SlotSize,    \* of a CNode
  TableVaddr   \* where the monitor expects the invocation table

ASSUME TableAssumption ==
  /\ FanOut \in Nat \ {0}
  /\ TableVaddr % Span(1) = 0

SEL4_CNODE_OBJECT == Word(4)
SEL4_SMALL_PAGE_OBJECT == Word(10)
SEL4_PAGE_TABLE_OBJECT == Word(12)

INIT_CNODE_BITS == 12
ROOT_CNODE_BITS == 1
CAP_ADDRESS_BITS == 64

-----------------------------------------------------------------------------
(* KernelBootInfo: the capabilities are numbered as the kernel does it: the *)
(* fixed ones, the tables of the monitor, the scheduling control, the pages *)
(* of the monitor, and the untyped objects.                                 *)

FIXED_CAPS == 15
FirstUntypedCap == FIXED_CAPS + PagingCaps + 1 + Size(TaskVirtual) \div Page
UntypedCap(u) == Word(FirstUntypedCap + u - 1)
FirstAvailableCap == FirstUntypedCap + Len(untyped_objects)

RootCNodeCap == Word(FirstAvailableCap)
SystemCNodeCap == Word(FirstAvailableCap + 1)

-----------------------------------------------------------------------------
(* KernelObjectAllocator.alloc, from the points the allocations have got to *)
(* in the normal untyped objects.                                           *)

NoAllocations ==
  [u \in {u \in DOMAIN untyped_objects : ~untyped_objects[u].device} |->
     untyped_objects[u].region.base]

WithRoom(points, size, count) ==
  {u \in DOMAIN points :
     RoundUp(points[u], size) + count * size <= untyped_objects[u].region.end}

CanAlloc(points, size, count) == size \in PowersOfTwo /\ WithRoom(points, size, count) # {}

FirstWithRoom(points, size, count) == Min(WithRoom(points, size, count))

Alloc(points, size, count) ==
  LET u == FirstWithRoom(points, size, count)
  IN [points EXCEPT ![u] = RoundUp(points[u], size) + count * size]

\* The three allocations of the bootstrap.
RootCNodeSize == 2 ^ ROOT_CNODE_BITS * SlotSize
SystemCNodeSize == system_cnode_size * SlotSize
TablesRequired == RoundUp(invocation_table_size, Span(1)) \div Span(1)
AfterRoot == Alloc(NoAllocations, RootCNodeSize, 1)
AfterSystem == Alloc(AfterRoot, SystemCNodeSize, 1)
AllocationPoints == Alloc(AfterSystem, TableSize, TablesRequired)

-----------------------------------------------------------------------------
(* The pages of the table come from the first device untyped objects, which *)
(* are the aligned parts of the reserved region.                            *)

PagesRequired == invocation_table_size \div Page

\* How many of them are left when the untyped object is reached.
RemainingPages(u) ==
  PagesRequired - FoldLeft(LAMBDA sum, v : sum + Size(v.region) \div Page, 0,
                           SubSeq(untyped_objects, 1, u - 1))

TableUntypeds ==
  SelectSeq([u \in DOMAIN untyped_objects |-> u],
            LAMBDA u : untyped_objects[u].device /\ RemainingPages(u) > 0)

RetypedPages(u) == Min({Size(untyped_objects[u].region) \div Page, RemainingPages(u)})

\* Mutant: the reservation is forgotten.
WatermarkUnmoved(u) == untyped_objects[u].region.base

\* _device_untyped[].watermark after InitSystem.reserve.
Watermark(u) ==
  untyped_objects[u].region.base + IF u \in Range(TableUntypeds) THEN RetypedPages(u) * Page ELSE 0

\* Everything that makes build_system stop in this part.
CanBootstrap ==
  /\ CanAlloc(NoAllocations, RootCNodeSize, 1)
  /\ CanAlloc(AfterRoot, SystemCNodeSize, 1)
  /\ CanAlloc(AfterSystem, TableSize, TablesRequired)
  /\ \A u \in Range(TableUntypeds) : RetypedPages(u) <= FanOut
  /\ TablesRequired <= FanOut

\* cap_slot when the objects of the system are allocated.
BootstrapCaps == PagesRequired + TablesRequired

-----------------------------------------------------------------------------
(* The invocations *)

Retype(untyped, object_type, size_bits, root, node_index, node_depth, node_offset, num_objects) ==
  Invoke("UntypedRetype",
         [untyped |-> untyped, object_type |-> object_type, size_bits |-> Word(size_bits),
          root |-> root, node_index |-> Word(node_index), node_depth |-> Word(node_depth),
          node_offset |-> Word(node_offset), num_objects |-> Word(num_objects)])

SystemCNodeBits == CHOOSE b \in 0 .. 20 : 2 ^ b = system_cnode_size

\* Mutant: the bit the root CNode takes is forgotten in the guard.
MintIntoRootGuard(slot, cnode, bits) ==
  Invoke("Mint", [cnode |-> RootCNodeCap, dest_index |-> Word(slot),
                  dest_depth |-> Word(ROOT_CNODE_BITS), src_root |-> INIT_CNODE,
                  src_obj |-> cnode, src_depth |-> Word(CAP_ADDRESS_BITS), rights |-> RIGHTS_ALL,
                  badge |-> Word(CAP_ADDRESS_BITS - bits)])

\* Into a slot of the root CNode, padded by a guard to the full address.
MintIntoRoot(slot, cnode, bits) ==
  Invoke("Mint", [cnode |-> RootCNodeCap, dest_index |-> Word(slot),
                  dest_depth |-> Word(ROOT_CNODE_BITS), src_root |-> INIT_CNODE,
                  src_obj |-> cnode, src_depth |-> Word(CAP_ADDRESS_BITS), rights |-> RIGHTS_ALL,
                  badge |-> Word(CAP_ADDRESS_BITS - ROOT_CNODE_BITS - bits)])

NewCNode(points, size, bits, cap) ==
  Retype(UntypedCap(FirstWithRoom(points, size, 1)), SEL4_CNODE_OBJECT, bits, INIT_CNODE, 0, 0,
         cap.low, 1)

SetRoot ==
  Invoke("SetSpace", [tcb |-> INIT_TCB, fault_ep |-> INIT_NULL, cspace_root |-> RootCNodeCap,
                      cspace_root_data |-> Word(0), vspace_root |-> INIT_VSPACE,
                      vspace_root_data |-> Word(0)])

\* Mutant: the root is switched before the initial CNode is below it.
CSpaceSwitchedFirst ==
  <<NewCNode(NoAllocations, RootCNodeSize, ROOT_CNODE_BITS, RootCNodeCap),
    SetRoot,
    MintIntoRoot(0, INIT_CNODE, INIT_CNODE_BITS),
    NewCNode(AfterRoot, SystemCNodeSize, SystemCNodeBits, SystemCNodeCap),
    MintIntoRoot(1, SystemCNodeCap, SystemCNodeBits)>>

CSpace ==
  <<NewCNode(NoAllocations, RootCNodeSize, ROOT_CNODE_BITS, RootCNodeCap),
    MintIntoRoot(0, INIT_CNODE, INIT_CNODE_BITS),
    SetRoot,
    NewCNode(AfterRoot, SystemCNodeSize, SystemCNodeBits, SystemCNodeCap),
    MintIntoRoot(1, SystemCNodeCap, SystemCNodeBits)>>

IntoSystemCNode(untyped, object_type, slot, count) ==
  Retype(untyped, object_type, 0, RootCNodeCap, 1, 1, slot, count)

\* Mutant: the slots are counted from the pages that are left.
TablePagesFromLast ==
  [n \in DOMAIN TableUntypeds |->
     LET u == TableUntypeds[n]
     IN IntoSystemCNode(UntypedCap(u), SEL4_SMALL_PAGE_OBJECT,
                        RemainingPages(u) - RetypedPages(u), RetypedPages(u))]

TablePages ==
  [n \in DOMAIN TableUntypeds |->
     LET u == TableUntypeds[n]
     IN IntoSystemCNode(UntypedCap(u), SEL4_SMALL_PAGE_OBJECT,
                        PagesRequired - RemainingPages(u), RetypedPages(u))]

PageTables ==
  <<IntoSystemCNode(UntypedCap(FirstWithRoom(AfterSystem, TableSize, TablesRequired)),
                    SEL4_PAGE_TABLE_OBJECT, PagesRequired, TablesRequired)>>

MapTable ==
  <<Repeat(Invoke("PageTableMap", [page_table |-> At(PagesRequired), vspace |-> INIT_VSPACE,
                                   vaddr |-> Word(TableVaddr), attr |-> DEFAULT_VMATTRIBUTES]),
           TablesRequired, "page_table" :> 1 @@ "vaddr" :> Span(1)),
    Repeat(Invoke("PageMap", [page |-> At(0), vspace |-> INIT_VSPACE, vaddr |-> Word(TableVaddr),
                              rights |-> Bit(READ),
                              attr |-> Or(DEFAULT_VMATTRIBUTES, Bit(EXECUTE_NEVER))]),
           PagesRequired, "page" :> 1 @@ "vaddr" :> Page)>>

BootstrapInvocations == CSpace \o TablePages \o PageTables \o MapTable
=============================================================================
