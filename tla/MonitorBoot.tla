----------------------------- MODULE MonitorBoot ------------------------------
(***************************************************************************)
(* The monitor from its start until the invocation table is in its address *)
(* space (monitor/src/main.c, main): it compares the untyped objects of    *)
(* the kernel with those the tool has expected, and performs the bootstrap *)
(* invocations.  That it reads them as they are meant is a property of     *)
(* Boot; here the calls are taken as the tool means them.                  *)
(***************************************************************************)
EXTENDS Image

VARIABLES
  idx, i,   \* the bootstrap invocation being performed, and its iteration
  kernel    \* EXTERNAL: what the kernel keeps for the monitor

bootVars == <<idx, i, kernel>>
systemVars == <<allVars, bootVars>>

-----------------------------------------------------------------------------
(* EXTERNAL: the capabilities and the address space of the monitor.        *)
(*                                                                         *)
(*   kernel.root      the capability to the CNode at the root of the CSpace *)
(*   kernel.cnodes    of each CNode, by its physical address: [bits, slots] *)
(*   kernel.free      where each untyped object is free                     *)
(*   kernel.tables    the tables of the address space, <<level, vaddr>>     *)
(*   kernel.pages     and its pages, with their physical addresses          *)
(*   kernel.mapped    the new tables and pages that are mapped              *)

CNode(of, guard) == [type |-> "cnode", of |-> of, guard |-> guard]
Object(type, of) == [type |-> type, of |-> of, guard |-> 0]
Null == Object("null", 0)

InitCNode == root_objects.base   \* the first of the objects of the kernel

\* After the boot of the kernel.
BootedKernel ==
  LET first == CNode(InitCNode, CAP_ADDRESS_BITS - INIT_CNODE_BITS)
      bases(level) == {<<level, v - (v % Span(level))>> :
                         v \in TaskVirtual.base .. TaskVirtual.end - 1}
  IN [root   |-> first,
      cnodes |-> InitCNode :>
        [bits  |-> INIT_CNODE_BITS,
         slots |-> 1 :> Object("tcb", 0) @@ 2 :> first @@ 3 :> Object("vspace", 0) @@
                   [s \in FirstUntypedCap .. FirstAvailableCap - 1 |->
                      Object("untyped", s - FirstUntypedCap + 1)]],
      free   |-> [u \in DOMAIN untyped_objects |-> untyped_objects[u].region.base],
      tables |-> bases(1) \cup bases(2) \cup bases(3),
      pages  |-> [v \in {v \in TaskVirtual.base .. TaskVirtual.end - 1 : v % Page = 0} |->
                    initial_task.base + (v - TaskVirtual.base)],
      mapped |-> {}]

NoSlot == [cnode |-> -1, slot |-> 0, left |-> 0]

\* The slot the first of the given bits of an address lead to below a CNode, and
\* how many bits are left.
Resolve(k, cap, address, depth) ==
  LET bits == {b \in BitsOf(address) : b < depth}
      left == depth - cap.guard - k.cnodes[cap.of].bits
  IN IF cap.type # "cnode" \/ left < 0 \/ \E b \in bits : b >= depth - cap.guard
     THEN NoSlot
     ELSE [cnode |-> cap.of, left |-> left,
           slot |-> MapThenSumSet(LAMBDA b : 2 ^ (b - left),
                                  {b \in bits : b >= left /\ b < depth - cap.guard})]

CapIn(k, place) ==
  IF place # NoSlot /\ place.slot \in DOMAIN k.cnodes[place.cnode].slots
  THEN k.cnodes[place.cnode].slots[place.slot] ELSE Null

\* All the bits of an address, below a CNode; two levels are enough.
AllUsed(place) == IF place.left = 0 THEN place ELSE NoSlot
Below(k, place, address) ==
  IF place.left = 0 THEN place ELSE AllUsed(Resolve(k, CapIn(k, place), address, place.left))
Lookup(k, cap, address, depth) == Below(k, Resolve(k, cap, address, depth), address)

At64(k, address) == Lookup(k, k.root, address, CAP_ADDRESS_BITS)
CapAt(k, address) == CapIn(k, At64(k, address))

\* The kernel after a call, or that it has returned an error.
Refused == <<>>
If(legal, next) == IF legal THEN next ELSE Refused

Empty(k, cnode, slots) ==
  /\ slots \subseteq 0 .. 2 ^ k.cnodes[cnode].bits - 1
  /\ slots \cap DOMAIN k.cnodes[cnode].slots = {}

ObjectSize(type, bits) ==
  CASE type = SEL4_CNODE_OBJECT      -> 2 ^ bits * SlotSize
    [] type = SEL4_SMALL_PAGE_OBJECT -> Page
    [] type = SEL4_PAGE_TABLE_OBJECT -> TableSize

TypeName(type) ==
  CASE type = SEL4_CNODE_OBJECT -> "cnode" [] type = SEL4_SMALL_PAGE_OBJECT -> "page"
    [] type = SEL4_PAGE_TABLE_OBJECT -> "table"

\* The CNode the new capabilities go to is found from another one, or is that one.
Destination(k, a) ==
  LET root == CapAt(k, a.root)
  IN IF a.node_depth = Word(0) THEN root
     ELSE LET place == Lookup(k, root, a.node_index, a.node_depth.low)
          IN IF root.type = "cnode" /\ place # NoSlot THEN CapIn(k, place) ELSE Null

KRetype(k, a) ==
  LET untyped == CapAt(k, a.untyped)
      to == Destination(k, a)
      size == ObjectSize(a.object_type, a.size_bits.low)
      count == a.num_objects.low
      slots == a.node_offset.low .. a.node_offset.low + count - 1
  IN IF untyped.type # "untyped" \/ to.type # "cnode" THEN Refused
     ELSE LET u == untyped_objects[untyped.of]
              start == RoundUp(k.free[untyped.of], size)
              new == [s \in slots |-> Object(TypeName(a.object_type),
                                             start + (s - a.node_offset.low) * size)]
          IN If(/\ count \in 1 .. FanOut /\ Empty(k, to.of, slots)
                /\ u.device => a.object_type = SEL4_SMALL_PAGE_OBJECT
                /\ start + count * size <= u.region.end,
                [k EXCEPT !.free[untyped.of] = start + count * size,
                          !.cnodes = [@ EXCEPT ![to.of].slots = @ @@ new] @@
                             (IF a.object_type = SEL4_CNODE_OBJECT
                              THEN start :> [bits |-> a.size_bits.low, slots |-> <<>>] ELSE <<>>)])

\* The badge of a CNode is a guard of zeroes.
KMint(k, a) ==
  LET cnode == CapAt(k, a.cnode)
      root == CapAt(k, a.src_root)
  IN IF cnode.type # "cnode" \/ root.type # "cnode" THEN Refused
     ELSE LET to == Lookup(k, cnode, a.dest_index, a.dest_depth.low)
              from == Lookup(k, root, a.src_obj, a.src_depth.low)
          IN IF to = NoSlot \/ from = NoSlot THEN Refused
             ELSE If(Empty(k, to.cnode, {to.slot}) /\ CapIn(k, from).type = "cnode",
                     [k EXCEPT !.cnodes[to.cnode].slots = @ @@
                                 (to.slot :> [CapIn(k, from) EXCEPT !.guard = a.badge.low])])

KSetSpace(k, a) ==
  If(/\ CapAt(k, a.tcb).type = "tcb" /\ CapAt(k, a.fault_ep) = Null
     /\ CapAt(k, a.cspace_root).type = "cnode" /\ CapAt(k, a.vspace_root).type = "vspace",
     [k EXCEPT !.root = CapAt(k, a.cspace_root)])

KPageTableMap(k, a) ==
  LET table(level) == <<level, a.vaddr.low - (a.vaddr.low % Span(level))>>
      cap == CapAt(k, a.page_table)
  IN If(/\ cap.type = "table" /\ cap.of \notin k.mapped /\ CapAt(k, a.vspace).type = "vspace"
        /\ table(2) \in k.tables /\ table(1) \notin k.tables,
        [k EXCEPT !.tables = @ \cup {table(1)}, !.mapped = @ \cup {cap.of}])

KPageMap(k, a) ==
  LET cap == CapAt(k, a.page)
  IN If(/\ cap.type = "page" /\ cap.of \notin k.mapped /\ CapAt(k, a.vspace).type = "vspace"
        /\ a.vaddr.low % Page = 0 /\ a.vaddr.low \notin DOMAIN k.pages
        /\ <<1, a.vaddr.low - (a.vaddr.low % Span(1))>> \in k.tables,
        [k EXCEPT !.pages = @ @@ (a.vaddr.low :> cap.of), !.mapped = @ \cup {cap.of}])

KernelCall(k, op, a) ==
  CASE op = "UntypedRetype" -> KRetype(k, a)
    [] op = "Mint"          -> KMint(k, a)
    [] op = "SetSpace"      -> KSetSpace(k, a)
    [] op = "PageTableMap"  -> KPageTableMap(k, a)
    [] op = "PageMap"       -> KPageMap(k, a)

-----------------------------------------------------------------------------
BootInit ==
  /\ ImageInit
  /\ idx = 0 /\ i = 0 /\ kernel = <<>>

\* check_untypeds_match: a kernel that has other untyped objects than the tool
\* expected is not worked with.
StartMonitor ==
  \E match \in BOOLEAN :
    /\ phase = "kernel"
    /\ phase' = IF match THEN "bootstrap" ELSE "mismatch"
    /\ idx' = 1 /\ i' = 0
    /\ kernel' = BootedKernel
    /\ UNCHANGED <<inputs, reserved_region, initial_task, segments, normal_memory, device_memory,
                   root_objects, untyped_objects, imageVars>>

PerformedCall == Repetition(BootstrapInvocations[idx], i)

\* An error of the kernel ends the monitor, "invocation error".
PerformInvocation ==
  /\ phase = "bootstrap" /\ idx <= Len(BootstrapInvocations)
  /\ kernel' = KernelCall(kernel, PerformedCall.op, PerformedCall.args)
  /\ phase' = IF kernel' = Refused THEN "failed" ELSE phase
  /\ IF i + 1 < BootstrapInvocations[idx].count
     THEN i' = i + 1 /\ UNCHANGED idx
     ELSE i' = 0 /\ idx' = idx + 1
  /\ UNCHANGED <<inputs, reserved_region, initial_task, segments, normal_memory, device_memory,
                 root_objects, untyped_objects, imageVars>>

\* "completed bootstrap invocations"
BootstrapDone ==
  /\ phase = "bootstrap" /\ idx > Len(BootstrapInvocations)
  /\ phase' = "system"
  /\ UNCHANGED <<inputs, reserved_region, initial_task, segments, normal_memory, device_memory,
                 root_objects, untyped_objects, imageVars, bootVars>>

BootNext ==
  \/ ImageNext /\ UNCHANGED bootVars
  \/ StartMonitor \/ PerformInvocation \/ BootstrapDone

\* The tool, the loader and the monitor are sequential programs that run until
\* they end: weak fairness of BootNext, with its ENABLED written out.
Ended == phase \in {"error", "overlap", "lost", "mismatch", "failed", "system"}
Runs == []<>Ended \/ []<><<BootNext>>_systemVars

BootSpec == BootInit /\ [][BootNext]_systemVars /\ Runs

-----------------------------------------------------------------------------
(***************************************************************************)
(* The kernel refuses none of the bootstrap invocations: what the tool has *)
(* worked out of the slots and the memory of a kernel that is not running  *)
(* yet is right, and the address of the table has a directory and is free. *)
(***************************************************************************)
BootstrapCompletes == phase # "failed"

(***************************************************************************)
(* However the CSpace of the monitor is rebuilt under its feet, the first  *)
(* capabilities keep their addresses: the lengths of the guards add up.    *)
(* At the end every slot of the system CNode has the address the tool      *)
(* gives it, with the top bit set.                                         *)
(***************************************************************************)
AddressesKept ==
  /\ phase \in {"bootstrap", "system"} =>
       \A s \in DOMAIN kernel.cnodes[InitCNode].slots :
         At64(kernel, Word(s)) = [cnode |-> InitCNode, slot |-> s, left |-> 0]
  /\ phase = "system" =>
       \A s \in 0 .. system_cnode_size - 1 :
         LET place == At64(kernel, At(s))
         IN place.slot = s /\ place.cnode = CapAt(kernel, SystemCNodeCap).of

(***************************************************************************)
(* What the monitor will read at the address of the table is the data the  *)
(* tool has written, although the table was placed by one estimate of the  *)
(* memory, copied by the loader, cut up into untyped objects and put       *)
(* together again from pages.                                              *)
(***************************************************************************)
TableReadable ==
  phase = "system" /\ LoaderApart =>
    \A k \in 0 .. invocation_data - 1 :
      LET v == TableVaddr + k
      IN /\ v - (v % Page) \in DOMAIN kernel.pages
         /\ memory[kernel.pages[v - (v % Page)] + (v % Page)] = Byte(3, k)

(***************************************************************************)
(* The tool goes on to allocate from where the kernel is: the watermarks   *)
(* of the device memory and the points in the normal memory are those of   *)
(* the kernel, and the slots from BootstrapCaps on are free.               *)
(***************************************************************************)
AllocationsInStep ==
  phase = "system" =>
    /\ \A u \in DOMAIN untyped_objects :
         kernel.free[u] = IF untyped_objects[u].device THEN Watermark(u) ELSE AllocationPoints[u]
    /\ DOMAIN kernel.cnodes[CapAt(kernel, SystemCNodeCap).of].slots = 0 .. BootstrapCaps - 1

(***************************************************************************)
(* The loop of main ends, even if the numbers vary from build to build,    *)
(* because a size once needed is never given up; so that, in the end, the  *)
(* tool, the loader or the monitor has stopped or all is done.             *)
(***************************************************************************)
SizesConverge == <>(phase \notin {"start", "reserved", "booted"})
=============================================================================
