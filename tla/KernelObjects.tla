---------------------------- MODULE KernelObjects -----------------------------
(***************************************************************************)
(* EXTERNAL: the objects of the kernel and the invocations it allows, as   *)
(* the monitor makes them at boot.  Each is a function from a state k to   *)
(* the set of states it may lead to, which is empty if the kernel answers  *)
(* with an error.                                                          *)
(*                                                                         *)
(*   k.bits       the size of the system CNode, as a power of two          *)
(*   k.slots      the capabilities of the monitor, by their address        *)
(*   k.mapped     the addresses of pages and tables that are mapped        *)
(*   k.assigned   the domains whose address space has an ASID              *)
(*   k.cspace[p]  the capabilities in the CNode of domain p                *)
(*   k.tables[p]  the tables in the address space of p, <<level, vaddr>>   *)
(*   k.vspace[p]  and its small pages: [page, offset, rights, attr]        *)
(*   k.tcb[p], k.sc[p], k.irq[irq]                                         *)
(***************************************************************************)
EXTENDS BuildSystem

MIN_BUDGET == 2   \* MIN_BUDGET_US, which depends on the board

Unset == Cap("null", 0, Word(0))
NoObjects == [slots |-> <<>>, cspace |-> <<>>, vspace |-> <<>>, tcb |-> <<>>, irq |-> <<>>]

InitialCaps ==
  INIT_TCB :> Cap("tcb", 0, Word(0)) @@ IRQ_CONTROL :> Cap("irq_control", 0, Word(0)) @@
  INIT_ASID_POOL :> Cap("asid_pool", 0, Word(0)) @@ SchedControl :> Cap("sched_control", 0, Word(0)) @@
  RootCNode :> Cap("root", 0, Word(0)) @@ SystemCNode :> Cap("cnode", 0, Word(0))

\* All objects exist, with empty CNodes and address spaces.
Created(d) ==
  LET objects == Objects(d)
      first == FirstSlot - 1
      thread == [sc |-> Unset, fault |-> Unset, cspace |-> Unset, vspace |-> Unset, ipc |-> Unset,
                 buffer |-> 0, ntfn |-> Unset, priority |-> 0, pc |-> 0, running |-> FALSE]
  IN [bits     |-> SystemCNodeBits(d),
      slots    |-> InitialCaps @@
                   [w \in {At(first + s) : s \in DOMAIN objects} |-> objects[w.low - first]],
      mapped   |-> {},
      assigned |-> {},
      cspace   |-> [p \in 1..d.n |-> <<>>],
      tables   |-> [p \in 1..d.n |-> {}],
      vspace   |-> [p \in 1..d.n |-> <<>>],
      tcb      |-> [p \in 1..d.n |-> thread],
      sc       |-> [p \in 1..d.n |-> [budget |-> 0, period |-> 0]],
      irq      |-> <<>>]

If(legal, next) == IF legal THEN {next} ELSE {}

IsA(k, address, type) == address \in DOMAIN k.slots /\ k.slots[address].type = type
Obj(k, address) == k.slots[address].of

\* An empty slot of the system CNode.
Free(k, address) == address \notin DOMAIN k.slots /\ address.high = {63} /\ address.low < 2 ^ k.bits

KIrqControlGet(k, a) ==
  If(/\ IsA(k, a.irq_control, "irq_control")
     /\ IsA(k, a.dest_root, "root") /\ a.dest_depth = Word(64) /\ Free(k, a.dest_index)
     /\ a.irq.low \notin DOMAIN k.irq,
     [k EXCEPT !.slots = @ @@ (a.dest_index :> Cap("irq", a.irq.low, Word(0))),
               !.irq = @ @@ (a.irq.low :> Unset)])

KAsidPoolAssign(k, a) ==
  If(/\ IsA(k, a.asid_pool, "asid_pool") /\ IsA(k, a.vspace, "vspace")
     /\ Obj(k, a.vspace) \notin k.assigned,
     [k EXCEPT !.assigned = @ \cup {Obj(k, a.vspace)}])

HasAsid(k, address) == IsA(k, address, "vspace") /\ Obj(k, address) \in k.assigned

\* A badge can be given to an unbadged capability to an endpoint or a
\* notification, and means nothing for the other types.
Minted(k, a) ==
  LET src == k.slots[a.src_obj]
  IN [src EXCEPT !.data = IF src.type \in {"endpoint", "ntfn"} THEN a.badge ELSE @,
                 !.rights = @ \cap BitsOf(a.rights)]

Mintable(k, a) ==
  /\ IsA(k, a.src_root, "root") /\ a.src_depth = Word(64)
  /\ a.src_obj \in DOMAIN k.slots
  /\ IsA(k, a.src_obj, "vspace") => HasAsid(k, a.src_obj)
  /\ k.slots[a.src_obj].data # Word(0) => k.slots[a.src_obj].type \notin {"endpoint", "ntfn"}

KMint(k, a) ==
  IF ~(Mintable(k, a) /\ IsA(k, a.cnode, "cnode")) THEN {}
  ELSE LET p == Obj(k, a.cnode)
           slot == Or(Bit(63), a.dest_index)
       IN IF p = 0
          THEN If(a.dest_depth = Word(k.bits) /\ Free(k, slot),
                  [k EXCEPT !.slots = @ @@ (slot :> Minted(k, a))])
          ELSE If(/\ a.dest_depth = Word(PD_CAP_BITS) /\ a.dest_index.low < PD_CAP_SIZE
                  /\ a.dest_index.low \notin DOMAIN k.cspace[p],
                  [k EXCEPT !.cspace[p] = @ @@ (a.dest_index.low :> Minted(k, a))])

KSetNotification(k, a) ==
  If(IsA(k, a.irq_handler, "irq") /\ IsA(k, a.notification, "ntfn"),
     [k EXCEPT !.irq[Obj(k, a.irq_handler)] = k.slots[a.notification]])

\* A table goes into the table above it, in place of nothing.
TableAt(k, p, level, vaddr) ==
  level > 3 \/ <<level, vaddr - (vaddr % Span(level))>> \in k.tables[p]

KTableMap(k, level, table, a) ==
  IF ~(IsA(k, table, TableType[level]) /\ HasAsid(k, a.vspace)) THEN {}
  ELSE LET p == Obj(k, a.vspace)
           vaddr == a.vaddr.low - (a.vaddr.low % Span(level))
       IN If(/\ table \notin k.mapped
             /\ TableAt(k, p, level + 1, vaddr) /\ ~TableAt(k, p, level, vaddr)
             /\ level = 1 => (vaddr .. (vaddr + Entries - 1)) \cap DOMAIN k.vspace[p] = {},
             [k EXCEPT !.mapped = @ \cup {table}, !.tables[p] = @ \cup {<<level, vaddr>>}])

\* The size of a page of d.
PageSize(d, name) == IF name[1] = 0 THEN 1 ELSE d.mrs[name[1]].page_size

KPageMap(k, d, a) ==
  IF ~(IsA(k, a.page, "page") /\ HasAsid(k, a.vspace)) THEN {}
  ELSE LET name == Obj(k, a.page)
           p == Obj(k, a.vspace)
           vaddr == a.vaddr.low
           pages == vaddr .. (vaddr + PageSize(d, name) - 1)
           entry(v) == [page |-> name, offset |-> v - vaddr, attr |-> a.attr,
                        rights |-> k.slots[a.page].rights \cap BitsOf(a.rights)]
       IN If(/\ a.page \notin k.mapped
             /\ vaddr % PageSize(d, name) = 0
             /\ pages \cap DOMAIN k.vspace[p] = {}
             /\ IF PageSize(d, name) = 1 THEN TableAt(k, p, 1, vaddr)
                ELSE TableAt(k, p, 2, vaddr) /\ ~TableAt(k, p, 1, vaddr),
             [k EXCEPT !.mapped = @ \cup {a.page},
                       !.vspace[p] = @ @@ [v \in pages |-> entry(v)]])

KConfigureFlags(k, a) ==
  If(/\ IsA(k, a.schedcontrol, "sched_control") /\ IsA(k, a.schedcontext, "sc")
     /\ MIN_BUDGET <= a.budget.low /\ a.budget.low <= a.period.low,
     [k EXCEPT !.sc[Obj(k, a.schedcontext)] = [budget |-> a.budget.low, period |-> a.period.low]])

\* The kernel can send a fault through the capability.
FaultHandler(k, address) ==
  IsA(k, address, "endpoint") /\ WRITE \in k.slots[address].rights

KSetSchedParams(k, a) ==
  If(/\ IsA(k, a.tcb, "tcb") /\ IsA(k, a.authority, "tcb") /\ IsA(k, a.sched_context, "sc")
     /\ FaultHandler(k, a.fault_ep) /\ a.priority.low <= 255
     /\ \A p \in DOMAIN k.tcb : k.tcb[p].sc # k.slots[a.sched_context],
     [k EXCEPT !.tcb[Obj(k, a.tcb)].sc = k.slots[a.sched_context],
               !.tcb[Obj(k, a.tcb)].priority = a.priority.low,
               !.tcb[Obj(k, a.tcb)].fault = k.slots[a.fault_ep]])

KSetSpace(k, a) ==
  If(/\ IsA(k, a.tcb, "tcb") /\ FaultHandler(k, a.fault_ep)
     /\ IsA(k, a.cspace_root, "cnode") /\ HasAsid(k, a.vspace_root),
     [k EXCEPT !.tcb[Obj(k, a.tcb)].fault = k.slots[a.fault_ep],
               !.tcb[Obj(k, a.tcb)].cspace =
                 [k.slots[a.cspace_root] EXCEPT !.data = a.cspace_root_data],
               !.tcb[Obj(k, a.tcb)].vspace = k.slots[a.vspace_root]])

KSetIPCBuffer(k, a) ==
  If(IsA(k, a.tcb, "tcb") /\ IsA(k, a.buffer_frame, "page"),
     [k EXCEPT !.tcb[Obj(k, a.tcb)].ipc = k.slots[a.buffer_frame],
               !.tcb[Obj(k, a.tcb)].buffer = a.buffer.low])

KWriteRegisters(k, a) ==
  If(IsA(k, a.tcb, "tcb") /\ a.count.low <= Len(Registers),
     [k EXCEPT !.tcb[Obj(k, a.tcb)].pc = IF a.count.low > 0 THEN a.pc.low ELSE @,
               !.tcb[Obj(k, a.tcb)].running = @ \/ 0 \in BitsOf(a.resume)])

KBindNotification(k, a) ==
  IF ~(IsA(k, a.tcb, "tcb") /\ IsA(k, a.notification, "ntfn")) THEN {}
  ELSE If(/\ k.tcb[Obj(k, a.tcb)].ntfn = Unset
          /\ \A p \in DOMAIN k.tcb : k.tcb[p].ntfn # k.slots[a.notification],
          [k EXCEPT !.tcb[Obj(k, a.tcb)].ntfn = k.slots[a.notification]])

KResume(k, a) ==
  If(IsA(k, a.tcb, "tcb"), [k EXCEPT !.tcb[Obj(k, a.tcb)].running = TRUE])

KernelCall(k, d, op, a) ==
  CASE op = "IrqControlGet"         -> KIrqControlGet(k, a)
    [] op = "AsidPoolAssign"        -> KAsidPoolAssign(k, a)
    [] op = "Mint"                  -> KMint(k, a)
    [] op = "SetNotification"       -> KSetNotification(k, a)
    [] op = "PageUpperDirectoryMap" -> KTableMap(k, 3, a.page_upper_directory, a)
    [] op = "PageDirectoryMap"      -> KTableMap(k, 2, a.page_directory, a)
    [] op = "PageTableMap"          -> KTableMap(k, 1, a.page_table, a)
    [] op = "PageMap"               -> KPageMap(k, d, a)
    [] op = "ConfigureFlags"        -> KConfigureFlags(k, a)
    [] op = "SetSchedParams"        -> KSetSchedParams(k, a)
    [] op = "SetSpace"              -> KSetSpace(k, a)
    [] op = "SetIPCBuffer"          -> KSetIPCBuffer(k, a)
    [] op = "WriteRegisters"        -> KWriteRegisters(k, a)
    [] op = "BindNotification"      -> KBindNotification(k, a)
    [] op = "Resume"                -> KResume(k, a)
=============================================================================
