----------------------------- MODULE BuildSystem -----------------------------
(***************************************************************************)
(* The system invocations the tool generates for a description             *)
(* (tool/microkit/__main__.py, build_system, from the allocation of the    *)
(* kernel objects on).  The monitor performs them at boot, in this order.  *)
(*                                                                         *)
(* Objects and derived capabilities have addresses in the system CNode,    *)
(* where the bootstrap has left the first slots in use.                    *)
(***************************************************************************)
EXTENDS SystemDescription, Invocations

CONSTANT FirstSlot   \* cap_slot when the objects of the system are allocated

ASSUME FirstSlotAssumption == FirstSlot \in Nat

\* Where the bootstrap has put the capabilities it made.
SchedControl == Word(20)
RootCNode == Word(30)
SystemCNode == Word(31)

INPUT_CAP_IDX == 1
VSPACE_CAP_IDX == 3
REPLY_CAP_IDX == 4
MONITOR_EP_CAP_IDX == 5
BASE_OUTPUT_NOTIFICATION_CAP == 10
BASE_OUTPUT_ENDPOINT_CAP == BASE_OUTPUT_NOTIFICATION_CAP + 64
BASE_IRQ_CAP == BASE_OUTPUT_ENDPOINT_CAP + 64
PD_CAP_SIZE == 256
PD_CAP_BITS == 8

-----------------------------------------------------------------------------
(* The kernel objects, in the order their slots are handed out. *)

\* What a capability holds besides the name of its object: a badge, the guard of
\* a CNode, the ASID of an address space.
Cap(type, of, data) == [type |-> type, of |-> of, data |-> data, rights |-> 0..3]

IsCap(c, type, of, data) == c.type = type /\ c.of = of /\ c.data = data

Allocate(type, names) == [i \in DOMAIN names |-> Cap(type, names[i], Word(0))]

RegionPages(d, m) == [i \in 1..PageCount(d.mrs[m]) |-> <<m, i>>]

PagesOf(d, regions) == FlattenSeq([i \in DOMAIN regions |-> RegionPages(d, regions[i])])

FloatingRegions(d, large) ==
  SelectSeq([m \in DOMAIN d.mrs |-> m],
            LAMBDA m : d.mrs[m].phys = Floating /\ (d.mrs[m].page_size > 1 <=> large))

FixedRegions(d) ==
  SetToSortSeq({m \in DOMAIN d.mrs : d.mrs[m].phys # Floating},
               LAMBDA m, o : d.mrs[m].phys < d.mrs[o].phys)

IpcBuffer(p) == <<0, p>>   \* regions are numbered from 1

PageNames(d) ==
  PagesOf(d, FloatingRegions(d, TRUE)) \o
  [p \in 1..d.n |-> IpcBuffer(p)] \o
  PagesOf(d, FloatingRegions(d, FALSE)) \o
  PagesOf(d, FixedRegions(d))

\* The tables of domain p at a level: 1 for page tables, 2 for directories, 3 for
\* upper directories.  Only the small pages need page tables.
Span(level) == Entries ^ level

TablesOf(d, p, level) ==
  LET small(m) == d.mrs[m.mr].page_size = 1
      starts(m) == {m.vaddr + i * d.mrs[m.mr].page_size : i \in 0..(PageCount(d.mrs[m.mr]) - 1)}
      vaddrs == {d.ipc[p]} \cup
        UNION {starts(m) : m \in {m \in ToSet(d.maps[p]) : level > 1 \/ small(m)}}
  IN SetToSortSeq({<<p, v - (v % Span(level))>> : v \in vaddrs}, LAMBDA x, y : x[2] < y[2])

Tables(d, level) == FlattenSeq([p \in 1..d.n |-> TablesOf(d, p, level)])

TableType == <<"pt", "d", "ud">>

\* In the order of their slots.  The untyped objects that pad device memory before a
\* fixed page (allocate_fixed_objects) are in ObjectAllocator, which also counts
\* their slots.
Objects(d) ==
  LET pds == Domains(d)
      pps == SelectSeq(pds, LAMBDA p : p \in d.pp)
  IN Allocate("page", PageNames(d)) \o Allocate("tcb", pds) \o
     Allocate("sc", pds) \o Allocate("reply", <<0>> \o pds) \o
     Allocate("endpoint", <<0>> \o pps) \o Allocate("ntfn", pds) \o
     Allocate("vspace", pds) \o
     Allocate("ud", Tables(d, 3)) \o Allocate("d", Tables(d, 2)) \o
     Allocate("pt", Tables(d, 1)) \o Allocate("cnode", pds)

\* The address of an object; the slots after the objects go to irq handlers, then
\* to the copies of pages, the badged irq notifications and fault endpoints.
ObjectAt(d, type, of) ==
  LET objects == Objects(d)
  IN At(FirstSlot + (CHOOSE s \in DOMAIN objects : IsCap(objects[s], type, of, Word(0))) - 1)

IrqCount(d) == Len(IrqList(d))
IrqSlot(d, i) == FirstSlot + Len(Objects(d)) + i - 1
IrqHandler(d, i) == At(IrqSlot(d, i))

MapCount(d, i) == PageCount(d.mrs[MapList(d)[i].el.mr])
PageCopies(d, i) ==
  IrqSlot(d, IrqCount(d)) + MapThenSumSet(LAMBDA j : MapCount(d, j), 1..(i-1)) + 1

BadgedIrq(d, i) == PageCopies(d, Len(MapList(d)) + 1) - 1 + i
BadgedFaultEp(d) == BadgedIrq(d, IrqCount(d)) + 1
FinalCapSlot(d) == BadgedFaultEp(d) + d.n

\* The assertions of mask_bits (a page at address 0 has no tables) and on mr_pages.
Buildable(d) ==
  \A p \in 1..d.n : d.ipc[p] > 0 /\ \A i \in DOMAIN d.maps[p] :
    d.maps[p][i].vaddr > 0 /\ d.mrs[d.maps[p][i].mr].size > 0

\* main builds again with a larger system CNode until there is room for all slots.
SystemCNodeBits(d) == CHOOSE b \in 1..20 : FinalCapSlot(d) <= 2^b /\ (b > 1 => 2^(b-1) < FinalCapSlot(d))

-----------------------------------------------------------------------------
(* Invocations *)

MintInto(cnode, depth, dest_index, src_obj, rights, badge) ==
  Invoke("Mint", [cnode |-> cnode, dest_index |-> Word(dest_index), dest_depth |-> Word(depth),
                  src_root |-> RootCNode, src_obj |-> src_obj, src_depth |-> Word(64),
                  rights |-> rights, badge |-> badge])

\* A copy in the system CNode, and one in the CNode of domain p.
Copy(d, dest_index, src_obj, rights, badge) ==
  MintInto(SystemCNode, SystemCNodeBits(d), dest_index, src_obj, rights, badge)
Mint(d, p, dest_index, src_obj, badge) ==
  MintInto(ObjectAt(d, "cnode", p), PD_CAP_BITS, dest_index, src_obj, RIGHTS_ALL, badge)

One(fields) == [f \in fields |-> 1]

\* One invocation for each element of a sequence, and for each domain.
ForEach(S, Make(_)) == [i \in DOMAIN S |-> Make(i)]

IrqHandlers(d) ==
  ForEach(IrqList(d), LAMBDA i :
    Invoke("IrqControlGet", [irq_control |-> IRQ_CONTROL, irq |-> Word(IrqList(d)[i].el.irq),
                             dest_root |-> RootCNode, dest_index |-> IrqHandler(d, i),
                             dest_depth |-> Word(64)]))

AsidPoolAssign(d) ==
  <<Repeat(Invoke("AsidPoolAssign", [asid_pool |-> INIT_ASID_POOL,
                                     vspace |-> ObjectAt(d, "vspace", 1)]),
           d.n, One({"vspace"}))>>

MapRights(m) ==
  FromBits({READ : x \in m.perms \cap {"r"}} \cup {WRITE : x \in m.perms \cap {"w"}})
MapAttrs(m) ==
  FromBits({PARITY_ENABLED} \cup {EXECUTE_NEVER : x \in {"x"} \ m.perms} \cup
           {PAGE_CACHEABLE : x \in {TRUE} \cap {m.cached}})

\* Mutant: the copies of a region's pages all come from its first page.
MintPagesSameSource(d) ==
  ForEach(MapList(d), LAMBDA i :
    Repeat(Copy(d, PageCopies(d, i), ObjectAt(d, "page", <<MapList(d)[i].el.mr, 1>>),
                MapRights(MapList(d)[i].el), Word(0)),
           MapCount(d, i), One({"dest_index"})))

MintPages(d) ==
  ForEach(MapList(d), LAMBDA i :
    Repeat(Copy(d, PageCopies(d, i), ObjectAt(d, "page", <<MapList(d)[i].el.mr, 1>>),
                MapRights(MapList(d)[i].el), Word(0)),
           MapCount(d, i), One({"dest_index", "src_obj"})))

MintBadgedIrqs(d) ==
  ForEach(IrqList(d), LAMBDA i :
    Copy(d, BadgedIrq(d, i), ObjectAt(d, "ntfn", IrqList(d)[i].pd), RIGHTS_ALL,
         Bit(IrqList(d)[i].el.id)))

\* The badge of a fault endpoint is the number of the domain, from 1.
MintFaultEps(d) ==
  <<Repeat(Copy(d, BadgedFaultEp(d), ObjectAt(d, "endpoint", 0), RIGHTS_ALL, Word(1)),
           d.n, One({"dest_index", "badge"}))>>

MintInputs(d) ==
  ForEach(Domains(d), LAMBDA p :
    Mint(d, p, INPUT_CAP_IDX, ObjectAt(d, IF p \in d.pp THEN "endpoint" ELSE "ntfn", p), Word(0)))

MintReplyAndVSpace(d) ==
  <<Repeat(Mint(d, 1, REPLY_CAP_IDX, ObjectAt(d, "reply", 1), Word(1)),
           d.n, One({"cnode", "src_obj"})),
    Repeat(Mint(d, 1, VSPACE_CAP_IDX, ObjectAt(d, "vspace", 1), Word(0)),
           d.n, One({"cnode", "src_obj"}))>>

MintIrqs(d) ==
  ForEach(IrqList(d), LAMBDA i :
    Mint(d, IrqList(d)[i].pd, BASE_IRQ_CAP + IrqList(d)[i].el.id, IrqHandler(d, i), Word(0)))

\* Mutant: badged with the sender's identifier.
MintNotificationOwnId(d, p, i, q, j) ==
  <<Mint(d, p, BASE_OUTPUT_NOTIFICATION_CAP + i, ObjectAt(d, "ntfn", q), Bit(i))>>

\* The capabilities of one end of a channel: p knows it as i, q as j.
MintNotification(d, p, i, q, j) ==
  <<Mint(d, p, BASE_OUTPUT_NOTIFICATION_CAP + i, ObjectAt(d, "ntfn", q), Bit(j))>>

MintEndpoint(d, p, i, q, j) ==
  IF q \in d.pp
  THEN <<Mint(d, p, BASE_OUTPUT_ENDPOINT_CAP + i, ObjectAt(d, "endpoint", q),
              Or(Bit(63), Word(j)))>>
  ELSE <<>>

MintChannels(d) ==
  FlattenSeq(ForEach(d.channels, LAMBDA k :
    LET c == d.channels[k]
    IN MintNotification(d, c.a, c.ida, c.b, c.idb) \o
       MintNotification(d, c.b, c.idb, c.a, c.ida) \o
       MintEndpoint(d, c.a, c.ida, c.b, c.idb) \o
       MintEndpoint(d, c.b, c.idb, c.a, c.ida)))

MintMonitorEps(d) ==
  LET passives == SelectSeq(Domains(d), LAMBDA p : p \in d.passive)
  IN ForEach(passives, LAMBDA i :
       Mint(d, passives[i], MONITOR_EP_CAP_IDX, ObjectAt(d, "endpoint", 0), Word(passives[i])))

SetNotifications(d) ==
  ForEach(IrqList(d), LAMBDA i :
    Invoke("SetNotification", [irq_handler |-> IrqHandler(d, i),
                               notification |-> At(BadgedIrq(d, i))]))

TableMap(d, level) ==
  LET op == <<"PageTableMap", "PageDirectoryMap", "PageUpperDirectoryMap">>[level]
      tables == Tables(d, level)
  IN ForEach(tables, LAMBDA i :
       Invoke(op, Methods[op].fields[1] :> ObjectAt(d, TableType[level], tables[i]) @@
                  [vspace |-> ObjectAt(d, "vspace", tables[i][1]), vaddr |-> Word(tables[i][2]),
                   attr |-> DEFAULT_VMATTRIBUTES]))

\* Mutant: the page tables are mapped before the directories they go into.
MapTablesBottomUp(d) == TableMap(d, 1) \o TableMap(d, 2) \o TableMap(d, 3)

MapTables(d) == TableMap(d, 3) \o TableMap(d, 2) \o TableMap(d, 1)

PageMap(page, vspace, vaddr, rights, attr) ==
  Invoke("PageMap", [page |-> page, vspace |-> vspace, vaddr |-> Word(vaddr),
                     rights |-> rights, attr |-> attr])

MapPages(d) ==
  ForEach(MapList(d), LAMBDA i :
    LET m == MapList(d)[i]
    IN Repeat(PageMap(At(PageCopies(d, i)), ObjectAt(d, "vspace", m.pd), m.el.vaddr,
                      MapRights(m.el), MapAttrs(m.el)),
              MapCount(d, i), [page |-> 1, vaddr |-> d.mrs[m.el.mr].page_size]))

\* Mutant: with those of the first map.
MapIpcBuffersFirst(d) ==
  ForEach(Domains(d), LAMBDA p :
    PageMap(ObjectAt(d, "page", IpcBuffer(p)), ObjectAt(d, "vspace", p), d.ipc[p],
            MapRights(Head(MapList(d)).el), MapAttrs(Head(MapList(d)).el)))

\* With the rights and attributes of the last map, which the loop leaves behind.
MapIpcBuffers(d) ==
  ForEach(Domains(d), LAMBDA p :
    PageMap(ObjectAt(d, "page", IpcBuffer(p)), ObjectAt(d, "vspace", p), d.ipc[p],
            MapRights(Last(MapList(d)).el), MapAttrs(Last(MapList(d)).el)))

Tcb(d, p) == ObjectAt(d, "tcb", p)

ConfigureFlags(d) ==
  ForEach(Domains(d), LAMBDA p :
    Invoke("ConfigureFlags",
           [schedcontrol |-> SchedControl, schedcontext |-> ObjectAt(d, "sc", p),
            budget |-> Word(d.budget[p]), period |-> Word(d.period[p]),
            extra_refills |-> Word(0), badge |-> Word(256 + p - 1), flags |-> Word(0)]))

SetSchedParams(d) ==
  ForEach(Domains(d), LAMBDA p :
    Invoke("SetSchedParams", [tcb |-> Tcb(d, p), authority |-> INIT_TCB,
                              mcp |-> Word(d.priority[p]), priority |-> Word(d.priority[p]),
                              sched_context |-> ObjectAt(d, "sc", p),
                              fault_ep |-> ObjectAt(d, "endpoint", 0)]))

SetSpaces(d) ==
  <<Repeat(Invoke("SetSpace", [tcb |-> Tcb(d, 1), fault_ep |-> At(BadgedFaultEp(d)),
                               cspace_root |-> ObjectAt(d, "cnode", 1),
                               cspace_root_data |-> Word(64 - PD_CAP_BITS),
                               vspace_root |-> ObjectAt(d, "vspace", 1),
                               vspace_root_data |-> Word(0)]),
           d.n, One({"tcb", "fault_ep", "cspace_root", "vspace_root"}))>>

SetIpcBuffers(d) ==
  ForEach(Domains(d), LAMBDA p :
    Invoke("SetIPCBuffer", [tcb |-> Tcb(d, p), buffer |-> Word(d.ipc[p]),
                            buffer_frame |-> ObjectAt(d, "page", IpcBuffer(p))]))

\* resume is FALSE, and all registers are written.
WriteRegisters(d) ==
  ForEach(Domains(d), LAMBDA p :
    Invoke("WriteRegisters", [tcb |-> Tcb(d, p), resume |-> Word(0),
                              count |-> Word(Len(Registers)), pc |-> Word(d.entry[p])]))

BindNotifications(d) ==
  <<Repeat(Invoke("BindNotification", [tcb |-> Tcb(d, 1),
                                       notification |-> ObjectAt(d, "ntfn", 1)]),
           d.n, One({"tcb", "notification"}))>>

Resume(d) ==
  <<Repeat(Invoke("Resume", [tcb |-> Tcb(d, 1)]), d.n, One({"tcb"}))>>

\* Mutant: the fault endpoints are set before the scheduling parameters, whose
\* unbadged fault endpoint replaces them.
ConfigureSpacesFirst(d) ==
  ConfigureFlags(d) \o SetSpaces(d) \o SetSchedParams(d) \o SetIpcBuffers(d) \o
  WriteRegisters(d) \o BindNotifications(d) \o Resume(d)

\* Mutant: the threads are resumed before their notifications are bound.
ConfigureResumeEarly(d) ==
  ConfigureFlags(d) \o SetSchedParams(d) \o SetSpaces(d) \o SetIpcBuffers(d) \o
  WriteRegisters(d) \o Resume(d) \o BindNotifications(d)

Configure(d) ==
  ConfigureFlags(d) \o SetSchedParams(d) \o SetSpaces(d) \o SetIpcBuffers(d) \o
  WriteRegisters(d) \o BindNotifications(d) \o Resume(d)

SystemInvocations(d) ==
  IrqHandlers(d) \o AsidPoolAssign(d) \o MintPages(d) \o MintBadgedIrqs(d) \o
  MintFaultEps(d) \o MintInputs(d) \o MintReplyAndVSpace(d) \o MintIrqs(d) \o
  MintChannels(d) \o MintMonitorEps(d) \o SetNotifications(d) \o MapTables(d) \o
  MapPages(d) \o MapIpcBuffers(d) \o Configure(d)

-----------------------------------------------------------------------------
\* tcbs, scheduling_contexts and notification_caps, written into the monitor's
\* image; entry 0 is no domain's.
MonitorArray(d, type) == [b \in 0..d.n |-> IF b = 0 THEN Word(0) ELSE ObjectAt(d, type, b)]
=============================================================================
