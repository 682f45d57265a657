-------------------------------- MODULE Boot ---------------------------------
(***************************************************************************)
(* From a description to a running system: the tool checks the description *)
(* and generates the system invocations; at boot the monitor               *)
(* (monitor/src/main.c, main and perform_invocation) reads them back from  *)
(* its memory and performs them, each as often as its repeat count says,   *)
(* and stops at the first error.                                           *)
(***************************************************************************)
EXTENDS KernelObjects

CONSTANT Descriptions   \* what the user may write

VARIABLES
  system,       \* the description
  at,           \* parse, rejected, boot, failed, monitor
  invocations,  \* the invocations of the tool, in order
  data,         \* system_invocation_data
  idx,          \* the invocation being performed
  offset,       \* where it is in the data
  i,            \* and its iteration, from 0
  kernel        \* the kernel objects

vars == <<system, at, invocations, data, idx, offset, i, kernel>>

Init ==
  /\ system \in Descriptions
  /\ at = "parse"
  /\ invocations = <<>> /\ data = <<>>
  /\ idx = 0 /\ offset = 0 /\ i = 0
  /\ kernel = NoObjects

\* The tool ends with an error message or at an assertion.
Reject ==
  /\ at = "parse" /\ ~(Accepted(system) /\ Buildable(system))
  /\ at' = "rejected"
  /\ UNCHANGED <<system, invocations, data, idx, offset, i, kernel>>

\* The tool builds the image, and the kernel starts the monitor from it.  The
\* objects exist once the retype invocations have been performed.
Build ==
  /\ at = "parse" /\ Accepted(system) /\ Buildable(system)
  /\ at' = "boot"
  /\ invocations' = SystemInvocations(system)
  /\ data' = RawData(invocations')
  /\ kernel' = Created(system)
  /\ idx' = 1 /\ offset' = 1 /\ i' = 0
  /\ UNCHANGED system

\* "for (idx = 0; idx < system_invocation_count; idx++)"
Pending == at = "boot" /\ idx <= Len(invocations)

Outcomes ==
  LET call == Call(data, offset, i)
  IN KernelCall(kernel, system, call.op, call.args)

PerformInvocation ==
  /\ Pending
  /\ kernel' \in Outcomes
  /\ IF i + 1 < Iterations(data[offset])
     THEN i' = i + 1 /\ UNCHANGED <<idx, offset>>
     ELSE i' = 0 /\ idx' = idx + 1 /\ offset' = NextOffset(data, offset)
  /\ UNCHANGED <<system, at, invocations, data>>

\* "invocation error"
InvocationError ==
  /\ Pending
  /\ Outcomes = {}
  /\ at' = "failed"
  /\ UNCHANGED <<system, invocations, data, idx, offset, i, kernel>>

\* "completed system invocations"
StartMonitor ==
  /\ at = "boot" /\ ~Pending
  /\ at' = "monitor"
  /\ UNCHANGED <<system, invocations, data, idx, offset, i, kernel>>

Next == Reject \/ Build \/ PerformInvocation \/ InvocationError \/ StartMonitor

Spec == Init /\ [][Next]_vars

-----------------------------------------------------------------------------
(* Properties *)

BudgetsAllowed(d) == \A p \in 1..d.n : d.budget[p] >= MIN_BUDGET

(***************************************************************************)
(* No invocation of a system whose identifiers and mappings do not clash,  *)
(* and whose budgets the kernel can enforce, is refused by the kernel, so  *)
(* that the monitor never stops in perform_invocation: the slots, tables   *)
(* and objects the tool counted out are the ones the repetitions arrive    *)
(* at, and the memory of every page is covered by the tables mapped before *)
(* it.                                                                     *)
(***************************************************************************)
BootCompletes ==
  at = "failed" => ~(IdsDistinct(system) /\ MapsDisjoint(system) /\ BudgetsAllowed(system))

(***************************************************************************)
(* The monitor makes the calls the tool meant: it reads each invocation    *)
(* where the one before it ended, finds each argument where the tool wrote *)
(* it, and adds to each one its own increment.  sel4.py and main.c         *)
(* describe this layout twice, and nothing in the data tells them apart.   *)
(***************************************************************************)
InvocationsAsWritten ==
  Pending =>
    /\ Call(data, offset, i) = Repetition(invocations[idx], i)
    /\ Iterations(data[offset]) = invocations[idx].count

\* What handler_loop makes of a badge.
Received(badge) ==
  LET bits == BitsOf(badge)
  IN IF 63 \in bits THEN [ep |-> TRUE, ids |-> {badge.low}] ELSE [ep |-> FALSE, ids |-> bits]

Image == INSTANCE SystemImage WITH
  PD <- 1..system.n, Id <- 0..62, PP <- system.pp, Passive <- system.passive,
  Priority <- system.priority, Throttled <- {},
  Channels <- ToSet(system.channels),
  Irqs <- {<<e.pd, e.el.id>> : e \in ToSet(IrqList(system))}, None <- 0

\* Domain p's capability for identifier n, at the base of microkit.h.
Holds(p, base, n, type, of, badge) ==
  base + n \in DOMAIN kernel.cspace[p] /\ IsCap(kernel.cspace[p][base + n], type, of, badge)

\* The capabilities found at a base, as <<p, n, q, what q receives>>.
Reaching(base, type) ==
  UNION {{<<p, s - base, kernel.cspace[p][s].of, Received(kernel.cspace[p][s].data)>> :
            s \in {s \in DOMAIN kernel.cspace[p] :
                     s \in base..(base + 62) /\ kernel.cspace[p][s].type = type}} :
         p \in 1..system.n}

Described(caps, ep) == {<<c[1], c[2], c[3], [ep |-> ep, ids |-> {c[4]}]>> : c \in caps}

(***************************************************************************)
(* The capabilities of the domains are those the description gives them:   *)
(* through identifier n of a channel, microkit_notify and microkit_ppcall  *)
(* of one end reach the other end, whose event loop decodes the badge to   *)
(* its own identifier; an identifier of an interrupt names its handler,    *)
(* and the interrupt arrives with that identifier.  There are no others:   *)
(* a domain cannot reach a domain it has no channel to.                    *)
(***************************************************************************)
CapsAsDescribed ==
  at = "monitor" =>
    /\ Reaching(BASE_OUTPUT_NOTIFICATION_CAP, "ntfn") = Described(Image!NotifyCaps, FALSE)
    /\ Reaching(BASE_OUTPUT_ENDPOINT_CAP, "endpoint") = Described(Image!EndpointCaps, TRUE)
    /\ \A e \in ToSet(IrqList(system)) :
         /\ Holds(e.pd, BASE_IRQ_CAP, e.el.id, "irq", e.el.irq, Word(0))
         /\ IsCap(kernel.irq[e.el.irq], "ntfn", e.pd, Bit(e.el.id))
    /\ \A p \in 1..system.n :
         DOMAIN kernel.cspace[p] \subseteq
           {INPUT_CAP_IDX, VSPACE_CAP_IDX, REPLY_CAP_IDX} \cup
           {MONITOR_EP_CAP_IDX : q \in {p} \cap system.passive} \cup
           {BASE_OUTPUT_NOTIFICATION_CAP + c[2] : c \in {c \in Image!NotifyCaps : c[1] = p}} \cup
           {BASE_OUTPUT_ENDPOINT_CAP + c[2] : c \in {c \in Image!EndpointCaps : c[1] = p}} \cup
           {BASE_IRQ_CAP + n : n \in IrqIds(system, p)}

(***************************************************************************)
(* The badge on a domain's fault endpoint, and on a passive domain's       *)
(* capability to the monitor, is the index of that domain in the monitor's *)
(* arrays tcbs, scheduling_contexts, notification_caps and pd_names.       *)
(***************************************************************************)
MonitorKnowsWho ==
  at = "monitor" => \A p \in 1..system.n :
    /\ IsCap(kernel.tcb[p].fault, "endpoint", 0, Word(p))
    /\ p \in system.passive =>
         Holds(p, MONITOR_EP_CAP_IDX, 0, "endpoint", 0, Word(p))
    /\ \A type \in {"tcb", "sc", "ntfn"} :
         kernel.slots[MonitorArray(system, type)[kernel.tcb[p].fault.data.low]].of = p

(***************************************************************************)
(* A thread that runs is completely set up, and with its own objects: its  *)
(* scheduling context, CSpace, address space, IPC buffer and notification, *)
(* the input its event loop receives on and the reply object it uses.  It  *)
(* starts at the entry of its program, with the priority and the budget of *)
(* its element, and its CSpace resolves addresses of 64 bits.              *)
(***************************************************************************)
RunsOnItsOwn ==
  \A p \in DOMAIN kernel.tcb : kernel.tcb[p].running =>
    LET thread == kernel.tcb[p]
    IN /\ IsCap(thread.sc, "sc", p, Word(0))
       /\ kernel.sc[p] = [budget |-> system.budget[p], period |-> system.period[p]]
       /\ thread.priority = system.priority[p] /\ thread.pc = system.entry[p]
       /\ IsCap(thread.cspace, "cnode", p, Word(64 - PD_CAP_BITS))
       /\ IsCap(thread.vspace, "vspace", p, Word(0))
       /\ IsCap(thread.ipc, "page", IpcBuffer(p), Word(0)) /\ thread.buffer = system.ipc[p]
       /\ IsCap(thread.ntfn, "ntfn", p, Word(0))
       /\ Holds(p, INPUT_CAP_IDX, 0, IF p \in system.pp THEN "endpoint" ELSE "ntfn", p, Word(0))
       /\ Holds(p, REPLY_CAP_IDX, 0, "reply", p, Word(0))
       /\ Holds(p, VSPACE_CAP_IDX, 0, "vspace", p, Word(0))

Access(m) == {READ : x \in m.perms \cap {"r"}} \cup {WRITE : x \in m.perms \cap {"w"}}

(***************************************************************************)
(* Every address space holds the pages of the regions mapped into it, in   *)
(* their order from the address of the map element on, with the access,    *)
(* execution and caching the element asks for, its IPC buffer, and nothing *)
(* else: two domains share the memory the description shares.              *)
(***************************************************************************)
MapsAsDescribed ==
  at = "monitor" => \A p \in 1..system.n :
    LET pages == kernel.vspace[p]
    IN /\ DOMAIN pages =
            {system.ipc[p]} \cup UNION {Covered(system, m) : m \in ToSet(system.maps[p])}
       /\ pages[system.ipc[p]].page = IpcBuffer(p)
       /\ \A m \in ToSet(system.maps[p]) : \A v \in Covered(system, m) :
            LET distance == v - m.vaddr
                size == system.mrs[m.mr].page_size
            IN /\ pages[v].page = <<m.mr, distance \div size + 1>>
               /\ pages[v].offset = distance % size
               /\ pages[v].rights = Access(m)
               /\ EXECUTE_NEVER \in BitsOf(pages[v].attr) <=> "x" \notin m.perms
               /\ PAGE_CACHEABLE \in BitsOf(pages[v].attr) <=> m.cached

(***************************************************************************)
(* libmicrokit and the kernel can use every IPC buffer, provided the last  *)
(* map of the last domain, which is its last ELF segment, is data: its     *)
(* rights and attributes are still in the variables when the IPC buffers   *)
(* of all domains are mapped.                                              *)
(***************************************************************************)
IpcBuffersWritable ==
  at = "monitor" /\ Last(MapList(system)).el.perms = {"r", "w"} =>
    \A p \in 1..system.n :
      LET buffer == kernel.vspace[p][system.ipc[p]]
      IN buffer.rights = {READ, WRITE} /\ EXECUTE_NEVER \in BitsOf(buffer.attr)

(***************************************************************************)
(* sysxml.py:162 says of its checks "Ensure no duplicate channel           *)
(* identifiers": no boot fails because two capabilities of a domain are    *)
(* for one identifier.                                                     *)
(***************************************************************************)
DuplicateIdsRejected == at = "failed" => IdsDistinct(system)

(***************************************************************************)
(* tests/overlapping_pages/README.md:8: "when a user attempts to create    *)
(* overlapping pages in the address space a build error occurs".           *)
(***************************************************************************)
OverlapsRejected == at \in {"boot", "failed", "monitor"} => MapsDisjoint(system)
=============================================================================
