# A verification of the seL4 Microkit

TLA+ models of the Microkit in `src/`, checked by TLC, with proofs checked by
TLAPS. The models are translated from the source code. The manual and the
comments are used for what they promise, and the promises are then checked.

1. [The system](#1-the-system)
2. [Modules](#2-modules)
3. [What the runs check](#3-what-the-runs-check)
4. [Bounds](#4-bounds)
5. [Fairness](#5-fairness)
6. [What is proved](#6-what-is-proved)
7. [What is not modelled](#7-what-is-not-modelled)
8. [Plan](#8-plan)

## 1. The system

A developer describes protection domains, channels, memory regions, mappings
and interrupts in an XML file. The tool turns that into one image. On the board
the loader copies the image into place and starts seL4, the monitor performs
the kernel invocations the tool has computed, and from then on each protection
domain runs the event loop of libmicrokit around its entry points.

| Component | Source | State | Operations | Talks to |
|---|---|---|---|---|
| system description | `tool/microkit/sysxml.py` | domains, channels, regions, maps, interrupts | parse, check | build_system |
| build_system | `tool/microkit/__main__.py` | objects, capability slots, the lists of bootstrap and system invocations | place memory, build the monitor's CSpace, map the invocation table, allocate, mint, map, configure, resume | all of the tool |
| invocation classes | `tool/microkit/sel4.py` | arguments and increments of one invocation | pack into words, repeat | the decoder of the monitor |
| object allocation | `tool/microkit/__main__.py`, `util.py` | watermark of each untyped object, next slot, retypes | allocate objects, allocate at a fixed address | the kernel, by prediction |
| kernel boot emulation | `tool/microkit/sel4.py`, `util.py` | free normal and device memory as sorted regions | insert, remove, allocate, cut into powers of two | the kernel, by prediction |
| sizing loop | `tool/microkit/__main__.py`, `main` | size of the invocation table and of the system CNode | build again with larger sizes | build_system |
| ELF files | `tool/microkit/elf.py` | segments and their data | read, patch a symbol | build_system, loader image |
| loader image | `tool/microkit/loader.py` | regions, headers, data, page tables | collect, check for overlaps, set up the page tables, write | loader |
| loader | `loader/src` | the copy in progress | copy the regions, switch the MMU on, start the kernel | memory |
| monitor, boot | `monitor/src/main.c` | position in the invocation data, repetition | check the untyped objects, decode and perform one repetition of an invocation | kernel |
| monitor, message loop | `monitor/src/main.c` | the message at hand | unbind and bind a scheduling context, report a fault | kernel, every domain |
| libmicrokit | `libmicrokit/` | `have_reply`, `have_signal`, the badge | receive, reply, dispatch, notify, call, acknowledge | kernel, monitor |
| seL4 | not in the repository | threads, endpoints, notifications, reply objects, scheduling contexts | system calls | everything |
| Ethernet example | `example/tqma8xqp1gb/ethernet` | four kinds of rings in shared memory, device registers | receive, transmit, copy between ports | drivers, `pass`, devices |
| timer example | same, `gpt.c` | timeouts of the clients, compare register | set a timeout, handle the interrupt | `pass` |

Interactions are of three kinds: system calls and messages while the system
runs; predictions of the tool about what kernel, loader and monitor will do
later, which nothing corrects if they are wrong; and shared memory with
notifications in the examples.

What is hard about it, and what makes each part correct:

* **libmicrokit and the monitor.** Callers queue on an endpoint while
  notifications merge in a word, and one receive serves both. Whether that
  receive first replies or first signals the monitor depends on variables set
  earlier. A passive domain lives on scheduling contexts that calls, replies,
  the monitor and interrupts move. *Correct* means one reply for each call, to
  the right caller on the right channel; no notification lost; no scheduling
  context lost or duplicated; no domain that could run without a context; no
  deadlock of calls.
* **Tool and boot.** Slots, badges, order and repetitions of a long list
  of invocations are computed for a kernel that is not there, written as words
  by one program and read back by another. While the monitor performs them it
  replaces its own CSpace. *Correct* means the boot completes, the monitor makes
  the calls the tool meant, each domain ends up with exactly the capabilities
  and pages described, the monitor recognises each domain, and no domain runs
  before it is configured.
* **Memory.** Untyped objects, retypes and fixed addresses are predicted; the
  reserved region, the monitor and the kernel share physical memory; the sizes
  depend on the layout and the layout on the sizes. *Correct* means that
  predictions come true, nothing overlaps, the loop ends, and everything is
  where it should be when the kernel starts.
* **Ethernet example.** Lock-free rings between two drivers, a domain and two
  DMA engines; wake-ups by notifications that merge and interrupts that are
  cleared by hand. *Correct* means FIFO, loss only at a full ring, no lost
  wake-up and no receiver that stays stopped.

`PROJECT.json` lists the hazards at their lines, each with the property that
would catch it.

## 2. Modules

### The running system

`SystemImage` is what a description says about communication, and which
notification and endpoint capabilities the tool hands out for it
(`NotifyCaps`, `EndpointCaps`). `Sel4Kernel` is **external**: the MCS system
calls the runtime and the monitor use, as operators on a record of kernel
objects (thread status, endpoint queues, notification words, reply objects, who
runs on which scheduling context). It is written from how `src/` uses the
kernel. `Monitor` is the message loop of the monitor: `MonitorUnbind` and
`MonitorBind` are separate system calls, so an interrupt can come between them.
`LibMicrokit` is `main`, `handler_loop` and the inline functions of
`microkit.h`: one action for each system call and each return of an entry
point. The application code inside an entry point is external and may notify,
call, acknowledge and fault at will. `Microkit` composes them and states the
properties.

| State | Code |
|---|---|
| `pc` | `init`, `notified`, `protected`: in that entry point; `loop`: at the receive of `handler_loop`; `dispatch`: the receive has returned and the badge is looked at |
| `have_reply`, `have_signal` | the static variables of `libmicrokit/src/main.c` |
| `kernel.badge` | the local `badge`: the endpoint bit and the set of the bits not shifted out yet |
| `monitor` | which system call of `monitor()` comes next, for which domain |
| `masked` | the interrupts delivered and not acknowledged |

`Channels` is the **abstract specification**: entry points, undelivered
notifications and calls, without a kernel, a loop or a monitor.
`MicrokitChannels` gives the refinement mapping and states
`ImplementsChannels`.

### From the description to the running system

`SystemDescription` has the checks of `sysxml.py` on a description.
`Invocations` has the classes of `sel4.py`: the label, service, capabilities and
values of each invocation the tool uses, `Repeat` with its increments, and the
packing into words (`RawData`). A word is a small number and a set of high bits,
which is what badges, guards and addresses with the top bit set need.
`BuildSystem` has `build_system` from the kernel objects on: the objects and
their slots, the page tables and the pages of each mapping with rights and
attributes, and the sequence of invocations. The untyped objects that pad device
memory before a page at a fixed address take slots too; these are in
`ObjectAllocator`, and `Boot` places its regions without them. `KernelObjects` is **external**:
for each kind of invocation, what it does to the kernel's objects and when it is
refused. `Boot` composes them into a small program: the tool accepts or rejects
and writes the words; the monitor decodes one repetition of one invocation at a
time, as `perform_invocation` does, and stops at the first error of the kernel.

| State of `Boot` | Code |
|---|---|
| `system` | the description after parsing |
| `invocations` | `system_invocations` of `build_system` |
| `data` | `system_invocation_data`, the words in the image |
| `idx`, `offset`, `i` | the variables of those names in `main` and `perform_invocation` |
| `kernel` | external: CNodes, threads, scheduling contexts, interrupts, address spaces |

`ObjectAllocator` has `KernelObjectAllocator` and `InitSystem`: every sequence
of `allocate_objects` and `allocate_fixed_objects`, then the retypes as the
monitor issues them and the kernel (external) performs them. Tool and kernel
each have their own idea of where an object goes, and the properties compare
them.

Five modules form one chain from the memory of the board to the monitor that is
ready for the system invocations; each extends the one before it.

* `MemoryRegions`: the arithmetic and the region sets of `util.py` and `sel4.py`.
* `KernelBoot`: the first part of `build_system` and `emulate_kernel_boot`, with
  the reserved region, the monitor, the segments, the objects of the kernel and
  the untyped objects that remain.
* `Bootstrap`: the bootstrap invocations. The monitor's CSpace becomes a root
  with two CNodes below it; the pages of the invocation table are retyped from
  the pieces of the reserved region and mapped.
* `Image`: the loop of `main` that builds again until everything fits, the pages
  of the segments, each of which `allocate_fixed_objects` has to find in a device
  untyped object (`CanPlacePages`; it stops the tool otherwise,
  `CannotPlacePages`), the image, and the loader that copies it, cell by cell in a memory that also holds
  the loader. Symbols the tool patches are in the content of the segments.
  `BootTables` has the page tables of the loader, and the walk of the MMU
  (external) through them.
* `MonitorBoot`: `main` of the monitor up to the system invocations. The kernel
  here is a second external one that resolves capability addresses bit by bit
  through guards and levels, since these are what the bootstrap changes.

`Boot` and `MonitorBoot` meet where the bootstrap ends: `Boot` starts with the
first slots of the system CNode in use and a table that can be read, which
`AllocationsInStep` and `TableReadable` establish. The decoding of words is
checked in `Boot`; `MonitorBoot` takes the calls as meant.

### The Ethernet example

`Ethernet` has both drivers and `pass`, access by access: each read or write of
a flag, a frame or a register that another party could see or disturb is an
action. The interfaces are external. `FrameLink` is the **abstract
specification**: a flow of frames as a FIFO that may drop a frame. `EthernetLink`
maps the three flows (inward, outward, and the answers of a driver to the
outside) onto it.

### Proofs

| Module | Proves |
|---|---|
| `MicrokitProofs` | what each kernel operation changes and leaves alone, the invariant of the calls, and that the running system implements `Channels` |
| `ContextProofs` | the invariants of the scheduling contexts, of contexts lent along chains of calls, and of the passive hand-over; extends `MicrokitProofs` |
| `EthernetProofs` | the invariant of the rings of the example |
| `LinkProofs` | that the example implements `FrameLink`; extends `EthernetProofs` |
| `FoldInduction` | what a fold over a sequence and a recursive function compute, for an operation that is a constant of the module |
| `RegionProofs` | the arithmetic of alignment, the operations on sorted regions, and the cutting of regions into aligned powers of two |
| `LayoutProofs` | what the tool says of physical memory, in `MonitorBoot` and the modules below it; extends `RegionProofs` |
| `AllocatorProofs` | that the retypes the tool reckons with succeed; extends `RegionProofs` |

## 3. What the runs check

| Run | Configuration | Expected | Shows |
|---|---|---|---|
| racing | `Racing.cfg` | pass | client, driver and server in a chain of calls, both servers passive, an interrupt, a fault, and budgets that run out at any time, so that priorities order nothing: `TypeOK`, `OneReplyPerCall`, `CallerIsPeer`, `ContextsConserved`, `ActiveOwnContext`, `NoCallDeadlock`, `ImplementsChannels` |
| ordered | `Ordered.cfg` | pass | the same chain in strict order of priorities with one passive server: `NeverStranded`, `SignalledWhileWaiting`, and under fairness `NotificationsHandled`, `CallsReturn` |
| passive_race | `PassiveRace.cfg` | violation | finding 1 |
| call_cycle | `CallCycle.cfg` | violation | finding 2 |
| boot | `Boot.cfg` | pass | descriptions of one to three domains, right and wrong ones: `BootCompletes`, `InvocationsAsWritten`, `CapsAsDescribed`, `MonitorKnowsWho`, `RunsOnItsOwn`, `MapsAsDescribed`, `IpcBuffersWritable` |
| self_channel | `SelfChannel.cfg` | violation | finding 3 |
| overlapping_maps | `OverlappingMaps.cfg` | violation | finding 4 |
| allocator | `Allocator.cfg` | pass | `RetypesSucceed`, `FixedWhereAsked` |
| region_paddr | `RegionPaddr.cfg` | violation | finding 5 |
| image | `Image.cfg` | pass | four machines through build, image, loader, kernel and bootstrap: `NothingShared`, `RegionsExact`, `UntypedsPartition`, `SegmentsFit`, `ImageAccepted`, `LoadedIntact`, `VariablesSet`, `KernelMapped`, `BootstrapCompletes`, `AddressesKept`, `TableReadable`, `AllocationsInStep`, and under fairness `SizesConverge` |
| ethernet | `Ethernet.cfg` | pass | `ImplementsLink`, `DropsOnlyWhenFull` with rings of two slots |
| ethernet_live | `EthernetLive.cfg` | pass | `FramesMoveOn`, `ReceiverRestarts` with rings of one slot |

Deadlock is not checked in any run: a system in which every domain waits and
nobody sends anything is a normal state, and the boot, the allocation and the
loader end.

Each property of a passing run has a mutant next to the definition it changes,
marked "Mutant", under which the property fails.

### Findings

1. **The passive hand-over can unbind a running domain**
   (`libmicrokit/src/main.c:62`). The comment at line 96 explains that the
   signal to the monitor is delayed "so we are ready waiting on a recv()
   syscall". The combined send and receive only waits if nothing is pending. If
   a notification or a caller is there already, the receive completes in the
   same system call, and the monitor takes the scheduling context from a domain
   that is about to run its next entry point. That domain stops until someone
   signals or calls it: `NeverStranded` holds in `ordered`, where nobody
   of lower priority can have sent anything before the passive server has
   waited. `HandOverRule` says what a description has to keep to, and section 6
   proves that it is enough; the tool checks none of it.
2. **Call cycles are granted** (`__main__.py:1349`). The manual (lines 220 and
   615) says that a call is only possible to a domain of strictly higher
   priority, which prevents deadlocks. The tool looks at `pp` of the callee
   and at no priority. With `pp` on both ends, two domains call each other and
   both wait for ever.
3. **A channel from a domain to itself escapes the check for duplicates**
   (`sysxml.py:175`), because the second end is compared before it is
   recorded. The boot stops when the second capability is minted into an
   occupied slot.
4. **Overlapping mappings are not rejected**; the image is built, and the
   monitor stops at the second mapping during boot. The test in
   `src/tests/overlapping_pages` says what is expected.
5. **The physical address given to a program can be wrong**
   (`__main__.py:229`). A request for zero large pages aligns the allocation
   point of the tool and makes no retype, so the kernel's point stays. Later
   pages are not where the tool says, and `region_paddr` patches the tool's
   address into the program.

### Premises

Some properties hold under a condition that neither the tool nor the loader
checks. Each is a named operator, so that it can be seen what the code relies on.

| Premise | Of | Nothing checks that |
|---|---|---|
| `BudgetsAllowed` | `BootCompletes` | a budget is at least the minimum of the kernel; `sysxml.py` only compares it with the period, and the boot would stop at the configuration of that context |
| writable last map | `IpcBuffersWritable` | the last map of the last domain is writable data. Rights and attributes of the IPC buffers are those left over from the loop before (`__main__.py:1438`) |
| aligned segment | `VariablesSet` | the virtual address of a segment is page aligned. Its data goes to the start of its region, whatever its offset in the page is (`__main__.py:995`). This premise leaves out the very hazard: no property covers a segment that is not aligned |
| `SegmentsCongruent` | the size of the region in `SegmentsFit`; `LoadedIntact`, `VariablesSet` | virtual and physical address of a loadable segment have the same offset in a page; see below. `ImageAccepted` does not need it |
| `LoaderApart` | `LoadedIntact`, `VariablesSet`, `TableReadable` | the regions are not copied to where the loader is. In the boards of `MCImage` that break it the loader overwrites itself (`LoaderLost`) |
| `KernelInOneTable` | `KernelMapped` | the kernel ends in the page table (1 GB of addresses) it starts in; `kernel_last_vaddr` of `loader.py` is computed and not used |
| `HandOverRule` | `NeverStranded`, `SignalledWhileWaiting` | calls ascend in priority, passive domains are notified from lower priorities only and have no interrupts, and every budget is its whole period |
| `MachineAssumption` | all of `LayoutProofs` | what `kernel.elf` and the board say makes sense: the banks of memory are disjoint and in order, the image of the kernel lies in one of them and starts with the boot code, the devices of the kernel are different frames outside the memory, and image and banks start on page boundaries. The assertions of `DisjointMemoryRegion` stop the tool otherwise |
| `FixedPagesAssumption` | `ObjectAllocator`, all of `AllocatorProofs` | a page at a fixed address ends inside the device object it starts in |

`SegmentsCongruent` cannot be dropped. The size of the reserved region is a sum over
physical addresses (`__main__.py:299` and 666), but a segment takes as many pages as its
virtual address requires (line 1005), and `elf.py` reads the two independently. A
segment that starts a page by one address and inside a page by the other can take a
page more than was counted. As a rule no device memory follows the reserved region and
`allocate_fixed_objects` stops the tool with an exception (`CannotPlacePages`). Where
a bank of memory ends with the region, the page is taken from the device memory behind
it and the build is accepted: without the premise, TLC finds `SegmentsFit` violated,
and on the second machine of `MCImage` the build that violates it is accepted. Programs linked with
`microkit.ld` have equal addresses.

## 4. Bounds

* **Running system.** Three domains are the least with a server that is also a
  client, a caller that queues while another is served, and a context lent
  twice. Channel numbers 0 to 2, with 0 at one end and 1 at the other, so that
  swapped ends and a wrong index are visible. `Throttled` says whose budget may
  be exhausted; with all of them in it any order of steps is possible, and with
  none the order is the one of priorities. No counter is bounded, the state
  space is finite as it is.
* **Boot.** Identifiers 0 and 62 are the ends of the range, 1, 3 and 7 lie
  inside. One to three domains, two channels, two interrupts, regions of one
  and two pages in both sizes, floating and fixed, and fixed ones out of order:
  each `repeat` of the code occurs with counts of one and more. Page tables have
  two entries, so that a mapping crosses tables and two mappings share one; a
  large page is two small ones. `Odd` has one description for each check of
  `sysxml.py` and for what only the kernel refuses.
* **Allocation.** Units of the smallest object; objects of 1, 2, 4 and 8 units;
  five untyped objects, one at address 0 and one that is too small for most
  requests; requests for 0, 1 and 3 objects with a fan-out of 2, so that a
  request needs one and two retypes; at most `MaxSlots` slots.
* **Image.** Four machines: memory in one bank, a small bank before the
  kernel's, a kernel in the middle of a bank, a bank that is too small; the loader
  far from everything and close by; all programs of up to two segments of one
  or three units at even and odd addresses, loadable or not, shorter in the file
  than in memory, each linked a page below its physical address, and one segment of
  two units that has its virtual address inside a page and its physical one at the
  start, so that it takes a page more than is counted; symbols at the start, in the middle and across the end of a
  segment; builds that need more slots, more invocation data, both, or more than
  the maximum. A page is two units and a page table has three entries, so that the
  invocation table needs one or two tables, and the kernel lies in one block or
  two, at the start, in the middle and at the end of its half of the addresses.
  Reserved regions come in one or more aligned pieces, and `FanOut` is 2, so that
  some builds cannot bootstrap (`CannotBootstrap`); `MaxUntypeds` and
  `BootstrapDataSize` are such that some do not fit the monitor.
* **Ethernet.** Rings of two slots have an index that wraps and is different
  from the other party's; rings of one slot are full after each frame, which is
  when interfaces stop and wake-ups can get lost. Up to three frames in one
  direction, two at once in opposite directions, an answer of the driver
  between them (`Loads`), at most one tick of the timer.

## 5. Fairness

* Running system: `SF_vars(LoopNext(p))` for each domain. seL4 runs what is
  schedulable, contexts are refilled, and `LoopNext` includes the return of an
  entry point: a domain whose code never returns keeps no promise. It is strong
  fairness because others keep preempting a domain in between. `WF` for the
  monitor, which has the highest priority. What applications and interrupts do
  is not fair: nobody has to call, notify or interrupt.
  `CallsReturn` is what the code can promise: a receive prefers notifications,
  so a server that is notified over and over starves its callers.
* Image: tool, loader and monitor are sequential programs that run until they
  end; weak fairness of `BootNext`. Its `ENABLED` is written out (`Ended`, in
  `Runs`), which says the same and is quick to evaluate.
* Ethernet: weak fairness for each domain, for the transmission of each
  interface and for the delivery of interrupts. Arrival of frames and the timer
  are not fair. The domains interleave freely, which allows more than their
  priorities (`pass` above the drivers) do.

## 6. What is proved

### The running system and the rings

For all protection domains, channels, interrupts and application behaviours
that satisfy these assumptions, each checked by TLC on the instances:
`DescriptionAssumption` (the types of a description; a priority is in 0..254),
`UniqueIdAssumption` (a channel number of a domain names one thing, which
`sysxml.py` enforces up to finding 3), `AppAssumption` (applications only
use capabilities they have), and, for the refinement, `NoneAssumption` (the
value that stands for no entry point and no call is not one of either).

| Theorem | Says |
|---|---|
| `CallInvariant` | `CallInv` holds in every reachable state |
| `TypeCorrect` | `[]TypeOK` |
| `EveryCallOneReply` | `[]OneReplyPerCall` |
| `ProtectedForPeer` | `[]CallerIsPeer` |
| `AscendingCallsNoDeadlock` | `CallsAscend => (Spec => []NoCallDeadlock)`: with the discipline of the manual, calls never deadlock. The premise cannot be dropped (finding 2) |
| `ContextInvariant` | `ContextInv` holds in every reachable state |
| `NoContextLost` | `[]ContextsConserved` |
| `LendInvariant` | `LendInv` holds in every reachable state |
| `OwnContextKept` | `[]ActiveOwnContext` |
| `HandOverInvariant` | `HandOverRule => (Spec => []HandOverInv)` |
| `NobodyStranded` | `HandOverRule => (Spec => []NeverStranded)` |
| `SignalWhileWaiting` | `HandOverRule => (Spec => []SignalledWhileWaiting)` |
| `SystemImplementsChannels` | `ImplementsChannels`: the running system implements `Channels` |
| `RingInvariant` | `RingInv` holds in every reachable state of the Ethernet example, for rings of any size |
| `NoFrameDroppedEarly` | `DropsOnlyWhenFull`, for rings of any size |
| `ExampleImplementsLink` | `ImplementsLink`: each flow of frames of the Ethernet example implements `FrameLink`, for rings of any size and any number of frames |

The last three assume `RingAssumption`: no ring is empty, and the frames that
arrive are of the kinds of the example.

`OneReplyPerCall` is not inductive: that a reply finds its caller depends on
`have_reply` being right at each receive, which depends on what the badge was
when the loop looked at it. `CallInv` adds `LoopConsistent` (badge,
`have_reply` and thread status agree with the place in the loop) and
`CallsThroughCaps` (every call under way, received or being served was made
through a capability of `EndpointCaps`). The proof goes action by action, on
lemmas about each kernel operation: a signal may complete a receive, a reply
wakes exactly the caller in the reply object, a receive takes a notification
or one of the queued callers, and each leaves everything else as it was.

`NoCallDeadlock` follows from `CallsThroughCaps` and `CallsAscend`: in a set of
domains that wait for each other, one of highest priority waits for nobody in
the set.

`ContextsConserved` needs that no operation binds a context twice, and that a
context without a thread is in a notification that can give it back, or is the
one the monitor has just unbound. `ContextInv` says this for each step: the
sequences of moves inside one system call (return to the caller, donation to
the receiver, donation by the notification) each keep contexts distinct and
lose none (`Moves`).

`ActiveOwnContext` says of one domain what depends on all domains that its call
went on to. `LendInv` has a clause for each thing a reply relies on. Whoever
runs on a context that is not its own has it on record in its reply object
(`BorrowedOnRecord`). Such a context came with the caller there, who had it as its
own or had borrowed it (`LentWithCall`). Its owner waits without one
(`LenderWaits`). It is with the domain it was lent to or was lent on from
there (`LentIsHeld`), so that it is at the end of the chain and a reply finds it.
None of this is enough without `NoReplyCycle`, that no set of domains all hold
each other in their reply objects: a reply along a cycle could give the context
back to a domain that has lent it. A receive keeps it because the domain that
accepts a caller was running, so it is in nobody's reply object. A call that
cycles (finding 2) does not violate it either, for such a caller stays in the
queue and is never accepted.

`NeverStranded` and `SignalledWhileWaiting` are false in general (finding 1).
`HandOverRule` is a rule on descriptions under which they hold:

* calls ascend in priority, as the manual demands (line 220);
* a passive domain is notified by domains of lower priority only;
* a passive domain has no interrupts;
* no budget can be exhausted (`Throttled` is empty), so that a runnable domain
  always runs before those of lower priority.

No premise can be dropped: variants of `Ordered.cfg` with an exhausted budget of the
passive server, with an interrupt for it, with a driver above it that notifies it, or
with calls that descend each violate `SignalledWhileWaiting`. The argument of
`HandOverInv` is that nothing can be pending for a passive domain when it hands
its context over. Whoever might have sent something is of lower priority and did
not run, except that it may have sent while the passive domain itself waited for
a reply, or after it had stopped. Calls ascend and nobody of lower priority than
a runnable domain runs, so this is only possible when the chain of domains it
waits for ends in one that has faulted. This is `Stuck`, which no step undoes
(`StuckStays`), and `PendingStuck` says that what is pending for a passive domain
is pending for ever. With nothing pending the receive waits, and
whatever comes later finds the context in the notification or comes with the
caller's (`HasContext`). While the monitor works, it has the highest priority,
so nothing comes between unbind and bind.

`ImplementsChannels` follows from `CallInv` and one lemma for each action that
says which step of `Channels` it is. A system call that sends and receives is
one step of the system and up to two of the promise, so the mapping spreads it:
the reply is `Reply`, while what the receive takes from the kernel remains
undelivered, or an open call, until the loop has looked at the badge (`ReturnMaps`,
`NotifiedDelivers`, `ProtectedServes`). The lemma that takes most work is
`ReceiveKeeps`: a receive moves notifications from the kernel's word to the badge,
or a caller from the queue to the reply object, and no domain's entry, call or
number of undelivered notifications changes by it. A signal (`SignalSends`) may
complete a receive in the same step; either way it adds one notification or
merges with one. That a call is served on the number of its callee's end rests on
`CallsThroughCaps` again, and that a reply answers the call it should on
`OneReplyPerCall`.

The drivers and `pass` share no index of a ring, only the flag in each slot, and
conclude from one flag that a ring is full. `RingInv` says why they may: the full
slots are those from the consumer's index up to the producer's, and if both are
at the same slot, the ring is full or empty (`Ring`). Neither index is the one in
the variables all the time. A flag is set before the producer's index advances
(`InputTail`, `TbdTail`), and `pass` advances the index it consumes at before it
has cleared the flag (`OutputHead`). In between the slot is held by one
party: `DriverHolds` and `PassHolds` say which flags others cannot change
then, in particular that a slot seen empty is still empty when it is filled.
From this, one lemma for filling a slot, one for emptying it, and one step
for each action.

`ImplementsLink` speaks of the frames in the rings in their order. `From` reads
them from a ring, slot by slot from the consumer's on, and `Numbers` selects
those of a flow. With `RingInv`, filling the producer's slot appends to `From`
(`FromFilled`) and emptying the consumer's takes its head (`FromEmptied`),
whatever the wrapping of the indices does; `Numbers` is a recursive function,
and what it yields of a head and a tail, of a sequence with an element appended,
and of its last elements follows from `FoldInduction`. A consumer that has copied
a frame and not yet cleared the flag counts as done with it, so the four kinds
of rings are seen through views (`Rbds`, `Outputs`, `Inputs`, `Tbds`), in which a
step has one of few effects: nothing; a frame comes (`Gets`); a frame goes from
the head of one view to the end of the next (`Gives` and `Gets`), which leaves
the concatenation of the pieces as it was (`PieceMoves`); a frame goes from the
head of some view and nowhere, or out of the last one. Each is a step of
`FrameLink` or a stutter (`LinkStepIsStep`). That the frame that comes and the one that
goes are the same is not in `RingInv`: a driver copies a frame in one action and
publishes it in another. `FrameInv` adds that what was copied is still there
(`DriverCopied`, `PassCopied`), that the shared rings only hold frames that go through
(`OnlyThrough`), so that an answer cannot overtake one of its own flow there, and
that no number is above the number of frames that arrived (`KnownInv`), so that a
new frame is newer than all on the way and all that left. Frames of different
flows may overtake each other.

### The layout of physical memory

For every machine that satisfies `MachineAssumption`, all programs
(`ProgramAssumption`: any list of segments, of any size and at any virtual and
physical addresses, loadable or not), every size of monitor, page, table and kernel object
(`SizeAssumption`; page and monitor are not empty) and every sequence of sizes the builds may need
(`DataAssumption`, they are numbers):

| Theorem | Says |
|---|---|
| `LayoutInvariant` | `LayoutInv` holds in every reachable state, from the first build to the running system |
| `NoAddressTwice` | `[]NothingShared` |
| `FreeMemoryExact` | `[]RegionsExact` |
| `AlignedPowers` | `AlignedPowerOfTwoRegions` cuts every region into disjoint aligned powers of two that hold the same addresses |
| `AllAlignedPowers` | the same of a sequence of disjoint regions, and `AllAlignedRegions` |
| `UntypedsCutFreeMemory` | `[]UntypedsPartition` |
| `ImageInvariant` | `ImageInv` holds in every reachable state |
| `SegmentsInPlace` | `[]SegmentsFit`: no two segments overlap, whatever their addresses; they end in the reserved region if `SegmentsCongruent` |
| `ImageNeverRejected` | `[]ImageAccepted`, whatever the addresses |

The induction over a sequence is a lemma about the operation of a module,
`FoldInduction`, whose operation is a constant (`FoldLeftSteps`: a fold is `f[Len(seq)]`
of a function with `f[k + 1] = op(f[k], seq[k + 1])`). An instance of it for each
operation of a fold (`RemoveRegion`, `InsertRegion`, `PlaceSegment`, ...) turns
the fold into numbered steps, and `UpTo` does the induction over their numbers.

The properties of the regions rest on `RemoveRegionExact`: if one of the regions
covers `old`, `RemoveRegion` leaves a sequence of disjoint regions that holds
what was held before and is not in `old`, each within a region that was there
before. The three cases of the code (the whole region, an end of it, the
middle) are one splice with none, one or two pieces (`RemovedPieces`,
`Splice`). From it, `CoveredByRest`: what lies in one of the remaining regions
is apart from all that was removed. So the monitor, which is allocated from
what is left without the reserved region, is apart from it, and so on through
`emulate_kernel_boot`, which takes the same regions out in another order.

`_kernel_partial_boot` removes all the devices of the kernel and all the banks of
memory from one large region, and each removal needs a single region to cover
what is removed. `RemoveRegion` does not merge, so this is not obvious. The
fold keeps `Rest`: what is left has gaps between its regions (`Apart`), since
every cut is not empty, and with gaps a region that is held is held by one
(`HeldByOne`). The cuts are disjoint by `MachineAssumption`, so each is still
held when its turn comes (`CutsLeaveRest`).

`UntypedsPartition` says of the untyped objects what `RegionsExact` says of the
regions. `2 ^ b` is beyond the provers, so the model's powers of two are a
recursive function (`TwoTo`, with `2 ^ 0 = 1` and `2 ^ (b + 1) = 2 * 2 ^ b`), and
what is needed of them is proved by induction: that they grow, that a smaller one
divides a larger, and that the lowest bit set and the highest power that fits are
what `lsb` and `msb` say. `aligned_power_of_two_regions` cuts a piece off the
start of the region, as large as its alignment and its length allow. The induction
goes down from the end of the region (`AlignedPowers`): the piece is a power of
two, aligned, not empty and not beyond the end, and the rest is already cut.
`UntypedInv` holds that the untyped objects of the last build are those of its free
memory, and that of its device memory and the reserved region.

`SegmentsFit` compares two computations of the code: `phys_mem_regions_from_elf`
adds up the pages of *all* segments by their physical addresses, `build_system`
places the *loadable* ones by their virtual addresses. `Placing` relates the sum, the
placed regions and the kept segments after each segment (`PlacingStep`): the
regions follow each other without a gap, each starts with a page and holds its data
(`PagesHold`), and if the two addresses of each segment fall on pages alike, the
next address never exceeds the sum (`PagesCounted`).

`ImageAccepted` holds without that premise, for another reason. When the segments
take more pages than were reserved, whatever follows the reserved region is at
risk: the kernel or the monitor could be there. But `allocate_fixed_objects` looks
for each page among the device untyped objects, and by `UntypedInv` these hold
device memory and the reserved region and nothing else (`PagesPlaced`). The image of
the kernel, the monitor and the segments all start on page boundaries, so if a
segment reached into one of the others, a page of that segment would start there
(`SegmentsClear`), in ordinary memory, and the tool would have stopped. `ImageInv` therefore
extends `UntypedInv`. It also says that the data of a build that is accepted end in
the table (`BuiltWell`), which is a comparison in `main` of two sizes from different
builds; it is stable because nothing changes the table's size between
`BuildFits` and `MakeImage`.

### The allocation of kernel objects

For all untyped objects that do not overlap (`UntypedAssumption`), all types of
objects (`SizeAssumption`: the size the tool reckons with is a multiple of the
kernel's), every fan-out limit, and fixed pages that end inside their device
object (`FixedPagesAssumption`):

| Theorem | Says |
|---|---|
| `AllocInvariant` | `AllocInv` holds in every reachable state |
| `RetypesAlwaysSucceed` | `[]RetypesSucceed`: the kernel refuses no retype |
| `FixedPagesInPlace` | `[]FixedWhereAsked` |

`RetypesSucceed` looks at the first of the retypes that are still to be performed.
Whether it finds room depends on all that were generated before it, and these
are spread over both programs. `AllocInv` says that the retypes in the list lead
from where the kernel is to where the tool believes it will be: there are states
`x` and `y` such that `x` is what the kernel's state is (`Begins`), the list
leads from `x` to `y`, one retype after the other (`Reaches`), and `y` is what the tool
has written down (`Ends`). For device memory all of these are equalities, since
a fixed page has to be where it was asked for; the padding before it is made of
powers of two that keep the point aligned. For normal memory they are upper
bounds. The tool aligns to a size that is a multiple of the kernel's and, after a
request for nothing, its point is ahead of the kernel's for good (finding 5).
A request adds to the end of the list and moves `y` (`Reaches` composes), a retype
takes its first element and moves `x`, and the slots follow along. `AllocInv`
has a quantifier over all such states and over the steps between them, which TLC
cannot enumerate; the run `allocator` checks what follows from it.

### Only model-checked

* The liveness properties (`CallsReturn`, `NotificationsHandled`, `SizesConverge`,
  `FramesMoveOn`, `ReceiverRestarts`).
* `LoadedIntact`, `VariablesSet`, `KernelMapped` and the
  properties of the bootstrap and of the boot. Folds over sequences and recursive
  functions are no obstacle any more; these need invariants of their own, over
  words, capability addresses or the cells of memory.

## 7. What is not modelled

* Message registers and the contents of messages: the library passes them
  through and no state depends on them.
* XML syntax, attribute and duplicate names, command line and report of the
  tool: pure input and output. The binary format of ELF files, of the image's
  header and of the kernel's tables in `kernel.elf`: the models take what is read
  from them as input.
* `reserve()` of the allocator is only seen as the watermarks `ObjectAllocator`
  starts from, and ASID pools as a set of domains that have been assigned one.
* In the loader: exception levels, caches, the interrupt controller, memory
  attributes of the blocks it maps.
* The seL4 kernel itself. `Sel4Kernel`, `KernelObjects`, the kernel's part of
  `MonitorBoot`, `ObjectAllocator` and `KernelBoot`, and the MMU are assumptions
  of this project.
* The shared timer (`gpt.c`). It keeps timeouts of several clients in one compare
  register and its comments list races of its own ("Is there a race here?"); no
  document or test says what a client may rely on, so that there is neither a
  promise to check nor a statement to refute. `Ethernet` has its notifications
  come at any time, which is more than it does.
* The other examples and tests are single domains that print. The build scripts
  run compilers and copy files.

## 8. Plan

The order follows from what everything else rests on: the running system first
(`Sel4Kernel`, `Monitor`, `LibMicrokit`, `Microkit`, `Channels`), then the boot
that brings it into the state `Microkit` starts from (`SystemDescription`,
`Invocations`, `BuildSystem`, `KernelObjects`, `Boot`), then the predictions of
the tool and what depends on them (`ObjectAllocator`, and the chain from
`MemoryRegions` to `MonitorBoot`), then the example with the most concurrency
(`Ethernet`). These exist. Next, in this order:

Proofs
* `LoadedIntact`: the order of the copies and the offsets of the data, from
  `ImageInvariant` and a fold over the lengths of the regions.

Models
* A run that starts `Boot` in the final states of `MonitorBoot`, so that bootstrap
  and system invocations are performed on one kernel; now they meet at
  `AllocationsInStep` and `TableReadable`.
