-------------------------- MODULE SystemDescription --------------------------
(***************************************************************************)
(* A system description, and what the tool (tool/microkit/sysxml.py) makes *)
(* sure of before it builds anything from it.  A description d is          *)
(*                                                                         *)
(*   d.n          the number of protection domains, which are 1..n in the  *)
(*                order of the file                                        *)
(*   d.pp         the domains with pp="true"                               *)
(*   d.passive    the domains with passive="true"                          *)
(*   d.irqs[p]    the sequence of irq elements of p, [irq, id]             *)
(*   d.channels   the sequence of channel elements, [a, ida, b, idb]       *)
(*   d.priority[p], d.budget[p], d.period[p]   how p is scheduled          *)
(*   d.mrs        the memory regions with those of the ELF segments,       *)
(*                [size, page_size, phys], where phys may be Floating      *)
(*   d.maps[p]    the sequence of map elements of p followed by those of   *)
(*                its ELF segments, [mr, vaddr, perms, cached]             *)
(*   d.ipc[p]     the page p's program has its IPC buffer at               *)
(*   d.entry[p]   the address the program starts at                        *)
(*                                                                         *)
(* Addresses are counted in small pages.                                   *)
(***************************************************************************)
EXTENDS Naturals, FiniteSets, SequencesExt

CONSTANTS
  Floating,   \* the phys of a region without phys_addr
  Entries     \* of a page table: the small pages of a large page

ASSUME EntriesAssumption == Entries \in Nat \ {0, 1}

PageSizes == {1, Entries}
PageCount(mr) == mr.size \div mr.page_size

\* The PDs in the order of the file, and one entry for each element of theirs.
Domains(d) == [p \in 1..d.n |-> p]

EachOf(d, elements) ==
  FlattenSeq([p \in 1..d.n |->
                [i \in DOMAIN elements[p] |-> [pd |-> p, el |-> elements[p][i]]]])

IrqList(d) == EachOf(d, d.irqs)
MapList(d) == EachOf(d, d.maps)

IrqIds(d, p) == {d.irqs[p][i].id : i \in DOMAIN d.irqs[p]}

-----------------------------------------------------------------------------
(* SystemDescription.__init__ *)

\* ch_ids[p] when the channels before the k-th one have been looked at.
ChIds(d, p, k) ==
  IrqIds(d, p) \cup {d.channels[c].ida : c \in {e \in 1..(k-1) : d.channels[e].a = p}}
               \cup {d.channels[c].idb : c \in {e \in 1..(k-1) : d.channels[e].b = p}}

\* Each end is looked up before either end of the same channel is recorded.
NoDuplicateChannelIds(d) ==
  /\ \A p \in 1..d.n : IsInjective([i \in DOMAIN d.irqs[p] |-> d.irqs[p][i].id])
  /\ \A k \in DOMAIN d.channels :
       /\ d.channels[k].ida \notin ChIds(d, d.channels[k].a, k)
       /\ d.channels[k].idb \notin ChIds(d, d.channels[k].b, k)

\* xml2pd and xml2channel: "id must be < 63".
IdsInRange(d) ==
  /\ \A p \in 1..d.n : IrqIds(d, p) \subseteq 0..62
  /\ \A k \in DOMAIN d.channels : {d.channels[k].ida, d.channels[k].idb} \subseteq 0..62

NoDuplicateIrqs(d) == IsInjective([i \in DOMAIN IrqList(d) |-> IrqList(d)[i].el.irq])

\* Those of the segments of the programs are not checked: build_system makes them,
\* and rounds their addresses.
MapsAligned(d) ==
  \A p \in 1..d.n : \A i \in DOMAIN d.maps[p] :
    /\ d.maps[p][i].mr \in DOMAIN d.mrs
    /\ d.maps[p][i].vaddr % d.mrs[d.maps[p][i].mr].page_size = 0

\* xml2mr
RegionsValid(d) ==
  \A m \in DOMAIN d.mrs :
    /\ d.mrs[m].page_size \in PageSizes
    /\ d.mrs[m].size % d.mrs[m].page_size = 0
    /\ d.mrs[m].phys # Floating => d.mrs[m].phys % d.mrs[m].page_size = 0

\* xml2pd; "write-only mappings are not allowed".
DomainsValid(d) ==
  \A p \in 1..d.n :
    /\ d.priority[p] \in 0..254
    /\ d.budget[p] <= d.period[p]
    /\ \A i \in DOMAIN d.maps[p] : d.maps[p][i].perms # {"w"}

Accepted(d) ==
  /\ d.n \in 1..63
  /\ \A k \in DOMAIN d.channels : {d.channels[k].a, d.channels[k].b} \subseteq 1..d.n
  /\ NoDuplicateIrqs(d)
  /\ IdsInRange(d)
  /\ NoDuplicateChannelIds(d)
  /\ MapsAligned(d) /\ RegionsValid(d) /\ DomainsValid(d)

-----------------------------------------------------------------------------
(* What the description means, for the properties of the built system. *)

\* The identifiers of p, one entry for each place that gives one.
IdPlaces(d, p) ==
  {<<"irq", i>> : i \in DOMAIN d.irqs[p]} \cup
  {<<"a", k>> : k \in {c \in DOMAIN d.channels : d.channels[c].a = p}} \cup
  {<<"b", k>> : k \in {c \in DOMAIN d.channels : d.channels[c].b = p}}

IdAt(d, p, place) ==
  CASE place[1] = "irq" -> d.irqs[p][place[2]].id
    [] place[1] = "a"   -> d.channels[place[2]].ida
    [] place[1] = "b"   -> d.channels[place[2]].idb

IdsDistinct(d) ==
  \A p \in 1..d.n : \A x, y \in IdPlaces(d, p) :
    IdAt(d, p, x) = IdAt(d, p, y) => x = y

\* The pages a map covers, and those of the IPC buffer.
Covered(d, m) == m.vaddr .. (m.vaddr + d.mrs[m.mr].size - 1)

MapsDisjoint(d) ==
  \A p \in 1..d.n :
    /\ \A i, j \in DOMAIN d.maps[p] :
         i # j => Covered(d, d.maps[p][i]) \cap Covered(d, d.maps[p][j]) = {}
    /\ \A i \in DOMAIN d.maps[p] : d.ipc[p] \notin Covered(d, d.maps[p][i])
=============================================================================
