------------------------------- MODULE MCBoot --------------------------------
(***************************************************************************)
(* Small descriptions for TLC.  Identifiers are the least and the greatest *)
(* a channel may have, and one in between.  Page tables have two entries:  *)
(* a large page is two small ones, and a directory covers four.            *)
(***************************************************************************)
EXTENDS Boot

Ends(P) == [a: P, ida: {0, 62}, b: P, idb: {0, 62}]

\* Up to two channels between two domains, or from a domain to itself.
TwoDomainChannels == {<<>>} \cup {<<c>> : c \in Ends({1, 2})} \cup
  {<<[a |-> 1, ida |-> 0, b |-> 2, idb |-> 0], c>> : c \in Ends({1, 2})}

\* A chain of three domains, with any identifiers.
ChainChannels ==
  {<<[a |-> 1, ida |-> n, b |-> 2, idb |-> 0], [a |-> 3, ida |-> 7, b |-> 2, idb |-> m]>> :
     n, m \in {0, 7}}

\* Interrupts: none, two on different domains, two on one of them (the second
\* one may use an identifier a channel of the domain has already).
NoIrqs(n) == [p \in 1..n |-> <<>>]
OneEach(n) == [p \in 1..n |-> IF p <= 2 THEN <<[irq |-> 30 + p, id |-> 1]>> ELSE <<>>]
TwoOnOne(n) ==
  [p \in 1..n |-> IF p = 2 THEN <<[irq |-> 40, id |-> 62], [irq |-> 33, id |-> 3]>> ELSE <<>>]

Region(size, page_size, phys) == [size |-> size, page_size |-> page_size, phys |-> phys]

\* A small region of two pages, a large one of two pages, two fixed ones that the
\* file has out of order, and an ELF segment for each domain.
MRs(n) ==
  <<Region(2, 1, Floating), Region(4, 2, Floating), Region(1, 1, 9), Region(2, 1, 3)>> \o
  [p \in 1..n |-> Region(1, 1, 20 + p)]

Map(m, v, perms, cached) == [mr |-> m, vaddr |-> v, perms |-> perms, cached |-> cached]
Segment(n, p, perms) == Map(4 + p, 1, perms, TRUE)

\* Every domain maps its segment.  Domain 1 maps a large region apart from it or
\* over the IPC buffer, and shares another region with the last domain.
MapsWith(n, v, perms) ==
  [p \in 1..n |->
     (IF p = 1 THEN <<Map(2, v, {"r"}, FALSE), Map(4, 12, {"r", "w"}, FALSE)>>
      ELSE IF p = n THEN <<Map(1, 3, {"r", "x"}, TRUE), Map(4, 8, {"r"}, TRUE)>> ELSE <<>>)
     \o <<Segment(n, p, perms)>>]

Data == {"r", "w"}
Apart == 4
Over == 2

Describe(n, channels, pp, passive, irqs, maps) ==
  [n: {n}, pp: pp, passive: passive, channels: channels, irqs: irqs, mrs: {MRs(n)},
   maps: maps, ipc: {[p \in 1..n |-> 2]}, priority: {[p \in 1..n |-> 100 + p]},
   budget: {[p \in 1..n |-> 10 * p]}, period: {[p \in 1..n |-> 10 * p + p]},
   entry: {[p \in 1..n |-> 1000 + p]}]

Base == CHOOSE d \in Describe(2, {<<>>}, {{2}}, {{}}, {OneEach(2)}, {MapsWith(2, Apart, Data)}) : TRUE

\* What the tool refuses, or the kernel does.
Odd ==
  {[Base EXCEPT !.priority[2] = 255], [Base EXCEPT !.budget[1] = 12], [Base EXCEPT !.budget[1] = 1],
   [Base EXCEPT !.mrs[2].page_size = 4], [Base EXCEPT !.mrs[2].size = 5],
   [Base EXCEPT !.mrs[2].phys = 5], [Base EXCEPT !.mrs[2].size = 0],
   [Base EXCEPT !.maps[1][2].perms = {"w"}], [Base EXCEPT !.maps[1][1].vaddr = 5],
   [Base EXCEPT !.maps[1][2].vaddr = 0], [Base EXCEPT !.maps[2][1].mr = 9]}

MCDescriptions ==
  Describe(2, TwoDomainChannels, {{2}, {1, 2}}, {{2}}, {NoIrqs(2), TwoOnOne(2)},
           {MapsWith(2, Apart, Data)}) \cup
  Describe(2, {<<>>, <<[a |-> 1, ida |-> 0, b |-> 2, idb |-> 62]>>}, {{1}}, {{}}, {OneEach(2)},
           {MapsWith(2, v, perms) : v \in {Apart, Over}, perms \in {Data, {"r", "x"}, {"r"}}}) \cup
  Describe(3, ChainChannels, {{2}, {1, 3}}, {{1, 3}}, {OneEach(3), TwoOnOne(3)},
           {MapsWith(3, Apart, Data)}) \cup
  Describe(1, {<<>>}, {{}}, {{}, {1}}, {NoIrqs(1)}, {MapsWith(1, Apart, Data)}) \cup
  Odd

\* A channel with both ends at the same domain.
SelfChannels ==
  Describe(2, {<<c>> : c \in Ends({1})}, {{2}}, {{}}, {NoIrqs(2)}, {MapsWith(2, Apart, Data)})
=============================================================================
