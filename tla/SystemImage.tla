----------------------------- MODULE SystemImage -----------------------------
(***************************************************************************)
(* The part of a system description that decides who may talk to whom, and *)
(* the capabilities the tool (tool/microkit/__main__.py, build_system)     *)
(* places in each protection domain's CSpace for it.                       *)
(*                                                                         *)
(* A capability is the tuple <<p, i, q, j>>: protection domain p holds, in *)
(* the slot of its channel i, a capability to an object of q, badged so    *)
(* that q sees its own channel number j.                                   *)
(***************************************************************************)
EXTENDS Naturals, FiniteSets

CONSTANTS
  PD,        \* the protection domains
  Id,        \* the channel numbers in use, out of 0..62
  Priority,  \* the priority attribute of each protection domain
  PP,        \* the protection domains with pp="true"
  Passive,   \* the protection domains with passive="true"
  Throttled, \* those whose budget is smaller than their period
  Channels,  \* the channel elements, [a, ida, b, idb]
  Irqs,      \* the irq elements, <<pd, id>>
  None       \* no protection domain, no channel

ChannelEnds(c) == {<<c.a, c.ida>>, <<c.b, c.idb>>}

(***************************************************************************)
(* What sysxml.py accepts.  Note what is absent: nothing relates a channel *)
(* to the priorities of its ends, and the two ends may be the same domain. *)
(***************************************************************************)
ASSUME DescriptionAssumption ==
  /\ Id \subseteq 0..62
  /\ Priority \in [PD -> 0..254]
  /\ PP \subseteq PD /\ Passive \subseteq PD /\ Throttled \subseteq PD
  /\ Channels \subseteq [a: PD, ida: Id, b: PD, idb: Id]
  /\ Irqs \subseteq PD \X Id
  /\ None \notin PD \cup Id

\* "duplicate channel id": a channel number of a domain names one thing.
ASSUME UniqueIdAssumption ==
  /\ \A c, d \in Channels : ChannelEnds(c) \cap ChannelEnds(d) # {} => c = d
  /\ \A c \in Channels : ChannelEnds(c) \cap Irqs = {}

\* The badged notification capabilities, one for each end of each channel.
NotifyCaps ==
  {<<c.a, c.ida, c.b, c.idb>> : c \in Channels} \cup
  {<<c.b, c.idb, c.a, c.ida>> : c \in Channels}

\* The badged endpoint capabilities: only towards a domain that has pp set.
EndpointCaps == {cap \in NotifyCaps : cap[3] \in PP}
=============================================================================
