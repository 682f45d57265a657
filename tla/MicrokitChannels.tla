-------------------------- MODULE MicrokitChannels ---------------------------
(***************************************************************************)
(* The running system implements Channels.                                 *)
(***************************************************************************)
EXTENDS Microkit

\* The entry point a domain is in.
EntryOf(p) == IF pc[p] \in Entry THEN <<pc[p], ch[p]>> ELSE None

\* A notification is undelivered in the notification word and in the part of
\* the received badge that handler_loop has not shifted out yet.
Undelivered(p, i) ==
  (IF i \in kernel.ntfn[p] THEN 1 ELSE 0) +
  (IF ~kernel.badge[p].ep /\ i \in kernel.badge[p].ids THEN 1 ELSE 0)

\* The channel in the badge of a call.
ChannelIn(ids) == CHOOSE i \in Id : ids = {i}

\* A call is under way from seL4_Call until protected begins to run for it.
OpenCall(c) ==
  LET q == kernel.on[c]
  IN IF kernel.status[c] = "BlockedOnSend" THEN <<q, kernel.via[c]>>
     ELSE IF kernel.status[c] # "BlockedOnReply" THEN None
     ELSE IF pc[q] = "dispatch"
     THEN <<q, ChannelIn(kernel.badge[q].ids)>>
     ELSE <<q>>

\* The caller whose call has begun to be served and is not answered yet.
OwedBy(p) ==
  IF pc[p] = "protected" \/ (pc[p] = "loop" /\ have_reply[p]) THEN kernel.reply[p] ELSE None

Abstract == INSTANCE Channels WITH
  Signals <- NotifyCaps,
  Interrupts <- Irqs,
  Calls <- AppCalls,
  entry <- [p \in PD |-> EntryOf(p)],
  undelivered <- [p \in PD |-> [i \in Id |-> Undelivered(p, i)]],
  call <- [c \in PD |-> OpenCall(c)],
  serving <- [p \in PD |-> OwedBy(p)]

\* None is a value of its own: no entry point and no call.
ASSUME NoneAssumption ==
  None \notin (Entry \X (Id \cup {None})) \cup (PD \X Id) \cup {<<p>> : p \in PD}

(***************************************************************************)
(* The event loop, the badges the tool assigns and the kernel objects      *)
(* together keep the promise of Channels: every step of the system is a    *)
(* step of Channels or none at all.                                        *)
(***************************************************************************)
ImplementsChannels == Abstract!Spec
=============================================================================
