------------------------------- MODULE Microkit -------------------------------
(***************************************************************************)
(* A running Microkit system: the protection domains (LibMicrokit), the    *)
(* monitor (Monitor), the interrupts and the kernel between them, from the *)
(* moment the monitor has resumed every TCB and waits for messages.        *)
(***************************************************************************)
EXTENDS LibMicrokit

Init == kernel = InitKernel /\ MonitorInit /\ LibInit

Next ==
  \/ \E p \in PD : AppNext(p) \/ LoopNext(p)
  \/ MonitorNext /\ UNCHANGED libVars
  \/ Irq

Spec == Init /\ [][Next]_vars

(***************************************************************************)
(* The state of the domains, the monitor and the kernel is well formed.    *)
(***************************************************************************)
TypeOK ==
  /\ kernel \in KernelState
  /\ monitor \in MonitorState
  /\ pc \in [PD -> Location]
  /\ have_reply \in [PD -> BOOLEAN]
  /\ have_signal \in [PD -> BOOLEAN]
  /\ ch \in [PD -> Id \cup {None}]
  /\ masked \subseteq Irqs

-----------------------------------------------------------------------------
(* Safety *)

Waiting(p) == kernel.status[p] \in {"BlockedOnReceive", "BlockedOnNotification"}
Calling(p) == kernel.status[p] \in {"BlockedOnSend", "BlockedOnReply"}

\* p has taken a call and not replied to it yet.
Serving(p) ==
  \/ pc[p] = "dispatch" /\ kernel.badge[p].ep
  \/ pc[p] = "protected"
  \/ pc[p] = "loop" /\ have_reply[p]

(***************************************************************************)
(* One reply for each call: a reply object holds a caller exactly while    *)
(* its domain serves a call (in particular, have_reply is right at every   *)
(* receive, so that no receive cancels a caller and no reply goes to       *)
(* nobody), the caller is blocked on that reply, and no caller waits for a *)
(* reply nobody is going to send.                                          *)
(***************************************************************************)
OneReplyPerCall ==
  /\ \A p \in PD : kernel.reply[p] # None <=> Serving(p)
  /\ \A p \in PD : kernel.reply[p] # None =>
       /\ kernel.status[kernel.reply[p]] = "BlockedOnReply"
       /\ kernel.on[kernel.reply[p]] = p
  /\ \A c \in PD : kernel.status[c] = "BlockedOnReply"
                     => kernel.reply[kernel.on[c]] = c

(***************************************************************************)
(* protected(ch) always runs for the domain at the other end of channel    *)
(* ch: the badge that selects ch and the reply object that receives the    *)
(* answer belong to the same call.                                         *)
(***************************************************************************)
CallerIsPeer ==
  \A p \in PD : pc[p] = "protected" =>
    \E i \in Id : <<kernel.reply[p], i, p, ch[p]>> \in EndpointCaps

(***************************************************************************)
(* Scheduling contexts are neither duplicated nor lost, whatever chain of  *)
(* calls, replies, signals and monitor requests moves them: each one is    *)
(* with one TCB, or parked in its notification, or in the monitor's hands. *)
(***************************************************************************)
ContextsConserved ==
  \A s \in PD :
    /\ \A p, q \in PD : kernel.sc[p] = s /\ kernel.sc[q] = s => p = q
    /\ \/ \E p \in PD : kernel.sc[p] = s
       \/ s \in kernel.bound
       \/ monitor = [at |-> "bind", pd |-> s]

(***************************************************************************)
(* A domain that is not passive runs on the context with its own budget,   *)
(* and only lends it for the time of its own calls: while it is not        *)
(* waiting for a reply, nobody else runs on it.                            *)
(***************************************************************************)
ActiveOwnContext ==
  \A p \in PD \ Passive :
    kernel.status[p] # "BlockedOnReply" => kernel.sc[p] = p

(***************************************************************************)
(* A passive domain takes over the budget of a caller or of its own        *)
(* notification, so a domain that can run always has a budget to run on:   *)
(* it is never left runnable without a scheduling context.                 *)
(***************************************************************************)
NeverStranded ==
  \A p \in PD : kernel.status[p] = "Running" => kernel.sc[p] # None

(***************************************************************************)
(* libmicrokit/src/main.c:96 says of the signal to the monitor "We delay   *)
(* this signal so we are ready waiting on a recv() syscall".               *)
(***************************************************************************)
SignalledWhileWaiting ==
  monitor.at = "unbind" => Waiting(monitor.pd)

(***************************************************************************)
(* No deadlock of protected calls (docs/manual.md:615): there is no set of *)
(* domains each blocked in a call on another of the set.                   *)
(***************************************************************************)
NoCallDeadlock ==
  \A S \in SUBSET PD :
    S # {} => \E c \in S : ~(Calling(c) /\ kernel.on[c] \in S)

-----------------------------------------------------------------------------
(* The inductive invariant behind OneReplyPerCall and CallerIsPeer. *)

\* The badge and have_reply agree with the place the event loop is at, and a
\* domain is only blocked where it made the system call that blocks it.
LoopConsistent(p) ==
  /\ pc[p] \in {"init", "loop", "protected"} => kernel.badge[p] = NoBadge
  /\ pc[p] = "notified" => ~kernel.badge[p].ep
  /\ pc[p] \in {"init", "notified"} => ~have_reply[p]
  /\ pc[p] = "protected" => have_reply[p]
  /\ Waiting(p) => pc[p] = "dispatch" /\ kernel.badge[p] = NoBadge
  /\ Calling(p) => pc[p] \in Entry

\* A call under way was made through a capability; so was the call whose badge
\* a domain has received, and the one it runs protected for.
CallThroughCap(c) ==
  Calling(c) =>
    \E i, j \in Id : /\ <<c, i, kernel.on[c], j>> \in AppCalls
                     /\ kernel.status[c] = "BlockedOnSend" => kernel.via[c] = j

TakenThroughCap(p) ==
  pc[p] = "dispatch" /\ kernel.badge[p].ep =>
    \E i, j \in Id : /\ kernel.badge[p].ids = {j}
                     /\ <<kernel.reply[p], i, p, j>> \in AppCalls

ServedThroughCap(p) ==
  pc[p] = "protected" =>
    \E i \in Id : <<kernel.reply[p], i, p, ch[p]>> \in AppCalls

CallsThroughCaps ==
  \A p \in PD : CallThroughCap(p) /\ TakenThroughCap(p) /\ ServedThroughCap(p)

\* The conjunction that is preserved by every step of the system.
CallInv ==
  /\ TypeOK
  /\ \A p \in PD : LoopConsistent(p)
  /\ OneReplyPerCall
  /\ CallsThroughCaps

-----------------------------------------------------------------------------
(***************************************************************************)
(* Liveness.  Fairness: a domain that can run again and again takes a step *)
(* of its event loop, which includes returning from an entry point (the    *)
(* scheduler runs what is schedulable, and application code terminates);   *)
(* the monitor always gets to run.  Interrupts and the applications' calls *)
(* and notifications are not fair: nobody has to make them.                *)
(***************************************************************************)
Fairness ==
  /\ \A p \in PD : SF_vars(LoopNext(p))
  /\ WF_vars(MonitorNext /\ UNCHANGED libVars)

FairSpec == Spec /\ Fairness

(***************************************************************************)
(* A notification or an interrupt signalled to a domain that serves others *)
(* is eventually handled: notified runs with that very channel.            *)
(***************************************************************************)
NotificationsHandled ==
  \A p \in PP : \A i \in Id :
    i \in kernel.ntfn[p] ~> pc[p] = "notified" /\ ch[p] = i

(***************************************************************************)
(* A protected call returns, unless some server is notified over and over: *)
(* the kernel completes a receive with a pending notification before it    *)
(* looks at the callers on the endpoint.                                   *)
(***************************************************************************)
CallsReturn ==
  \A c \in PD : <>[]Calling(c) => \E p \in PP : []<>(pc[p] = "notified")
=============================================================================
