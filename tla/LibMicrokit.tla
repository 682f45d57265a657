----------------------------- MODULE LibMicrokit -----------------------------
(***************************************************************************)
(* A protection domain: the event loop of libmicrokit/src/main.c around    *)
(* the three entry points of the application, which are external and may   *)
(* do anything the API of microkit.h lets them do.                         *)
(***************************************************************************)
EXTENDS Monitor

CONSTANTS
  AppCalls,   \* the endpoint capabilities the applications ever call through
  MayFault    \* the protection domains whose application code may fault

ASSUME AppAssumption == AppCalls \subseteq EndpointCaps /\ MayFault \subseteq PD

VARIABLES
  pc,          \* where each protection domain is in its program
  have_reply,  \* handler_loop: the next receive first replies
  have_signal, \* the next receive first signals the monitor; never reset
  ch,          \* the argument of the entry point that is running
  masked       \* interrupts delivered and not acknowledged yet

libVars == <<pc, have_reply, have_signal, ch, masked>>
vars == <<kernel, monitor, libVars>>

Entry == {"init", "notified", "protected"}
Location == Entry \cup {"loop", "dispatch"}

LibInit ==
  /\ pc = [p \in PD |-> "init"]
  /\ have_reply = [p \in PD |-> FALSE]
  /\ have_signal = [p \in PD |-> FALSE]
  /\ ch = [p \in PD |-> None]
  /\ masked = {}

(***************************************************************************)
(* EXTERNAL: the scheduler.  The monitor preempts everything; a domain     *)
(* runs if it is schedulable and every schedulable domain of a higher      *)
(* priority runs on a scheduling context that can be out of budget.        *)
(***************************************************************************)
CanRun(p) ==
  /\ monitor = Idle
  /\ Schedulable(kernel, p)
  /\ \A q \in PD : Schedulable(kernel, q) /\ Priority[q] > Priority[p]
                     => kernel.sc[q] \in Throttled

-----------------------------------------------------------------------------
(* The application code: it runs inside an entry point. *)

InEntry(p) == CanRun(p) /\ pc[p] \in Entry

Notify(p) ==     \* microkit_notify
  /\ InEntry(p)
  /\ \E cap \in NotifyCaps :
       /\ cap[1] = p
       /\ kernel' = Signal(kernel, cap[3], {cap[4]})
  /\ UNCHANGED <<monitor, libVars>>

\* Mutant: the tool badged the capability with the caller's channel number.
PPCallBadgedByCaller(p) ==
  /\ InEntry(p)
  /\ \E cap \in AppCalls :
       /\ cap[1] = p
       /\ kernel' = Call(kernel, p, cap[2], cap[3])
  /\ UNCHANGED <<monitor, libVars>>

\* Mutant: the tool swapped the ends and minted the caller's own endpoint.
PPCallOwnEndpoint(p) ==
  /\ InEntry(p)
  /\ \E cap \in AppCalls :
       /\ cap[1] = p
       /\ kernel' = Call(kernel, p, cap[2], cap[1])
  /\ UNCHANGED <<monitor, libVars>>

PPCall(p) ==     \* microkit_ppcall
  /\ InEntry(p)
  /\ \E cap \in AppCalls :
       /\ cap[1] = p
       /\ kernel' = Call(kernel, p, cap[4], cap[3])
  /\ UNCHANGED <<monitor, libVars>>

IrqAck(p) ==     \* microkit_irq_ack
  /\ InEntry(p)
  /\ \E irq \in masked : irq[1] = p /\ masked' = masked \ {irq}
  /\ UNCHANGED <<kernel, monitor, pc, have_reply, have_signal, ch>>

\* The application faults: the kernel sends a fault message to the monitor.
Fault(p) ==
  /\ p \in MayFault
  /\ InEntry(p)
  /\ kernel' = [kernel EXCEPT !.status[p] = "Stopped"]
  /\ monitor' = FaultMessage(p)
  /\ UNCHANGED libVars

-----------------------------------------------------------------------------
(* main and handler_loop *)

\* Mutant: main prepares the signal without looking at passive.
InitReturnsAlwaysSignal(p) ==
  /\ CanRun(p) /\ pc[p] = "init"
  /\ have_signal' = [have_signal EXCEPT ![p] = TRUE]
  /\ pc' = [pc EXCEPT ![p] = "loop"]
  /\ UNCHANGED <<kernel, monitor, have_reply, ch, masked>>

\* Mutant: main signals the monitor at once, before the domain receives.
InitReturnsSignalNow(p) ==
  /\ CanRun(p) /\ pc[p] = "init"
  /\ monitor' = IF p \in Passive THEN NullMessage(p) ELSE Idle
  /\ pc' = [pc EXCEPT ![p] = "loop"]
  /\ UNCHANGED <<kernel, have_signal, have_reply, ch, masked>>

\* init returns; main prepares the signal of a passive domain.
InitReturns(p) ==
  /\ CanRun(p) /\ pc[p] = "init"
  /\ have_signal' = [have_signal EXCEPT ![p] = p \in Passive]
  /\ pc' = [pc EXCEPT ![p] = "loop"]
  /\ UNCHANGED <<kernel, monitor, have_reply, ch, masked>>

AtReceive(p) ==
  /\ CanRun(p) /\ pc[p] = "loop"
  /\ pc' = [pc EXCEPT ![p] = "dispatch"]
  /\ UNCHANGED <<have_reply, have_signal, ch, masked>>

ReplyRecv(p) ==
  /\ AtReceive(p) /\ have_reply[p]
  /\ kernel' \in Receive(Reply(kernel, p), p)
  /\ UNCHANGED monitor

\* The monitor is waiting whenever a domain runs, so the send is not lost.
NBSendRecv(p) ==
  /\ AtReceive(p) /\ ~have_reply[p] /\ have_signal[p]
  /\ kernel' \in Receive(kernel, p)
  /\ monitor' = NullMessage(p)

Recv(p) ==
  /\ AtReceive(p) /\ ~have_reply[p] /\ ~have_signal[p]
  /\ kernel' \in Receive(kernel, p)
  /\ UNCHANGED monitor

\* The badge has the endpoint bit: call protected with the channel in it.
DispatchProtected(p) ==
  /\ CanRun(p) /\ pc[p] = "dispatch"
  /\ kernel.badge[p].ep
  /\ have_reply' = [have_reply EXCEPT ![p] = TRUE]
  /\ \E i \in kernel.badge[p].ids : ch' = [ch EXCEPT ![p] = i]
  /\ pc' = [pc EXCEPT ![p] = "protected"]
  /\ kernel' = [kernel EXCEPT !.badge[p] = NoBadge]
  /\ UNCHANGED <<monitor, have_signal, masked>>

\* Mutant: have_reply survives a notification.
DispatchKeepsReply(p) ==
  /\ CanRun(p) /\ pc[p] = "dispatch"
  /\ ~kernel.badge[p].ep
  /\ \E i \in kernel.badge[p].ids :
       /\ \A j \in kernel.badge[p].ids : i <= j
       /\ ch' = [ch EXCEPT ![p] = i]
       /\ kernel' = [kernel EXCEPT !.badge[p].ids = @ \ {i}]
  /\ pc' = [pc EXCEPT ![p] = "notified"]
  /\ UNCHANGED <<monitor, have_reply, have_signal, masked>>

\* Mutant: only one notification of a batch is handled.
DispatchFirstOnly(p) ==
  /\ CanRun(p) /\ pc[p] = "dispatch"
  /\ ~kernel.badge[p].ep
  /\ have_reply' = [have_reply EXCEPT ![p] = FALSE]
  /\ \E i \in kernel.badge[p].ids :
       /\ \A j \in kernel.badge[p].ids : i <= j
       /\ ch' = [ch EXCEPT ![p] = i]
       /\ kernel' = [kernel EXCEPT !.badge[p] = NoBadge]
  /\ pc' = [pc EXCEPT ![p] = "notified"]
  /\ UNCHANGED <<monitor, have_signal, masked>>

\* Mutant: the index is incremented before notified is called.
DispatchNextIndex(p) ==
  /\ CanRun(p) /\ pc[p] = "dispatch"
  /\ ~kernel.badge[p].ep
  /\ have_reply' = [have_reply EXCEPT ![p] = FALSE]
  /\ \E i \in kernel.badge[p].ids :
       /\ \A j \in kernel.badge[p].ids : i <= j
       /\ ch' = [ch EXCEPT ![p] = i + 1]
       /\ kernel' = [kernel EXCEPT !.badge[p].ids = @ \ {i}]
  /\ pc' = [pc EXCEPT ![p] = "notified"]
  /\ UNCHANGED <<monitor, have_signal, masked>>

\* Otherwise shift the badge up to its lowest set bit and call notified.
DispatchNotified(p) ==
  /\ CanRun(p) /\ pc[p] = "dispatch"
  /\ ~kernel.badge[p].ep
  /\ have_reply' = [have_reply EXCEPT ![p] = FALSE]
  /\ \E i \in kernel.badge[p].ids :
       /\ \A j \in kernel.badge[p].ids : i <= j
       /\ ch' = [ch EXCEPT ![p] = i]
       /\ kernel' = [kernel EXCEPT !.badge[p].ids = @ \ {i}]
  /\ pc' = [pc EXCEPT ![p] = "notified"]
  /\ UNCHANGED <<monitor, have_signal, masked>>

\* Mutant: the loop over the bits of the badge ends after the first one.
NotifiedReturnsToLoop(p) ==
  /\ CanRun(p) /\ pc[p] = "notified"
  /\ pc' = [pc EXCEPT ![p] = "loop"]
  /\ ch' = [ch EXCEPT ![p] = None]
  /\ UNCHANGED <<kernel, monitor, have_reply, have_signal, masked>>

NotifiedReturns(p) ==
  /\ CanRun(p) /\ pc[p] = "notified"
  /\ pc' = [pc EXCEPT ![p] = IF kernel.badge[p].ids = {} THEN "loop"
                             ELSE "dispatch"]
  /\ ch' = [ch EXCEPT ![p] = None]
  /\ UNCHANGED <<kernel, monitor, have_reply, have_signal, masked>>

ProtectedReturns(p) ==
  /\ CanRun(p) /\ pc[p] = "protected"
  /\ pc' = [pc EXCEPT ![p] = "loop"]
  /\ ch' = [ch EXCEPT ![p] = None]
  /\ UNCHANGED <<kernel, monitor, have_reply, have_signal, masked>>

-----------------------------------------------------------------------------
(* The interrupt controller: a line fires, and stays masked until the ack. *)
Irq ==
  \E irq \in Irqs \ masked :
    /\ kernel' = Signal(kernel, irq[1], {irq[2]})
    /\ masked' = masked \cup {irq}
    /\ UNCHANGED <<monitor, pc, have_reply, have_signal, ch>>

AppNext(p) == Notify(p) \/ PPCall(p) \/ IrqAck(p) \/ Fault(p)

LoopNext(p) ==
  \/ InitReturns(p) \/ ReplyRecv(p) \/ NBSendRecv(p) \/ Recv(p)
  \/ DispatchProtected(p) \/ DispatchNotified(p)
  \/ NotifiedReturns(p) \/ ProtectedReturns(p)
=============================================================================
