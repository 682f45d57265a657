------------------------------- MODULE Monitor -------------------------------
(***************************************************************************)
(* The monitor (monitor/src/main.c, function monitor): one thread, with    *)
(* the highest priority, that receives on the fault endpoint.  A message   *)
(* with a null label is the request of a passive protection domain to give *)
(* up its scheduling context; any other one is a fault, which is printed   *)
(* and never answered.  The two system calls of the first case are two     *)
(* steps: an interrupt can come between them.                              *)
(***************************************************************************)
EXTENDS Sel4Kernel

VARIABLE monitor   \* what the monitor is about to do, and for which domain

Idle == [at |-> "recv", pd |-> None]

MonitorState == {Idle} \cup [at: {"unbind", "bind", "report"}, pd: PD]

MonitorInit == monitor = Idle

\* What seL4_Recv on fault_ep returns: tcbs[badge] and the two arrays next to
\* it are indexed by the same badge, so the message names one domain.
NullMessage(p)  == [at |-> "unbind", pd |-> p]
FaultMessage(p) == [at |-> "report", pd |-> p]

\* seL4_SchedContext_UnbindObject; its error result is overwritten.
MonitorUnbind ==
  /\ monitor.at = "unbind"
  /\ kernel' = UnbindObject(kernel, monitor.pd)
  /\ monitor' = [monitor EXCEPT !.at = "bind"]

\* Mutant: the context is not bound to the notification.
MonitorDoesNotBind ==
  /\ monitor.at = "bind"
  /\ kernel' = kernel
  /\ monitor' = Idle

\* seL4_SchedContext_Bind; an error is printed; continue.
MonitorBind ==
  /\ monitor.at = "bind"
  /\ kernel' = Bind(kernel, monitor.pd)
  /\ monitor' = Idle

\* Print the registers and the fault, and receive again without a reply.
MonitorReport ==
  /\ monitor.at = "report"
  /\ monitor' = Idle
  /\ UNCHANGED kernel

MonitorNext == MonitorUnbind \/ MonitorBind \/ MonitorReport
=============================================================================
