------------------------------ MODULE Sel4Kernel ------------------------------
(***************************************************************************)
(* EXTERNAL: the seL4 (MCS) kernel, as far as the monitor and libmicrokit  *)
(* use it.  The kernel is not part of the repository.  Its state is one    *)
(* record; every system call is an operator from a kernel state to the     *)
(* next one (or to the set of possible next ones), so that a combined      *)
(* system call is a composition of operators.                              *)
(*                                                                         *)
(* Each protection domain p owns one TCB, one notification object bound to *)
(* it, one reply object, one scheduling context (named p as well) and, if  *)
(* it has pp set, one endpoint.                                            *)
(***************************************************************************)
EXTENDS SystemImage

VARIABLE kernel

\* "Stopped": faulted and never answered by the monitor, or a caller whose
\* reply object was taken away; such a thread never runs again.
Status == {"Running", "BlockedOnReceive", "BlockedOnNotification",
           "BlockedOnSend", "BlockedOnReply", "Stopped"}

\* A received badge: the endpoint tag (bit 63) and the channel numbers in it.
Badge == [ep: BOOLEAN, ids: SUBSET Id]
NoBadge == [ep |-> FALSE, ids |-> {}]

KernelState ==
  [status: [PD -> Status],
   badge:  [PD -> Badge],             \* result of the last receive
   ntfn:   [PD -> SUBSET Id],         \* the notification word; active iff # {}
   sc:     [PD -> PD \cup {None}],    \* the scheduling context a TCB runs on
   bound:  SUBSET PD,                 \* contexts bound to their notification
   reply:  [PD -> PD \cup {None}],    \* the caller a reply object holds
   lent:   [PD -> PD \cup {None}],    \* the context that came with that call
   on:     [PD -> PD \cup {None}],    \* whose endpoint or reply object blocks
   via:    [PD -> Id \cup {None}]]    \* the badge of a queued sender

InitKernel ==
  [status |-> [p \in PD |-> "Running"],
   badge  |-> [p \in PD |-> NoBadge],
   ntfn   |-> [p \in PD |-> {}],
   sc     |-> [p \in PD |-> p],
   bound  |-> {},
   reply  |-> [p \in PD |-> None],
   lent   |-> [p \in PD |-> None],
   on     |-> [p \in PD |-> None],
   via    |-> [p \in PD |-> None]]

Schedulable(k, p) == k.status[p] = "Running" /\ k.sc[p] # None

-----------------------------------------------------------------------------
(* Scheduling contexts *)

\* schedContext_donate: s moves from whoever has it to t.
Donate(k, s, t) ==
  [k EXCEPT !.sc = [p \in PD |-> IF p = t THEN s
                                 ELSE IF k.sc[p] = s THEN None ELSE k.sc[p]]]

ScFree(k, s) == \A p \in PD : k.sc[p] # s

\* maybeDonateSchedContext: a woken thread without a context takes the one
\* bound to its notification.
MaybeDonate(k, p) ==
  IF k.sc[p] = None /\ p \in k.bound /\ ScFree(k, p) THEN Donate(k, p, p) ELSE k

\* maybeReturnSchedContext: a thread about to block gives that context back.
MaybeReturn(k, p) ==
  IF p \in k.bound /\ k.sc[p] = p THEN [k EXCEPT !.sc[p] = None] ELSE k

\* seL4_SchedContext_UnbindObject(p's context, p's TCB)
UnbindObject(k, p) == IF k.sc[p] = p THEN [k EXCEPT !.sc[p] = None] ELSE k

\* seL4_SchedContext_Bind(p's context, p's notification)
Bind(k, p) ==
  IF ScFree(k, p) /\ p \notin k.bound THEN [k EXCEPT !.bound = @ \cup {p}] ELSE k

-----------------------------------------------------------------------------
(* Notifications, endpoints and reply objects *)

\* The receive of p completes with the notification badge ids.
Notified(k, p, ids) ==
  MaybeDonate([k EXCEPT !.status[p] = "Running",
                        !.badge[p] = [ep |-> FALSE, ids |-> ids]], p)

\* seL4_Signal on the notification of p, through a capability badged ids.
Signal(k, p, ids) ==
  IF k.status[p] \in {"BlockedOnReceive", "BlockedOnNotification"}
  THEN Notified(k, p, ids)
  ELSE [k EXCEPT !.ntfn[p] = @ \cup ids]

\* reply_push: caller c waits in the reply object of p, and its scheduling
\* context goes along if p has none.
ReplyPush(k, c, p) ==
  LET waiting == [k EXCEPT !.status[c] = "BlockedOnReply", !.on[c] = p,
                           !.via[c] = None, !.reply[p] = c]
  IN IF k.sc[p] = None /\ k.sc[c] # None
     THEN Donate([waiting EXCEPT !.lent[p] = k.sc[c]], k.sc[c], p)
     ELSE waiting

\* The receive of p completes with the call of c badged j.
Accept(k, c, j, p) ==
  ReplyPush([k EXCEPT !.status[p] = "Running",
                      !.badge[p] = [ep |-> TRUE, ids |-> {j}]], c, p)

\* seL4_Call by c on the endpoint of p.
Call(k, c, j, p) ==
  IF k.status[p] = "BlockedOnReceive"
  THEN Accept(k, c, j, p)
  ELSE [k EXCEPT !.status[c] = "BlockedOnSend", !.on[c] = p, !.via[c] = j]

\* The reply phase of seL4_ReplyRecv: wake the caller and pop the call stack.
Reply(k, p) ==
  LET c == k.reply[p]
      done == [k EXCEPT !.status[c] = "Running", !.on[c] = None,
                        !.reply[p] = None, !.lent[p] = None]
  IN IF c = None THEN k
     ELSE IF k.lent[p] # None /\ k.sc[c] = None
          THEN Donate(done, k.lent[p], c)
          ELSE done

\* A receive with a reply object that still holds a caller cancels the caller.
DropCaller(k, p) ==
  LET c == k.reply[p]
  IN IF c = None THEN k
     ELSE [k EXCEPT !.status[c] = "Stopped", !.on[c] = None,
                    !.reply[p] = None, !.lent[p] = None]

\* The callers queued on the endpoint of p that are first in its queue, which
\* the kernel keeps ordered by priority.
Senders(k, p) == {c \in PD : k.status[c] = "BlockedOnSend" /\ k.on[c] = p}
FirstSenders(k, p) ==
  {c \in Senders(k, p) : \A d \in Senders(k, p) : Priority[d] <= Priority[c]}

\* The receive phase, on the endpoint if p has pp set (its INPUT_CAP is then
\* an endpoint), on the notification otherwise.
Receive(k0, p) ==
  LET k == IF p \in PP THEN DropCaller(k0, p) ELSE k0
      r == MaybeReturn(k, p)
  IN IF k.ntfn[p] # {}
     THEN {Notified([k EXCEPT !.ntfn[p] = {}], p, k.ntfn[p])}
     ELSE IF p \notin PP
     THEN {[r EXCEPT !.status[p] = "BlockedOnNotification"]}
     ELSE IF Senders(k, p) = {}
     THEN {[r EXCEPT !.status[p] = "BlockedOnReceive"]}
     ELSE {Accept(r, c, r.via[c], p) : c \in FirstSenders(k, p)}
=============================================================================
