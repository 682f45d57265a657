---------------------------- MODULE ContextProofs ----------------------------
(***************************************************************************)
(* No kernel operation duplicates or loses a scheduling context, and one   *)
(* that is lent with a call comes back with the reply.                     *)
(***************************************************************************)
EXTENDS MicrokitProofs

Distinct(k) ==
  \A p, q \in PD : k.sc[p] = k.sc[q] /\ k.sc[p] # None => p = q

\* The contexts that are with no TCB and in no notification.
Lost(k) == {s \in PD : ScFree(k, s) /\ s \notin k.bound}

\* Going from k to l, contexts stay distinct and none gets lost.
Moves(k, l) == (Distinct(k) => Distinct(l)) /\ Lost(l) \subseteq Lost(k)

SameContexts(k, l) == l.sc = k.sc /\ l.bound = k.bound

LEMMA SameContextsMoves ==
  ASSUME NEW k, NEW l, NEW m, SameContexts(k, l)
  PROVE  Moves(k, l) /\ (Moves(l, m) => Moves(k, m)) /\ (Moves(m, k) => Moves(m, l))
  BY DEF SameContexts, Moves, Distinct, Lost, ScFree

LEMMA MovesTransitive ==
  ASSUME NEW k, NEW l, NEW m, Moves(k, l), Moves(l, m)
  PROVE  Moves(k, m)
  BY DEF Moves

\* A donation to a thread without a context.
LEMMA DonateMoves ==
  ASSUME NEW k \in KernelState, NEW s \in PD, NEW t \in PD, k.sc[t] = None
  PROVE  Moves(k, Donate(k, s, t))
  <1>1. /\ Donate(k, s, t).bound = k.bound
        /\ Donate(k, s, t).sc = [p \in PD |-> IF p = t THEN s
                                   ELSE IF k.sc[p] = s THEN None ELSE k.sc[p]]
    BY DonateFields DEF SameButContexts
  <1>2. None \notin PD
    BY DescriptionAssumption
  <1>3. Distinct(k) => Distinct(Donate(k, s, t))
    BY <1>1, <1>2 DEF Distinct
  <1>4. Lost(Donate(k, s, t)) \subseteq Lost(k)
    BY <1>1, <1>2 DEF Lost, ScFree
  <1>5. QED
    BY <1>3, <1>4 DEF Moves

LEMMA MaybeDonateMoves ==
  ASSUME NEW k \in KernelState, NEW p \in PD
  PROVE  Moves(k, MaybeDonate(k, p))
  BY DonateMoves, SameContextsMoves DEF MaybeDonate, SameContexts

LEMMA MaybeReturnMoves ==
  ASSUME NEW k \in KernelState, NEW p \in PD
  PROVE  Moves(k, MaybeReturn(k, p))
  <1>1. CASE p \in k.bound /\ k.sc[p] = p
    <2>1. /\ MaybeReturn(k, p).bound = k.bound
          /\ MaybeReturn(k, p).sc = [k.sc EXCEPT ![p] = None]
      BY <1>1 DEF MaybeReturn, KernelState
    <2>2. QED
      BY <1>1, <2>1 DEF Moves, Distinct, Lost, ScFree, KernelState
  <1>2. CASE ~(p \in k.bound /\ k.sc[p] = p)
    BY <1>2, SameContextsMoves DEF MaybeReturn, SameContexts
  <1>3. QED
    BY <1>1, <1>2

LEMMA NotifiedMoves ==
  ASSUME NEW k \in KernelState, NEW p \in PD, NEW ids \in SUBSET Id
  PROVE  Moves(k, Notified(k, p, ids))
  <1> DEFINE l == [k EXCEPT !.status[p] = "Running",
                            !.badge[p] = [ep |-> FALSE, ids |-> ids]]
  <1>1. l \in KernelState
    BY DEF KernelState, Status, Badge
  <1>2. SameContexts(k, l)
    BY DEF KernelState, SameContexts
  <1>3. Notified(k, p, ids) = MaybeDonate(l, p)
    BY DEF Notified
  <1> HIDE DEF l
  <1>4. QED
    BY <1>1, <1>2, <1>3, MaybeDonateMoves, SameContextsMoves

LEMMA SignalMoves ==
  ASSUME NEW k \in KernelState, NEW p \in PD, NEW ids \in SUBSET Id
  PROVE  Moves(k, Signal(k, p, ids))
  <1>1. SameContexts(k, [k EXCEPT !.ntfn[p] = @ \cup ids])
    BY DEF KernelState, SameContexts
  <1>2. QED
    BY <1>1, NotifiedMoves, SameContextsMoves DEF Signal

LEMMA AcceptMoves ==
  ASSUME NEW k \in KernelState, NEW c \in PD, NEW j \in Id, NEW p \in PD
  PROVE  Moves(k, Accept(k, c, j, p))
  <1> DEFINE a == [k EXCEPT !.status[p] = "Running",
                            !.badge[p] = [ep |-> TRUE, ids |-> {j}]]
             w == [a EXCEPT !.status[c] = "BlockedOnReply", !.on[c] = p,
                            !.via[c] = None, !.reply[p] = c]
             l == [w EXCEPT !.lent[p] = a.sc[c]]
             s == a.sc[c]
  <1>1. a \in KernelState /\ SameContexts(k, a)
    BY DEF KernelState, Status, Badge, SameContexts
  <1>2. Accept(k, c, j, p) =
          IF a.sc[p] = None /\ s # None THEN Donate(l, s, p) ELSE w
    BY DEF Accept, ReplyPush
  <1> HIDE DEF a
  <1>3. w \in KernelState /\ SameContexts(a, w)
    BY <1>1 DEF KernelState, Status, SameContexts
  <1>4. s \in PD \cup {None}
    BY <1>1 DEF KernelState
  <1> HIDE DEF w
  <1>5. l \in KernelState /\ SameContexts(w, l)
    BY <1>3, <1>4 DEF KernelState, SameContexts
  <1> HIDE DEF l, s
  <1>6. SameContexts(k, w) /\ SameContexts(k, l)
    BY <1>1, <1>3, <1>5 DEF SameContexts
  <1>7. CASE a.sc[p] = None /\ s # None
    <2>1. s \in PD /\ l.sc[p] = None
      BY <1>1, <1>4, <1>6, <1>7 DEF SameContexts
    <2>2. Moves(l, Donate(l, s, p))
      BY <1>5, <2>1, DonateMoves
    <2>3. QED
      BY <1>2, <1>6, <1>7, <2>2, SameContextsMoves
  <1>8. CASE ~(a.sc[p] = None /\ s # None)
    BY <1>2, <1>6, <1>8, SameContextsMoves
  <1>9. QED
    BY <1>7, <1>8

LEMMA CallMoves ==
  ASSUME NEW k \in KernelState, NEW c \in PD, NEW j \in Id, NEW p \in PD
  PROVE  Moves(k, Call(k, c, j, p))
  <1>1. SameContexts(k, [k EXCEPT !.status[c] = "BlockedOnSend",
                                  !.on[c] = p, !.via[c] = j])
    BY DEF KernelState, SameContexts
  <1>2. QED
    BY <1>1, AcceptMoves, SameContextsMoves DEF Call

LEMMA ReplyMoves ==
  ASSUME NEW k \in KernelState, NEW p \in PD
  PROVE  Reply(k, p) \in KernelState /\ Moves(k, Reply(k, p))
  <1> DEFINE c == k.reply[p]
             s == k.lent[p]
             done == [k EXCEPT !.status[c] = "Running", !.on[c] = None,
                               !.reply[p] = None, !.lent[p] = None]
  <1>1. CASE c = None
    BY <1>1, SameContextsMoves DEF Reply, SameContexts
  <1>2. CASE c # None
    <2>1. Reply(k, p) = IF s # None /\ k.sc[c] = None
                        THEN Donate(done, s, c) ELSE done
      BY <1>2 DEF Reply
    <2>2. c \in PD /\ s \in PD \cup {None}
      BY <1>2 DEF KernelState
    <2>3. Reply(k, p) \in KernelState
      BY <1>2, ReplyFields
    <2> HIDE DEF c, s
    <2>4. SameContexts(k, done)
      BY <2>2 DEF KernelState, SameContexts
    <2>5. done \in KernelState
      BY <2>2 DEF KernelState, Status
    <2> HIDE DEF done
    <2>6. CASE s # None /\ k.sc[c] = None
      <3>1. s \in PD /\ done.sc[c] = None
        BY <2>2, <2>4, <2>6 DEF SameContexts
      <3>2. Moves(done, Donate(done, s, c))
        BY <2>2, <2>5, <3>1, DonateMoves
      <3>3. QED
        BY <2>1, <2>3, <2>4, <2>6, <3>2, SameContextsMoves
    <2>7. CASE ~(s # None /\ k.sc[c] = None)
      BY <2>1, <2>3, <2>4, <2>7, SameContextsMoves
    <2>8. QED
      BY <2>6, <2>7
  <1>3. QED
    BY <1>1, <1>2

LEMMA ReceiveMoves ==
  ASSUME NEW k \in KernelState, NEW p \in PD, k.reply[p] = None,
         \A c \in Senders(k, p) : k.via[c] \in Id,
         NEW l \in Receive(k, p)
  PROVE  Moves(k, l)
  <1> DEFINE r == MaybeReturn(k, p)
             e == [k EXCEPT !.ntfn[p] = {}]
             ids == k.ntfn[p]
  <1>1. (IF p \in PP THEN DropCaller(k, p) ELSE k) = k
    BY DropCallerFields
  <1>2. Receive(k, p) =
          IF k.ntfn[p] # {} THEN {Notified(e, p, ids)}
          ELSE IF p \notin PP THEN {[r EXCEPT !.status[p] = "BlockedOnNotification"]}
          ELSE IF Senders(k, p) = {} THEN {[r EXCEPT !.status[p] = "BlockedOnReceive"]}
          ELSE {Accept(r, c, r.via[c], p) : c \in FirstSenders(k, p)}
    BY <1>1 DEF Receive
  <1>3. r \in KernelState /\ SameButContexts(k, r) /\ Moves(k, r)
    BY MaybeReturnFields, MaybeReturnMoves
  <1>4. e \in KernelState /\ ids \in SUBSET Id /\ SameContexts(k, e)
    BY DEF KernelState, SameContexts
  <1>5. \/ l = Notified(e, p, ids)
        \/ \E s \in {"BlockedOnReceive", "BlockedOnNotification"} :
             l = [r EXCEPT !.status[p] = s]
        \/ \E c \in Senders(k, p) : l = Accept(r, c, r.via[c], p)
    BY <1>2 DEF FirstSenders
  <1> HIDE DEF r, e
  <1>6. CASE l = Notified(e, p, ids)
    BY <1>4, <1>6, NotifiedMoves, SameContextsMoves
  <1>7. ASSUME NEW s \in {"BlockedOnReceive", "BlockedOnNotification"},
               l = [r EXCEPT !.status[p] = s]
        PROVE  Moves(k, l)
    <2>1. SameContexts(r, l)
      BY <1>3, <1>7 DEF KernelState, SameContexts
    <2>2. Moves(r, l)
      BY <2>1, SameContextsMoves
    <2>3. QED
      BY <1>3, <2>2, MovesTransitive
  <1>8. ASSUME NEW c \in Senders(k, p), l = Accept(r, c, r.via[c], p)
        PROVE  Moves(k, l)
    <2>1. c \in PD /\ r.via[c] \in Id
      BY <1>3 DEF Senders, SameButContexts
    <2>2. Moves(r, l)
      BY <1>3, <1>8, <2>1, AcceptMoves
    <2>3. QED
      BY <1>3, <2>2, MovesTransitive
  <1>9. QED
    BY <1>5, <1>6, <1>7, <1>8

-----------------------------------------------------------------------------
(***************************************************************************)
(* The contexts in the running system.  Only between the monitor's two     *)
(* system calls is one, the one the monitor is handling, with nobody.      *)
(***************************************************************************)
ContextInv ==
  /\ Distinct(kernel)
  /\ \A s \in Lost(kernel) : monitor = [at |-> "bind", pd |-> s]

\* A step that moves contexts while the monitor does nothing, or waits.
LEMMA MovingStep ==
  ASSUME ContextInv, Moves(kernel, kernel'), monitor' = monitor \/ monitor = Idle
  PROVE  ContextInv'
  <1>1. Distinct(kernel') /\ Lost(kernel') \subseteq Lost(kernel)
    BY DEF ContextInv, Moves
  <1>2. CASE monitor' = monitor
    BY <1>1, <1>2 DEF ContextInv
  <1>3. CASE monitor = Idle
    <2>1. Lost(kernel) = {}
      BY <1>3 DEF ContextInv, Idle
    <2>2. QED
      BY <1>1, <2>1 DEF ContextInv
  <1>4. QED
    BY <1>2, <1>3

\* The receive phase: CallInv says what ReceiveMoves assumes.
LEMMA ReceivingMoves ==
  ASSUME CallInv, NEW p \in PD, AtReceive(p), NEW k, ReadyToReceive(k, p),
         kernel' \in Receive(k, p)
  PROVE  Moves(k, kernel')
  <1>1. k \in KernelState /\ k.reply[p] = None /\ k.via = kernel.via
    BY DEF ReadyToReceive
  <1>2. \A c \in Senders(k, p) : k.via[c] \in Id
    <2>1. \A c \in Senders(k, p) : c \in PD /\ kernel.status[c] = "BlockedOnSend"
      BY DEF Senders, ReadyToReceive
    <2>2. QED
      BY <1>1, <2>1 DEF CallInv, CallsThroughCaps, CallThroughCap, Calling
  <1>3. QED
    BY <1>1, <1>2, ReceiveMoves

LEMMA ContextInvStep == CallInv /\ ContextInv /\ [Next]_vars => ContextInv'
  <1> SUFFICES ASSUME CallInv, ContextInv, [Next]_vars PROVE ContextInv'
    OBVIOUS
  <1>1. kernel \in KernelState /\ monitor \in MonitorState
    BY DEF CallInv, TypeOK
  <1>2. ASSUME SameContexts(kernel, kernel'), monitor' = monitor \/ monitor = Idle
        PROVE  ContextInv'
    <2>1. Moves(kernel, kernel')
      BY <1>2, SameContextsMoves
    <2>2. QED
      BY <1>2, <2>1, MovingStep
  <1>3. ASSUME NEW p \in PD, Notify(p) PROVE ContextInv'
    <2>1. PICK cap \in NotifyCaps : kernel' = Signal(kernel, cap[3], {cap[4]})
      BY <1>3 DEF Notify
    <2>2. Moves(kernel, kernel')
      BY <1>1, <2>1, NotifyCapIndices, SignalMoves
    <2>3. QED
      BY <1>3, <2>2, MovingStep DEF Notify
  <1>4. ASSUME NEW p \in PD, PPCall(p) PROVE ContextInv'
    <2>1. PICK cap \in AppCalls : kernel' = Call(kernel, p, cap[4], cap[3])
      BY <1>4 DEF PPCall
    <2>2. Moves(kernel, kernel')
      BY <1>1, <2>1, CapIndices, CallMoves
    <2>3. QED
      BY <1>4, <2>2, MovingStep DEF PPCall
  <1>5. ASSUME NEW p \in PD, IrqAck(p) PROVE ContextInv'
    BY <1>2, <1>5 DEF IrqAck, SameContexts
  <1>6. ASSUME NEW p \in PD, Fault(p) PROVE ContextInv'
    <2>1. SameContexts(kernel, kernel')
      BY <1>1, <1>6 DEF Fault, SameContexts, KernelState
    <2>2. QED
      BY <1>2, <1>6, <2>1 DEF Fault, InEntry, CanRun
  <1>7. ASSUME NEW p \in PD, InitReturns(p) \/ NotifiedReturns(p) \/ ProtectedReturns(p)
        PROVE  ContextInv'
    BY <1>2, <1>7 DEF InitReturns, NotifiedReturns, ProtectedReturns, SameContexts
  <1>8. ASSUME NEW p \in PD, ReplyRecv(p) PROVE ContextInv'
    <2>1. Moves(kernel, Reply(kernel, p))
      BY <1>1, ReplyMoves
    <2>2. Moves(Reply(kernel, p), kernel')
      BY <1>8, ReadyAfterReply, ReceivingMoves DEF ReplyRecv
    <2>3. Moves(kernel, kernel')
      BY <2>1, <2>2, MovesTransitive
    <2>4. QED
      BY <1>8, <2>3, MovingStep DEF ReplyRecv
  <1>9. ASSUME NEW p \in PD, NBSendRecv(p) \/ Recv(p) PROVE ContextInv'
    <2>1. AtReceive(p) /\ ~have_reply[p] /\ kernel' \in Receive(kernel, p)
      BY <1>9 DEF NBSendRecv, Recv
    <2>2. Moves(kernel, kernel')
      BY <2>1, ReadyWithoutReply, ReceivingMoves
    <2>3. monitor = Idle
      BY <2>1 DEF AtReceive, CanRun
    <2>4. QED
      BY <2>2, <2>3, MovingStep
  <1>10. ASSUME NEW p \in PD, DispatchProtected(p) \/ DispatchNotified(p) PROVE ContextInv'
    <2>1. SameContexts(kernel, kernel')
      BY <1>1, <1>10 DEF DispatchProtected, DispatchNotified, SameContexts, KernelState
    <2>2. QED
      BY <1>2, <1>10, <2>1 DEF DispatchProtected, DispatchNotified
  <1>11. CASE MonitorUnbind
    <2> DEFINE s == monitor.pd
    <2>1. s \in PD
      BY <1>1, <1>11 DEF MonitorUnbind, MonitorState, Idle
    <2>2. monitor' = [at |-> "bind", pd |-> s]
      BY <1>1, <1>11 DEF MonitorUnbind, MonitorState, Idle
    <2>3. Lost(kernel) = {}
      BY <1>11 DEF MonitorUnbind, ContextInv, Lost
    <2>4. CASE kernel.sc[s] = s
      <3>1. /\ kernel'.sc = [kernel.sc EXCEPT ![s] = None]
            /\ kernel'.bound = kernel.bound
        BY <1>1, <1>11, <2>1, <2>4 DEF MonitorUnbind, UnbindObject, KernelState
      <3>2. Distinct(kernel')
        BY <1>1, <2>1, <3>1 DEF ContextInv, Distinct, KernelState
      <3>3. Lost(kernel') \subseteq {s}
        BY <1>1, <2>1, <2>3, <2>4, <3>1 DEF Lost, ScFree, KernelState
      <3>4. QED
        BY <2>2, <3>2, <3>3 DEF ContextInv
    <2>5. CASE kernel.sc[s] # s
      BY <1>11, <2>3, <2>5 DEF MonitorUnbind, UnbindObject, ContextInv
    <2>6. QED
      BY <2>4, <2>5
  <1>12. CASE MonitorBind
    <2> DEFINE s == monitor.pd
    <2>1. s \in PD /\ Lost(kernel) \subseteq {s}
      BY <1>1, <1>12 DEF MonitorBind, MonitorState, Idle, ContextInv, Lost
    <2>2. kernel'.sc = kernel.sc
      BY <1>1, <1>12 DEF MonitorBind, Bind, KernelState
    <2>3. Lost(kernel') = {}
      BY <1>1, <1>12, <2>1 DEF MonitorBind, Bind, KernelState, Lost, ScFree
    <2>4. QED
      BY <2>2, <2>3 DEF ContextInv, Distinct
  <1>13. CASE MonitorReport
    <2>1. Lost(kernel) = {} /\ kernel' = kernel
      BY <1>13 DEF MonitorReport, ContextInv, Lost
    <2>2. QED
      BY <2>1 DEF ContextInv
  <1>14. CASE Irq
    <2>1. PICK irq \in Irqs : kernel' = Signal(kernel, irq[1], {irq[2]})
      BY <1>14 DEF Irq
    <2>2. irq[1] \in PD /\ {irq[2]} \in SUBSET Id
      BY DescriptionAssumption
    <2>3. QED
      BY <1>1, <1>14, <2>1, <2>2, SignalMoves, MovingStep DEF Irq
  <1>15. CASE UNCHANGED vars
    BY <1>2, <1>15 DEF vars, SameContexts
  <1>16. QED
    BY <1>3, <1>4, <1>5, <1>6, <1>7, <1>8, <1>9, <1>10, <1>11, <1>12, <1>13, <1>14, <1>15
    DEF Next, AppNext, LoopNext, MonitorNext

(***************************************************************************)
(* In every reachable state no two TCBs run on the same context, and only  *)
(* a context the monitor is about to bind is with nobody.                  *)
(***************************************************************************)
THEOREM ContextInvariant == Spec => []ContextInv
  <1>1. Init => ContextInv
    BY DescriptionAssumption DEF Init, InitKernel, ContextInv, Distinct, Lost, ScFree
  <1>2. QED
    BY <1>1, ContextInvStep, CallInvariant, PTL DEF Spec

(***************************************************************************)
(* Whatever chain of calls, replies, notifications and monitor requests    *)
(* moves them, scheduling contexts are never shared and never lost.        *)
(***************************************************************************)
THEOREM NoContextLost == Spec => []ContextsConserved
  <1>1. ContextInv => ContextsConserved
    <2> SUFFICES ASSUME ContextInv, NEW s \in PD
                 PROVE  /\ \A p, q \in PD : kernel.sc[p] = s /\ kernel.sc[q] = s => p = q
                        /\ \/ \E p \in PD : kernel.sc[p] = s
                           \/ s \in kernel.bound
                           \/ monitor = [at |-> "bind", pd |-> s]
      BY DEF ContextsConserved
    <2>1. s # None
      BY DescriptionAssumption
    <2>2. QED
      BY <2>1 DEF ContextInv, Distinct, Lost, ScFree
  <1>2. QED
    BY <1>1, ContextInvariant, PTL

-----------------------------------------------------------------------------
(***************************************************************************)
(* A scheduling context that went along with a call comes back with the    *)
(* reply, through calls nested in calls: a domain with a budget of its own *)
(* runs on it whenever it is not waiting for a reply.                      *)
(***************************************************************************)
OnReply(k, c) == k.status[c] = "BlockedOnReply"

\* The callers in the reply objects are the domains that wait for a reply.
RepliesHold(k) ==
  /\ \A q \in PD : k.reply[q] # None => OnReply(k, k.reply[q]) /\ k.on[k.reply[q]] = q
  /\ \A c \in PD : OnReply(k, c) => k.on[c] \in PD /\ k.reply[k.on[c]] = c

\* Whoever runs on somebody else's context has it on record as lent.
BorrowedOnRecord(k) ==
  \A x, s \in PD : k.sc[x] = s /\ x # s => k.lent[x] = s

\* A lent context came with the caller in the same reply object, who is without
\* one: it was the caller's own, or the caller had borrowed it before.
LentWithCall(k) ==
  \A q, s \in PD : k.lent[q] = s =>
    /\ k.reply[q] # None /\ k.sc[k.reply[q]] = None
    /\ k.reply[q] = s \/ k.lent[k.reply[q]] = s

\* While a context is lent its owner waits for a reply, without a context.
LenderWaits(k) ==
  \A q, s \in PD : k.lent[q] = s => OnReply(k, s) /\ k.sc[s] = None

\* A lent context is with the domain it was lent to, unless that one has lent it
\* on with a call of its own.
LentIsHeld(k) ==
  \A q, s \in PD : k.lent[q] = s =>
    k.sc[q] = s \/ (OnReply(k, q) /\ k.lent[k.on[q]] = s)

\* No set of domains all hold each other in their reply objects.
NoReplyCycle(k) ==
  \A S \in SUBSET PD : S # {} => \E q \in S : k.reply[q] \notin S

\* A domain with a budget of its own has it, or has lent it to the domain it
\* waits for.
OwnOrLent(k) ==
  \A s \in PD \ Passive : k.sc[s] = s \/ (OnReply(k, s) /\ k.lent[k.on[s]] = s)

Lending(k) ==
  /\ BorrowedOnRecord(k) /\ LentWithCall(k) /\ LenderWaits(k)
  /\ LentIsHeld(k) /\ NoReplyCycle(k) /\ OwnOrLent(k)
  /\ k.bound \subseteq Passive

-----------------------------------------------------------------------------
(* The kernel operators *)

\* A change that leaves the contexts and the domains that wait for a reply.
SameLending(k, l) ==
  /\ l.sc = k.sc /\ l.lent = k.lent /\ l.reply = k.reply /\ l.bound = k.bound
  /\ \A c \in PD : /\ OnReply(l, c) <=> OnReply(k, c)
                   /\ OnReply(k, c) => l.on[c] = k.on[c]

LEMMA SameLendingLends ==
  ASSUME NEW k, NEW l, SameLending(k, l)
  PROVE  /\ Lending(k) => Lending(l)
         /\ (\A q \in PD : k.reply[q] \in PD \cup {None}) /\ RepliesHold(k) => RepliesHold(l)
  <1>1. BorrowedOnRecord(k) => BorrowedOnRecord(l)
    BY DEF SameLending, BorrowedOnRecord
  <1>2. LentWithCall(k) => LentWithCall(l)
    BY DEF SameLending, LentWithCall
  <1>3. LenderWaits(k) => LenderWaits(l)
    BY DEF SameLending, LenderWaits
  <1>4. NoReplyCycle(k) => NoReplyCycle(l)
    BY DEF SameLending, NoReplyCycle
  <1>5. OwnOrLent(k) => OwnOrLent(l)
    BY DEF SameLending, OwnOrLent
  <1>6. LentIsHeld(k) => LentIsHeld(l)
    BY DEF SameLending, LentIsHeld
  <1>7. (\A q \in PD : k.reply[q] \in PD \cup {None}) /\ RepliesHold(k) => RepliesHold(l)
    BY DEF SameLending, RepliesHold
  <1>8. QED
    BY <1>1, <1>2, <1>3, <1>4, <1>5, <1>6, <1>7 DEF Lending, SameLending

\* A passive domain p loses its context, or gets it while it does not wait for
\* a reply.
LEMMA OwnContextMovesLends ==
  ASSUME NEW k \in KernelState, NEW l, NEW p \in Passive, RepliesHold(k), Lending(k),
         l.lent = k.lent, l.reply = k.reply, l.bound \subseteq Passive,
         l.status = k.status, l.on = k.on,
         \/ k.sc[p] = p /\ l.sc = [k.sc EXCEPT ![p] = None]
         \/ k.sc[p] = None /\ ~OnReply(k, p) /\ l.sc = [k.sc EXCEPT ![p] = p]
  PROVE  Lending(l)
  <1> USE DescriptionAssumption DEF KernelState, OnReply
  <1>0. p \in PD /\ None \notin PD
    OBVIOUS
  <1>1. BorrowedOnRecord(l)
    BY DEF Lending, BorrowedOnRecord
  <1>2. LentWithCall(l)
    BY DEF Lending, LentWithCall, RepliesHold
  <1>3. LenderWaits(l)
    BY DEF Lending, LenderWaits
  <1>4. NoReplyCycle(l)
    BY DEF Lending, NoReplyCycle
  <1>5. OwnOrLent(l)
    BY DEF Lending, OwnOrLent
  <1>6. LentIsHeld(l)
    BY DEF Lending, LentIsHeld, LenderWaits
  <1>7. QED
    BY <1>1, <1>2, <1>3, <1>4, <1>5, <1>6 DEF Lending

LEMMA MaybeDonateLends ==
  ASSUME NEW k \in KernelState, NEW p \in PD, RepliesHold(k), Lending(k), ~OnReply(k, p)
  PROVE  Lending(MaybeDonate(k, p))
  <1>1. CASE k.sc[p] = None /\ p \in k.bound /\ ScFree(k, p)
    <2>1. MaybeDonate(k, p) = Donate(k, p, p) /\ p \in Passive
      BY <1>1 DEF MaybeDonate, Lending
    <2>2. /\ SameButContexts(k, Donate(k, p, p))
          /\ Donate(k, p, p).lent = k.lent
          /\ Donate(k, p, p).sc = [q \in PD |-> IF q = p THEN p
                                    ELSE IF k.sc[q] = p THEN None ELSE k.sc[q]]
      BY DonateFields
    <2>3. k.sc \in [PD -> PD \cup {None}] /\ \A q \in PD : k.sc[q] # p
      BY <1>1 DEF ScFree, KernelState
    <2>4. Donate(k, p, p).sc = [k.sc EXCEPT ![p] = p]
      BY <2>2, <2>3
    <2> DEFINE l == Donate(k, p, p)
    <2>5. l.bound \subseteq Passive /\ l.lent = k.lent /\ l.reply = k.reply
          /\ l.status = k.status /\ l.on = k.on
      BY <2>2 DEF SameButContexts, Lending
    <2> HIDE DEF l
    <2>6. l.sc = [k.sc EXCEPT ![p] = p]
      BY <2>4 DEF l
    <2>7. Lending(l)
      BY <1>1, <2>1, <2>5, <2>6, OwnContextMovesLends
    <2>8. QED
      BY <2>1, <2>7 DEF l
  <1>2. CASE ~(k.sc[p] = None /\ p \in k.bound /\ ScFree(k, p))
    BY <1>2 DEF MaybeDonate
  <1>3. QED
    BY <1>1, <1>2

LEMMA MaybeReturnLends ==
  ASSUME NEW k \in KernelState, NEW p \in PD, RepliesHold(k), Lending(k)
  PROVE  Lending(MaybeReturn(k, p)) /\ RepliesHold(MaybeReturn(k, p))
  <1>1. CASE p \in k.bound /\ k.sc[p] = p
    <2>1. p \in Passive
      BY <1>1 DEF Lending
    <2>2. MaybeReturn(k, p).sc = [k.sc EXCEPT ![p] = None]
      BY <1>1 DEF MaybeReturn, KernelState
    <2>3. Lending(MaybeReturn(k, p))
      BY <1>1, <2>1, <2>2, MaybeReturnFields, OwnContextMovesLends, ZenonT(40) DEF SameButContexts, Lending
    <2>4. RepliesHold(MaybeReturn(k, p))
      <3>1. SameButContexts(k, MaybeReturn(k, p))
        BY MaybeReturnFields
      <3>2. QED
        BY <3>1 DEF SameButContexts, RepliesHold, OnReply
    <2>5. QED
      BY <2>3, <2>4
  <1>2. CASE ~(p \in k.bound /\ k.sc[p] = p)
    BY <1>2 DEF MaybeReturn
  <1>3. QED
    BY <1>1, <1>2

LEMMA NotifiedLends ==
  ASSUME NEW k \in KernelState, NEW p \in PD, NEW ids \in SUBSET Id,
         RepliesHold(k), Lending(k), ~OnReply(k, p)
  PROVE  Lending(Notified(k, p, ids))
  <1> DEFINE l == [k EXCEPT !.status[p] = "Running",
                            !.badge[p] = [ep |-> FALSE, ids |-> ids]]
  <1>1. l \in KernelState
    BY DEF KernelState, Status, Badge
  <1>2. SameLending(k, l) /\ ~OnReply(l, p)
    BY DEF KernelState, SameLending, OnReply
  <1>3. Notified(k, p, ids) = MaybeDonate(l, p)
    BY DEF Notified
  <1> HIDE DEF l
  <1>4. Lending(l) /\ RepliesHold(l)
    BY <1>2, SameLendingLends DEF KernelState
  <1>5. QED
    BY <1>1, <1>2, <1>3, <1>4, MaybeDonateLends

LEMMA SignalLends ==
  ASSUME NEW k \in KernelState, NEW p \in PD, NEW ids \in SUBSET Id,
         RepliesHold(k), Lending(k)
  PROVE  Lending(Signal(k, p, ids))
  <1>1. CASE k.status[p] \in {"BlockedOnReceive", "BlockedOnNotification"}
    BY <1>1, NotifiedLends DEF Signal, OnReply
  <1>2. CASE k.status[p] \notin {"BlockedOnReceive", "BlockedOnNotification"}
    <2>1. SameLending(k, [k EXCEPT !.ntfn[p] = @ \cup ids])
      BY DEF KernelState, SameLending, OnReply
    <2>2. QED
      BY <1>2, <2>1, SameLendingLends DEF Signal
  <1>3. QED
    BY <1>1, <1>2
(***************************************************************************)
(* A call: the context of the caller c goes along if the receiver p has    *)
(* none.                                                                   *)
(***************************************************************************)
LEMMA ReplyPushLends ==
  ASSUME NEW k \in KernelState, NEW c \in PD, NEW p \in PD, c # p,
         k.reply[p] = None, ~OnReply(k, c), ~OnReply(k, p),
         Distinct(k), RepliesHold(k), Lending(k)
  PROVE  Lending(ReplyPush(k, c, p))
  <1> DEFINE n == ReplyPush(k, c, p)
  <1>1. /\ n.status = [k.status EXCEPT ![c] = "BlockedOnReply"]
        /\ n.on = [k.on EXCEPT ![c] = p] /\ n.reply = [k.reply EXCEPT ![p] = c]
        /\ n.bound = k.bound
        /\ \/ /\ k.sc[p] = None /\ k.sc[c] \in PD
              /\ n.lent = [k.lent EXCEPT ![p] = k.sc[c]]
              /\ n.sc = [q \in PD |-> IF q = p THEN k.sc[c]
                                      ELSE IF k.sc[q] = k.sc[c] THEN None ELSE k.sc[q]]
           \/ /\ k.sc[p] # None \/ k.sc[c] = None
              /\ n.lent = k.lent /\ n.sc = k.sc
    <2>1. AfterPush(k, n, c, p)
      BY ReplyPushFields
    <2>2. PushedContexts(k, n, c, p)
      BY ReplyPushContexts
    <2> HIDE DEF n
    <2>3. QED
      BY <2>1, <2>2 DEF AfterPush, PushedContexts
  <1> HIDE DEF n
  <1>2. /\ k.sc \in [PD -> PD \cup {None}] /\ k.lent \in [PD -> PD \cup {None}]
        /\ k.reply \in [PD -> PD \cup {None}] /\ k.status \in [PD -> Status]
        /\ k.on \in [PD -> PD \cup {None}]
        /\ None \notin PD /\ k.bound \subseteq Passive
    BY DescriptionAssumption DEF KernelState, Lending
  <1>3. k.lent[p] = None
    BY <1>2 DEF Lending, LentWithCall
  <1>4. BorrowedOnRecord(n)
    BY <1>1, <1>2 DEF Lending, BorrowedOnRecord
  <1>5. LentWithCall(n)
    <2> SUFFICES ASSUME NEW q \in PD, NEW s \in PD, n.lent[q] = s
                 PROVE  /\ n.reply[q] # None /\ n.sc[n.reply[q]] = None
                        /\ n.reply[q] = s \/ n.lent[n.reply[q]] = s
      BY DEF LentWithCall
    <2>1. CASE q = p
      <3>1. n.reply[q] = c /\ k.sc[c] = s /\ k.sc[p] = None /\ n.sc[c] = None
        BY <1>1, <1>2, <1>3, <2>1
      <3>2. c = s \/ k.lent[c] = s
        BY <3>1 DEF Lending, BorrowedOnRecord
      <3>3. n.lent[c] = k.lent[c]
        BY <1>1, <1>2
      <3>4. QED
        BY <1>2, <3>1, <3>2, <3>3
    <2>2. CASE q # p
      <3>1. k.lent[q] = s /\ n.reply[q] = k.reply[q]
        BY <1>1, <1>2, <2>2
      <3>2. /\ k.reply[q] \in PD /\ k.sc[k.reply[q]] = None
            /\ k.reply[q] = s \/ k.lent[k.reply[q]] = s
        BY <1>2, <3>1 DEF Lending, LentWithCall
      <3>3. k.reply[q] # p
        BY <1>2, <3>2 DEF RepliesHold
      <3>4. n.sc[k.reply[q]] = None /\ n.lent[k.reply[q]] = k.lent[k.reply[q]]
        BY <1>1, <1>2, <3>2, <3>3
      <3>5. QED
        BY <1>2, <3>1, <3>2, <3>4
    <2>3. QED
      BY <2>1, <2>2
  <1>6. LenderWaits(n)
    <2> SUFFICES ASSUME NEW q \in PD, NEW s \in PD, n.lent[q] = s
                 PROVE  OnReply(n, s) /\ n.sc[s] = None
      BY DEF LenderWaits
    <2>1. CASE q = p
      <3>1. k.sc[c] = s /\ n.sc[c] = None /\ OnReply(n, c)
        BY <1>1, <1>2, <1>3, <2>1 DEF OnReply
      <3>2. c = s \/ (OnReply(k, s) /\ k.sc[s] = None)
        BY <3>1 DEF Lending, BorrowedOnRecord, LenderWaits
      <3>3. QED
        BY <1>1, <1>2, <3>1, <3>2 DEF OnReply
    <2>2. CASE q # p
      <3>1. k.lent[q] = s
        BY <1>1, <1>2, <2>2
      <3>2. OnReply(k, s) /\ k.sc[s] = None
        BY <3>1 DEF Lending, LenderWaits
      <3>3. QED
        BY <1>1, <1>2, <3>2 DEF OnReply
    <2>3. QED
      BY <2>1, <2>2
  <1>7. NoReplyCycle(n)
    <2> SUFFICES ASSUME NEW S \in SUBSET PD, S # {}, \A q \in S : n.reply[q] \in S
                 PROVE  FALSE
      BY DEF NoReplyCycle
    <2>1. p \in S
      <3>1. p \notin S => \A q \in S : k.reply[q] \in S
        BY <1>1, <1>2
      <3>2. QED
        BY <3>1 DEF Lending, NoReplyCycle
    <2>2. c \in S \ {p}
      BY <1>1, <1>2, <2>1
    <2>3. PICK q \in S \ {p} : k.reply[q] \notin S \ {p}
      BY <2>2 DEF Lending, NoReplyCycle
    <2>4. k.reply[q] = p
      BY <1>1, <1>2, <2>3
    <2>5. QED
      BY <1>2, <2>3, <2>4 DEF RepliesHold
  <1>8. OwnOrLent(n)
    <2> SUFFICES ASSUME NEW s \in PD \ Passive
                 PROVE  n.sc[s] = s \/ (OnReply(n, s) /\ n.lent[n.on[s]] = s)
      BY DEF OwnOrLent
    <2>1. k.sc[s] = s \/ (OnReply(k, s) /\ k.lent[k.on[s]] = s)
      BY DEF Lending, OwnOrLent
    <2>2. CASE OnReply(k, s) /\ k.lent[k.on[s]] = s
      <3>1. s # c /\ k.on[s] \in PD /\ k.on[s] # p
        BY <1>2, <1>3, <2>2 DEF RepliesHold
      <3>2. QED
        BY <1>1, <1>2, <2>2, <3>1 DEF OnReply
    <2>3. CASE k.sc[s] = s
      <3>1. CASE s = c
        BY <1>1, <1>2, <2>3, <3>1 DEF OnReply
      <3>2. CASE s # c
        <4>1. k.sc[c] # s
          BY <1>2, <2>3, <3>2 DEF Lending, BorrowedOnRecord, LenderWaits
        <4>2. QED
          BY <1>1, <1>2, <2>3, <4>1
      <3>3. QED
        BY <3>1, <3>2
    <2>4. QED
      BY <2>1, <2>2, <2>3
  <1>9. LentIsHeld(n)
    <2> SUFFICES ASSUME NEW q \in PD, NEW s \in PD, n.lent[q] = s
                 PROVE  n.sc[q] = s \/ (OnReply(n, q) /\ n.lent[n.on[q]] = s)
      BY DEF LentIsHeld
    <2>1. CASE q = p
      BY <1>1, <1>2, <1>3, <2>1
    <2>2. CASE q # p
      <3>1. k.lent[q] = s
        BY <1>1, <1>2, <2>2
      <3>2. k.sc[q] = s \/ (OnReply(k, q) /\ k.lent[k.on[q]] = s)
        BY <3>1 DEF Lending, LentIsHeld
      <3>3. CASE OnReply(k, q) /\ k.lent[k.on[q]] = s
        <4>1. q # c /\ k.on[q] \in PD /\ k.on[q] # p
          BY <1>2, <3>3 DEF RepliesHold
        <4>2. QED
          BY <1>1, <1>2, <3>3, <4>1 DEF OnReply
      <3>4. CASE k.sc[q] = s
        <4>1. CASE q = c
          BY <1>1, <1>2, <2>2, <3>4, <4>1 DEF OnReply
        <4>2. CASE q # c
          <5>1. k.sc[c] # s
            BY <1>2, <3>4, <4>2 DEF Distinct
          <5>2. QED
            BY <1>1, <1>2, <2>2, <3>4, <5>1
        <4>3. QED
          BY <4>1, <4>2
      <3>5. QED
        BY <3>2, <3>3, <3>4
    <2>3. QED
      BY <2>1, <2>2
  <1>10. QED
    BY <1>1, <1>2, <1>4, <1>5, <1>6, <1>7, <1>8, <1>9 DEF Lending, n

LEMMA AcceptLends ==
  ASSUME NEW k \in KernelState, NEW c \in PD, NEW j \in Id, NEW p \in PD, c # p,
         k.reply[p] = None, ~OnReply(k, c), ~OnReply(k, p),
         Distinct(k), RepliesHold(k), Lending(k)
  PROVE  Lending(Accept(k, c, j, p))
  <1> DEFINE l == [k EXCEPT !.status[p] = "Running",
                            !.badge[p] = [ep |-> TRUE, ids |-> {j}]]
  <1>1. l \in KernelState
    BY ZenonT(40) DEF KernelState, Status, Badge
  <1>2. /\ SameLending(k, l)
        /\ ~OnReply(l, p) /\ ~OnReply(l, c) /\ l.reply[p] = None
    BY DEF KernelState, SameLending, OnReply
  <1>3. Accept(k, c, j, p) = ReplyPush(l, c, p)
    BY DEF Accept
  <1> HIDE DEF l
  <1>4. Lending(l) /\ RepliesHold(l) /\ Distinct(l)
    BY <1>2, SameLendingLends, ZenonT(40) DEF KernelState, SameLending, Distinct
  <1>5. QED
    BY <1>1, <1>2, <1>3, <1>4, ReplyPushLends

LEMMA CallLends ==
  ASSUME NEW k \in KernelState, NEW c \in PD, NEW j \in Id, NEW p \in PD,
         k.status[c] = "Running", k.status[p] = "BlockedOnReceive" => k.reply[p] = None,
         Distinct(k), RepliesHold(k), Lending(k)
  PROVE  Lending(Call(k, c, j, p))
  <1>1. CASE k.status[p] = "BlockedOnReceive"
    BY <1>1, AcceptLends DEF Call, OnReply
  <1>2. CASE k.status[p] # "BlockedOnReceive"
    <2>1. SameLending(k, [k EXCEPT !.status[c] = "BlockedOnSend", !.on[c] = p, !.via[c] = j])
      BY DEF KernelState, SameLending, OnReply
    <2>2. QED
      BY <1>2, <2>1, SameLendingLends DEF Call
  <1>3. QED
    BY <1>1, <1>2
(***************************************************************************)
(* A reply: what came with the call goes back with the reply.              *)
(***************************************************************************)
LEMMA ReplyLends ==
  ASSUME NEW k \in KernelState, NEW p \in PD, k.reply[p] # None, ~OnReply(k, p),
         Distinct(k), RepliesHold(k), Lending(k)
  PROVE  Lending(Reply(k, p))
  <1> DEFINE n == Reply(k, p)
  <1>1. PICK c \in PD : c = k.reply[p]
    BY DEF KernelState
  <1>2. /\ k.sc \in [PD -> PD \cup {None}] /\ k.lent \in [PD -> PD \cup {None}]
        /\ k.reply \in [PD -> PD \cup {None}] /\ k.status \in [PD -> Status]
        /\ k.on \in [PD -> PD \cup {None}]
        /\ None \notin PD /\ k.bound \subseteq Passive
    BY DescriptionAssumption DEF KernelState, Lending
  <1>3. OnReply(k, c) /\ k.on[c] = p /\ c # p
    BY <1>1, <1>2 DEF RepliesHold
  <1>4. k.lent[p] # None => k.lent[p] \in PD /\ k.sc[c] = None
    BY <1>1, <1>2 DEF Lending, LentWithCall
  <1>5. /\ n.status = [k.status EXCEPT ![c] = "Running"]
        /\ n.on = [k.on EXCEPT ![c] = None] /\ n.reply = [k.reply EXCEPT ![p] = None]
        /\ n.bound = k.bound /\ n.lent = [k.lent EXCEPT ![p] = None]
        /\ \/ /\ k.lent[p] \in PD
              /\ n.sc = [q \in PD |-> IF q = c THEN k.lent[p]
                                      ELSE IF k.sc[q] = k.lent[p] THEN None ELSE k.sc[q]]
           \/ k.lent[p] = None /\ n.sc = k.sc
    <2>1. /\ n.status = [k.status EXCEPT ![k.reply[p]] = "Running"]
          /\ n.on = [k.on EXCEPT ![k.reply[p]] = None]
          /\ n.reply = [k.reply EXCEPT ![p] = None]
      BY ReplyFields
    <2>2. /\ n.bound = k.bound /\ n.lent = [k.lent EXCEPT ![p] = None]
          /\ \/ /\ k.lent[p] \in PD
                /\ n.sc = [q \in PD |-> IF q = c THEN k.lent[p]
                                        ELSE IF k.sc[q] = k.lent[p] THEN None ELSE k.sc[q]]
             \/ k.lent[p] = None /\ n.sc = k.sc
      BY <1>1, <1>2, <1>4, ReplyContexts
    <2> HIDE DEF n
    <2>3. QED
      BY <1>1, <2>1, <2>2
  <1> HIDE DEF n
  <1>6. ASSUME NEW q \in PD, n.lent[q] # None
        PROVE  /\ q # p /\ n.lent[q] = k.lent[q] /\ n.reply[q] = k.reply[q]
               /\ k.reply[q] # c /\ k.reply[q] # p
    <2>1. q # p /\ n.lent[q] = k.lent[q] /\ n.reply[q] = k.reply[q]
      BY <1>2, <1>5, <1>6
    <2>2. k.reply[q] # None
      BY <1>2, <1>6, <2>1 DEF Lending, LentWithCall
    <2>3. OnReply(k, k.reply[q]) /\ k.on[k.reply[q]] = q
      BY <2>2 DEF RepliesHold
    <2>4. QED
      BY <1>3, <2>1, <2>3
  <1>7. BorrowedOnRecord(n)
    <2> SUFFICES ASSUME NEW x \in PD, NEW s \in PD, n.sc[x] = s, x # s
                 PROVE  n.lent[x] = s
      BY DEF BorrowedOnRecord
    <2>1. CASE x = c /\ k.lent[p] \in PD
      <3>1. k.lent[p] = s
        BY <1>2, <1>5, <2>1
      <3>2. k.lent[c] = s
        BY <1>1, <2>1, <3>1 DEF Lending, LentWithCall
      <3>3. QED
        BY <1>2, <1>3, <1>5, <2>1, <3>2
    <2>2. CASE ~(x = c /\ k.lent[p] \in PD)
      <3>1. k.sc[x] = s /\ k.lent[p] # s
        BY <1>2, <1>5, <2>2
      <3>2. k.lent[x] = s
        BY <3>1 DEF Lending, BorrowedOnRecord
      <3>3. QED
        BY <1>2, <1>5, <3>1, <3>2
    <2>3. QED
      BY <2>1, <2>2
  <1>8. LentWithCall(n)
    <2> SUFFICES ASSUME NEW q \in PD, NEW s \in PD, n.lent[q] = s
                 PROVE  /\ n.reply[q] # None /\ n.sc[n.reply[q]] = None
                        /\ n.reply[q] = s \/ n.lent[n.reply[q]] = s
      BY DEF LentWithCall
    <2>1. k.lent[q] = s /\ n.reply[q] = k.reply[q] /\ k.reply[q] \notin {c, p}
      BY <1>2, <1>6
    <2>2. /\ k.reply[q] \in PD /\ k.sc[k.reply[q]] = None
          /\ k.reply[q] = s \/ k.lent[k.reply[q]] = s
      BY <1>2, <2>1 DEF Lending, LentWithCall
    <2>3. n.sc[k.reply[q]] = None /\ n.lent[k.reply[q]] = k.lent[k.reply[q]]
      BY <1>2, <1>5, <2>1, <2>2
    <2>4. QED
      BY <1>2, <2>1, <2>2, <2>3
  <1>9. LenderWaits(n)
    <2> SUFFICES ASSUME NEW q \in PD, NEW s \in PD, n.lent[q] = s
                 PROVE  OnReply(n, s) /\ n.sc[s] = None
      BY DEF LenderWaits
    <2>1. q # p /\ k.lent[q] = s
      BY <1>2, <1>6
    <2>2. OnReply(k, s) /\ k.sc[s] = None
      BY <2>1 DEF Lending, LenderWaits
    <2>3. s # c
      <3> SUFFICES ASSUME s = c PROVE FALSE
        OBVIOUS
      <3> DEFINE S == {x \in PD \ {p} : k.lent[x] = c}
      <3>1. ASSUME NEW x \in S PROVE k.reply[x] \in S
        <4>1. x \in PD /\ n.lent[x] = c /\ k.lent[x] = c
          BY <1>2, <1>5
        <4>2. k.reply[x] # c /\ k.reply[x] # p
          BY <1>2, <1>6, <4>1
        <4>3. k.reply[x] # None /\ k.lent[k.reply[x]] = c
          BY <4>1, <4>2 DEF Lending, LentWithCall
        <4>4. QED
          BY <1>2, <4>1, <4>2, <4>3
      <3>2. q \in S /\ S \in SUBSET PD
        BY <2>1
      <3> HIDE DEF S
      <3>3. QED
        BY <3>1, <3>2 DEF Lending, NoReplyCycle
    <2>4. QED
      BY <1>2, <1>5, <2>2, <2>3 DEF OnReply
  <1>10. NoReplyCycle(n)
    <2> SUFFICES ASSUME NEW S \in SUBSET PD, S # {}, \A q \in S : n.reply[q] \in S
                 PROVE  FALSE
      BY DEF NoReplyCycle
    <2>1. \A q \in S : k.reply[q] \in S
      BY <1>2, <1>5
    <2>2. QED
      BY <2>1 DEF Lending, NoReplyCycle
  <1>11. OwnOrLent(n)
    <2> SUFFICES ASSUME NEW s \in PD \ Passive
                 PROVE  n.sc[s] = s \/ (OnReply(n, s) /\ n.lent[n.on[s]] = s)
      BY DEF OwnOrLent
    <2>1. k.sc[s] = s \/ (OnReply(k, s) /\ k.lent[k.on[s]] = s)
      BY DEF Lending, OwnOrLent
    <2>2. CASE s = c
      BY <1>2, <1>3, <1>4, <1>5, <2>1, <2>2
    <2>3. CASE s # c /\ k.sc[s] = s
      <3>1. k.lent[p] # s
        BY <1>2, <2>3 DEF Lending, LenderWaits
      <3>2. QED
        BY <1>2, <1>5, <2>3, <3>1
    <2>4. CASE s # c /\ OnReply(k, s) /\ k.lent[k.on[s]] = s
      <3>1. k.on[s] \in PD /\ k.on[s] # p
        BY <1>1, <2>4 DEF RepliesHold
      <3>2. QED
        BY <1>2, <1>5, <2>4, <3>1 DEF OnReply
    <2>5. QED
      BY <2>1, <2>2, <2>3, <2>4
  <1>12. LentIsHeld(n)
    <2> SUFFICES ASSUME NEW q \in PD, NEW s \in PD, n.lent[q] = s
                 PROVE  n.sc[q] = s \/ (OnReply(n, q) /\ n.lent[n.on[q]] = s)
      BY DEF LentIsHeld
    <2>1. q # p /\ k.lent[q] = s
      BY <1>2, <1>6
    <2>2. CASE k.sc[q] = s
      <3>1. k.lent[p] # None => k.sc[p] = k.lent[p]
        BY <1>4 DEF Lending, LentIsHeld
      <3>2. k.lent[p] # s
        BY <1>2, <2>1, <2>2, <3>1 DEF Distinct
      <3>3. q # c \/ k.lent[p] = None
        BY <1>2, <1>4, <2>2
      <3>4. QED
        BY <1>2, <1>5, <2>2, <3>2, <3>3
    <2>3. CASE k.sc[q] # s
      <3>1. OnReply(k, q) /\ k.lent[k.on[q]] = s
        BY <2>1, <2>3 DEF Lending, LentIsHeld
      <3>2. CASE q = c
        BY <1>2, <1>3, <1>5, <3>1, <3>2
      <3>3. CASE q # c
        <4>1. k.on[q] \in PD /\ k.on[q] # p
          BY <1>1, <3>1, <3>3 DEF RepliesHold
        <4>2. QED
          BY <1>2, <1>5, <3>1, <3>3, <4>1 DEF OnReply
      <3>4. QED
        BY <3>2, <3>3
    <2>4. QED
      BY <2>2, <2>3
  <1>13. QED
    BY <1>2, <1>5, <1>7, <1>8, <1>9, <1>10, <1>11, <1>12 DEF Lending, n

LEMMA ReceiveLends ==
  ASSUME NEW k \in KernelState, NEW p \in PD, k.reply[p] = None, k.status[p] = "Running",
         \A c \in Senders(k, p) : k.via[c] \in Id,
         Distinct(k), RepliesHold(k), Lending(k), NEW l \in Receive(k, p)
  PROVE  Lending(l)
  <1> DEFINE r == MaybeReturn(k, p)
             e == [k EXCEPT !.ntfn[p] = {}]
             ids == k.ntfn[p]
  <1>1. (IF p \in PP THEN DropCaller(k, p) ELSE k) = k
    BY DropCallerFields
  <1>2. Receive(k, p) =
          IF k.ntfn[p] # {} THEN {Notified(e, p, ids)}
          ELSE IF p \notin PP THEN {[r EXCEPT !.status[p] = "BlockedOnNotification"]}
          ELSE IF Senders(k, p) = {} THEN {[r EXCEPT !.status[p] = "BlockedOnReceive"]}
          ELSE {Accept(r, c, r.via[c], p) : c \in FirstSenders(k, p)}
    BY <1>1 DEF Receive
  <1>3. /\ r \in KernelState /\ SameButContexts(k, r)
        /\ Lending(r) /\ RepliesHold(r) /\ Distinct(r)
    BY MaybeReturnFields, MaybeReturnLends, MaybeReturnMoves DEF Moves
  <1>4. e \in KernelState /\ ids \in SUBSET Id
    BY DEF KernelState
  <1>5. SameLending(k, e) /\ ~OnReply(e, p)
    BY DEF KernelState, SameLending, OnReply
  <1>6. \/ l = Notified(e, p, ids)
        \/ \E s \in {"BlockedOnReceive", "BlockedOnNotification"} :
             l = [r EXCEPT !.status[p] = s]
        \/ \E c \in Senders(k, p) : l = Accept(r, c, r.via[c], p)
    BY <1>2 DEF FirstSenders
  <1> HIDE DEF r, e
  <1>7. CASE l = Notified(e, p, ids)
    <2>1. Lending(e) /\ RepliesHold(e)
      BY <1>5, SameLendingLends DEF KernelState
    <2>2. QED
      BY <1>4, <1>5, <1>7, <2>1, NotifiedLends
  <1>8. ASSUME NEW s \in {"BlockedOnReceive", "BlockedOnNotification"},
               l = [r EXCEPT !.status[p] = s]
        PROVE  Lending(l)
    <2>1. SameLending(r, l)
      BY <1>3, <1>8 DEF KernelState, SameLending, OnReply, SameButContexts
    <2>2. QED
      BY <1>3, <2>1, SameLendingLends
  <1>9. ASSUME NEW c \in Senders(k, p), l = Accept(r, c, r.via[c], p)
        PROVE  Lending(l)
    <2>1. c \in PD /\ r.via[c] \in Id /\ r.reply[p] = None
      BY <1>3 DEF Senders, SameButContexts
    <2>2. c # p /\ ~OnReply(r, c) /\ ~OnReply(r, p)
      BY <1>3 DEF Senders, SameButContexts, OnReply
    <2>3. QED
      BY <1>3, <1>9, <2>1, <2>2, AcceptLends
  <1>10. QED
    BY <1>6, <1>7, <1>8, <1>9
-----------------------------------------------------------------------------
(***************************************************************************)
(* Lending in the running system.  Only a passive domain ever signals the  *)
(* monitor, so only a passive domain's context is taken away from it.      *)
(***************************************************************************)
LendInv ==
  /\ Lending(kernel)
  /\ \A p \in PD : have_signal[p] => p \in Passive
  /\ monitor.at \in {"unbind", "bind"} => monitor.pd \in Passive

LEMMA CallInvReplies ==
  ASSUME CallInv
  PROVE  RepliesHold(kernel)
  BY CalledIsDomain DEF CallInv, OneReplyPerCall, RepliesHold, OnReply, Calling

\* A step that changes neither have_signal nor the monitor.
LEMMA LendingStep ==
  ASSUME LendInv, Lending(kernel'), have_signal' = have_signal,
         monitor' = monitor \/ monitor' = Idle
  PROVE  LendInv'
  BY DEF LendInv, Idle

LEMMA ReceivingLends ==
  ASSUME CallInv, NEW p \in PD, AtReceive(p), NEW k, ReadyToReceive(k, p), Distinct(k), Lending(k),
         kernel' \in Receive(k, p)
  PROVE  Lending(kernel')
  <1>1. /\ k \in KernelState /\ k.reply[p] = None /\ k.via = kernel.via
        /\ k.status[p] = "Running"
    BY DEF ReadyToReceive
  <1>2. \A c \in Senders(k, p) : k.via[c] \in Id
    <2>1. \A c \in Senders(k, p) : c \in PD /\ kernel.status[c] = "BlockedOnSend"
      BY DEF Senders, ReadyToReceive
    <2>2. QED
      BY <1>1, <2>1 DEF CallInv, CallsThroughCaps, CallThroughCap, Calling
  <1>3. \A c \in PD : OnReply(k, c) => k.on[c] = kernel.on[c] /\ kernel.on[c] \in PD
    BY CalledIsDomain DEF ReadyToReceive, OnReply, Calling
  <1>4. RepliesHold(k)
    BY <1>3 DEF ReadyToReceive, RepliesHold, OnReply
  <1>5. QED
    BY <1>1, <1>2, <1>4, ReceiveLends

LEMMA LendInvStep == CallInv /\ ContextInv /\ LendInv /\ [Next]_vars => LendInv'
  <1> SUFFICES ASSUME CallInv, ContextInv, LendInv, [Next]_vars PROVE LendInv'
    OBVIOUS
  <1>1. kernel \in KernelState /\ monitor \in MonitorState
    BY DEF CallInv, TypeOK
  <1>2. RepliesHold(kernel) /\ Lending(kernel) /\ Distinct(kernel)
    BY CallInvReplies DEF LendInv, ContextInv
  <1>3. ASSUME NEW p \in PD, Notify(p) PROVE LendInv'
    <2>1. PICK cap \in NotifyCaps : kernel' = Signal(kernel, cap[3], {cap[4]})
      BY <1>3 DEF Notify
    <2>2. Lending(kernel')
      BY <1>1, <1>2, <2>1, NotifyCapIndices, SignalLends
    <2>3. QED
      BY <1>3, <2>2, LendingStep DEF Notify, libVars
  <1>4. ASSUME NEW p \in PD, PPCall(p) PROVE LendInv'
    <2>1. PICK cap \in AppCalls : kernel' = Call(kernel, p, cap[4], cap[3])
      BY <1>4 DEF PPCall
    <2>2. cap[3] \in PD /\ cap[4] \in Id /\ kernel.status[p] = "Running"
      BY <1>4, CapIndices DEF PPCall, InEntry, CanRun, Schedulable
    <2>3. kernel.status[cap[3]] = "BlockedOnReceive" => kernel.reply[cap[3]] = None
      BY <2>2 DEF CallInv, LoopConsistent, Waiting, OneReplyPerCall, Serving, NoBadge
    <2>4. Lending(kernel')
      BY <1>1, <1>2, <2>1, <2>2, <2>3, CallLends
    <2>5. QED
      BY <1>4, <2>4, LendingStep DEF PPCall, libVars
  <1>5. ASSUME NEW p \in PD, IrqAck(p) PROVE LendInv'
    BY <1>2, <1>5, LendingStep DEF IrqAck
  <1>6. ASSUME NEW p \in PD, Fault(p) PROVE LendInv'
    <2>1. kernel.status[p] = "Running" /\ have_signal' = have_signal
      BY <1>6 DEF Fault, InEntry, CanRun, Schedulable, libVars
    <2>2. SameLending(kernel, kernel')
      BY <1>1, <1>6, <2>1 DEF Fault, SameLending, OnReply, KernelState
    <2>3. Lending(kernel') /\ monitor'.at = "report"
      BY <1>2, <1>6, <2>2, SameLendingLends DEF Fault, FaultMessage
    <2>4. QED
      BY <2>1, <2>3 DEF LendInv
  <1>7. ASSUME NEW p \in PD, InitReturns(p) PROVE LendInv'
    <2>1. /\ \A q \in PD : have_signal'[q] => have_signal[q] \/ q \in Passive
          /\ kernel' = kernel /\ monitor' = monitor
      <3>1. /\ have_signal' = [have_signal EXCEPT ![p] = p \in Passive]
            /\ have_signal \in [PD -> BOOLEAN]
        BY <1>7 DEF InitReturns, CallInv, TypeOK
      <3>2. \A q \in PD : have_signal'[q] = IF q = p THEN p \in Passive ELSE have_signal[q]
        BY <3>1, Zenon
      <3>3. \A q \in PD : have_signal'[q] => have_signal[q] \/ q \in Passive
        BY <3>2, Zenon
      <3>4. QED
        BY <1>7, <3>3 DEF InitReturns
    <2>2. QED
      BY <1>2, <2>1 DEF LendInv
  <1>8. ASSUME NEW p \in PD, NotifiedReturns(p) \/ ProtectedReturns(p) PROVE LendInv'
    BY <1>2, <1>8, LendingStep DEF NotifiedReturns, ProtectedReturns
  <1>9. ASSUME NEW p \in PD, ReplyRecv(p) PROVE LendInv'
    <2>1. AtReceive(p) /\ have_reply[p] /\ kernel' \in Receive(Reply(kernel, p), p)
      BY <1>9 DEF ReplyRecv
    <2>2. kernel.reply[p] # None /\ kernel.status[p] = "Running"
      BY <2>1 DEF AtReceive, CanRun, Schedulable, CallInv, OneReplyPerCall, Serving
    <2>3. Lending(Reply(kernel, p)) /\ Distinct(Reply(kernel, p))
      BY <1>1, <1>2, <2>2, ReplyLends, ReplyMoves DEF OnReply, Moves
    <2>4. Lending(kernel')
      BY <2>1, <2>3, ReadyAfterReply, ReceivingLends
    <2>5. QED
      BY <1>9, <2>1, <2>4, LendingStep DEF ReplyRecv, AtReceive
  <1>10. ASSUME NEW p \in PD, NBSendRecv(p) \/ Recv(p) PROVE LendInv'
    <2>1. AtReceive(p) /\ ~have_reply[p] /\ kernel' \in Receive(kernel, p)
      BY <1>10 DEF NBSendRecv, Recv
    <2>2. Lending(kernel') /\ have_signal' = have_signal
      BY <1>2, <2>1, ReadyWithoutReply, ReceivingLends DEF AtReceive
    <2>3. monitor' = monitor \/ (have_signal[p] /\ monitor' = NullMessage(p))
      BY <1>10 DEF NBSendRecv, Recv
    <2>4. QED
      BY <2>2, <2>3 DEF LendInv, NullMessage
  <1>11. ASSUME NEW p \in PD, DispatchProtected(p) \/ DispatchNotified(p) PROVE LendInv'
    <2>1. SameLending(kernel, kernel')
      BY <1>1, <1>11 DEF DispatchProtected, DispatchNotified, SameLending, OnReply, KernelState
    <2>2. Lending(kernel')
      BY <1>2, <2>1, SameLendingLends
    <2>3. QED
      BY <1>11, <2>2, LendingStep DEF DispatchProtected, DispatchNotified
  <1>12. CASE MonitorUnbind /\ UNCHANGED libVars
    <2> DEFINE s == monitor.pd
    <2>1. s \in Passive /\ s \in PD /\ monitor'.at = "bind" /\ monitor'.pd = s
      BY <1>1, <1>12, DescriptionAssumption DEF MonitorUnbind, MonitorState, Idle, LendInv
    <2>2. CASE kernel.sc[s] = s
      <3>1. kernel' = [kernel EXCEPT !.sc[s] = None]
        BY <1>12, <2>2 DEF MonitorUnbind, UnbindObject
      <3>2. /\ kernel'.lent = kernel.lent /\ kernel'.reply = kernel.reply
            /\ kernel'.bound \subseteq Passive
            /\ kernel'.status = kernel.status /\ kernel'.on = kernel.on
            /\ kernel'.sc = [kernel.sc EXCEPT ![s] = None]
        BY <1>1, <1>2, <2>1, <3>1 DEF KernelState, Lending
      <3>3. PICK p \in Passive : p = s
        BY <2>1
      <3>4. Lending(kernel')
        BY <1>1, <1>2, <2>2, <3>2, <3>3, OwnContextMovesLends
      <3>5. QED
        BY <1>12, <2>1, <3>4 DEF LendInv, libVars
    <2>3. CASE kernel.sc[s] # s
      BY <1>12, <2>1, <2>3 DEF MonitorUnbind, UnbindObject, LendInv, libVars
    <2>4. QED
      BY <2>2, <2>3
  <1>13. CASE MonitorBind /\ UNCHANGED libVars
    <2> DEFINE s == monitor.pd
    <2>1. s \in Passive /\ s \in PD
      BY <1>13, DescriptionAssumption DEF MonitorBind, LendInv
    <2>2. /\ kernel'.sc = kernel.sc /\ kernel'.lent = kernel.lent
          /\ kernel'.reply = kernel.reply /\ kernel'.on = kernel.on
          /\ kernel'.status = kernel.status
          /\ kernel'.bound \subseteq Passive
      BY <1>1, <1>2, <1>13, <2>1 DEF MonitorBind, Bind, KernelState, Lending
    <2>3. Lending(kernel')
      BY <1>2, <2>2 DEF Lending, BorrowedOnRecord, LentWithCall, LenderWaits,
         LentIsHeld, NoReplyCycle, OwnOrLent, OnReply
    <2>4. QED
      BY <1>13, <2>3, LendingStep DEF MonitorBind, libVars
  <1>14. CASE MonitorReport /\ UNCHANGED libVars
    BY <1>2, <1>14, LendingStep DEF MonitorReport, libVars
  <1>15. CASE Irq
    <2>1. PICK irq \in Irqs : kernel' = Signal(kernel, irq[1], {irq[2]})
      BY <1>15 DEF Irq
    <2>2. irq[1] \in PD /\ {irq[2]} \in SUBSET Id
      BY DescriptionAssumption
    <2>3. QED
      BY <1>1, <1>2, <1>15, <2>1, <2>2, SignalLends, LendingStep DEF Irq
  <1>16. CASE UNCHANGED vars
    BY <1>2, <1>16, LendingStep DEF vars, libVars
  <1>17. QED
    BY <1>3, <1>4, <1>5, <1>6, <1>7, <1>8, <1>9, <1>10, <1>11, <1>12, <1>13, <1>14, <1>15,
       <1>16
    DEF Next, AppNext, LoopNext, MonitorNext

LEMMA InitLendInv == Init => LendInv
  <1> SUFFICES ASSUME Init PROVE LendInv
    OBVIOUS
  <1>1. /\ kernel.sc = [p \in PD |-> p] /\ kernel.lent = [p \in PD |-> None]
        /\ kernel.reply = [p \in PD |-> None] /\ kernel.bound = {}
        /\ have_signal = [p \in PD |-> FALSE] /\ monitor = Idle
    BY DEF Init, InitKernel, LibInit, MonitorInit
  <1>2. None \notin PD
    BY DescriptionAssumption
  <1>3. NoReplyCycle(kernel)
    BY <1>1, <1>2 DEF NoReplyCycle
  <1>4. Lending(kernel)
    BY <1>1, <1>2, <1>3 DEF Lending, BorrowedOnRecord, LentWithCall, LenderWaits, LentIsHeld,
       OwnOrLent
  <1>5. QED
    BY <1>1, <1>4 DEF LendInv, Idle

(***************************************************************************)
(* In every reachable state the contexts that are not with their owners    *)
(* are with the domains their owners wait for, and on record there.        *)
(***************************************************************************)
THEOREM LendInvariant == Spec => []LendInv
  BY InitLendInv, LendInvStep, CallInvariant, ContextInvariant, PTL DEF Spec

(***************************************************************************)
(* A domain with a budget of its own runs on it whenever it is not waiting *)
(* for the reply to a call: through chains of calls, and however signals,  *)
(* interrupts and monitor requests come in between, its scheduling context *)
(* comes back with the reply (the seL4_ReplyRecv of main.c:60).            *)
(***************************************************************************)
THEOREM OwnContextKept == Spec => []ActiveOwnContext
  <1>1. LendInv => ActiveOwnContext
    BY DEF LendInv, Lending, OwnOrLent, OnReply, ActiveOwnContext
  <1>2. QED
    BY <1>1, LendInvariant, PTL

-----------------------------------------------------------------------------
(***************************************************************************)
(* The hand-over of a passive domain's scheduling context to its           *)
(* notification (handler_loop signals the monitor, which unbinds and binds *)
(* the context) races with everything that can wake the domain.  Under a   *)
(* rule on the system description it is safe: no domain is ever runnable   *)
(* without a context, and the monitor only takes the context of a domain   *)
(* that waits.                                                             *)
(***************************************************************************)

(***************************************************************************)
(* The rule, which the tool does not enforce: calls ascend in priority     *)
(* (docs/manual.md:220), a passive domain is notified and called by        *)
(* domains of a lower priority only and has no interrupts, and no budget   *)
(* is smaller than its period, so that a runnable domain always runs       *)
(* before those of a lower priority.                                       *)
(***************************************************************************)
HandOverRule ==
  /\ CallsAscend
  /\ \A cap \in NotifyCaps : cap[3] \in Passive => Priority[cap[1]] < Priority[cap[3]]
  /\ \A irq \in Irqs : irq[1] \notin Passive
  /\ Throttled = {}

OnCall(k, c) == k.status[c] \in {"BlockedOnSend", "BlockedOnReply"}

\* The passive domains of S that can run have a context, those that queue keep
\* theirs, and those that wait for a reply get one with it.
HasContext(k, S) ==
  \A p \in S \cap Passive :
    /\ k.status[p] \in {"Running", "BlockedOnSend"} => k.sc[p] # None
    /\ OnReply(k, p) => k.sc[p] # None \/ k.lent[k.on[p]] # None

\* Nobody queues on an endpoint whose domain waits for callers.
NoneOverlooked(k) ==
  /\ \A p \in PD : k.status[p] = "BlockedOnReceive" => Senders(k, p) = {}
  /\ \A p \in PP : k.status[p] # "BlockedOnNotification"

\* p waits for a domain that waits for ... a domain that never runs again.
Stuck(k, p) ==
  \E S \in SUBSET PD :
    p \in S /\ \A x \in S : k.status[x] = "Stopped" \/ (OnCall(k, x) /\ k.on[x] \in S)

\* Nothing is pending for a passive domain that will ever run again.
PendingStuck(k) ==
  \A p \in Passive : k.ntfn[p] # {} \/ Senders(k, p) # {} => Stuck(k, p)

HandOver(k, S) == HasContext(k, S) /\ NoneOverlooked(k) /\ PendingStuck(k)

-----------------------------------------------------------------------------
(* Stuck domains stay stuck. *)

\* From k to l, nobody who stopped or is in a call on another domain than y moves.
Stays(k, l, y) ==
  \A x \in PD :
    /\ k.status[x] = "Stopped" => l.status[x] = "Stopped"
    /\ OnCall(k, x) /\ k.on[x] # y => OnCall(l, x) /\ l.on[x] = k.on[x]

LEMMA StuckStays ==
  ASSUME NEW k, NEW l, NEW y, y \in PD => k.status[y] = "Running", Stays(k, l, y),
         NEW p \in PD, Stuck(k, p)
  PROVE  Stuck(l, p)
  <1>1. PICK S \in SUBSET PD :
          p \in S /\ \A x \in S : k.status[x] = "Stopped" \/ (OnCall(k, x) /\ k.on[x] \in S)
    BY DEF Stuck
  <1>2. y \notin S
    BY <1>1 DEF OnCall
  <1>3. \A x \in S : l.status[x] = "Stopped" \/ (OnCall(l, x) /\ l.on[x] \in S)
    BY <1>1, <1>2 DEF Stays
  <1>4. QED
    BY <1>1, <1>3 DEF Stuck

LEMMA StuckNotRunning ==
  ASSUME NEW k, NEW p \in PD, Stuck(k, p)
  PROVE  k.status[p] \notin {"Running", "BlockedOnReceive", "BlockedOnNotification"}
  BY DEF Stuck, OnCall

\* A step in which no passive domain gets anything new to handle.
LEMMA PendingStays ==
  ASSUME NEW k, NEW l, NEW y, y \in PD => k.status[y] = "Running", Stays(k, l, y),
         PendingStuck(k),
         \A p \in Passive : /\ l.ntfn[p] # {} => k.ntfn[p] # {} \/ Stuck(k, p)
                            /\ Senders(l, p) # {} => Senders(k, p) # {} \/ Stuck(k, p)
  PROVE  PendingStuck(l)
  BY StuckStays, DescriptionAssumption DEF PendingStuck

-----------------------------------------------------------------------------
(* The kernel operators *)

\* A notification: its domain takes it with the context it finds there, or will
\* never take it.
LEMMA SignalHandOver ==
  ASSUME NEW k \in KernelState, NEW q \in PD, NEW ids \in SUBSET Id,
         Lending(k), HandOver(k, PD),
         q \in Passive =>
           IF k.status[q] \in {"BlockedOnReceive", "BlockedOnNotification"}
           THEN q \in k.bound ELSE Stuck(k, q)
  PROVE  HandOver(Signal(k, q, ids), PD)
  <1> DEFINE l == Signal(k, q, ids)
  <1>1. None \notin PD /\ k.status \in [PD -> Status] /\ k.ntfn \in [PD -> SUBSET Id]
        /\ k.sc \in [PD -> PD \cup {None}]
    BY DescriptionAssumption DEF KernelState
  <1>2. CASE k.status[q] \in {"BlockedOnReceive", "BlockedOnNotification"}
    <2>1. /\ AfterNotified(k, l, q, ids) /\ l.ntfn = k.ntfn
          /\ DonatedContexts(k, l, q)
      BY <1>2, SignalFields, NotifiedContexts DEF Signal
    <2> HIDE DEF l
    <2>2. q \in Passive => l.sc[q] # None
      <3>1. CASE k.sc[q] = None /\ q \in Passive
        <4>1. ScFree(k, q)
          BY <1>1, <3>1, <1>2 DEF ScFree, Lending, BorrowedOnRecord, LenderWaits, OnReply
        <4>2. QED
          BY <1>1, <1>2, <2>1, <3>1, <4>1 DEF DonatedContexts
      <3>2. CASE k.sc[q] # None
        BY <1>1, <2>1, <3>2 DEF DonatedContexts
      <3>3. QED
        BY <3>1, <3>2
    <2>3. HasContext(l, PD)
      BY <1>1, <1>2, <2>1, <2>2 DEF HandOver, HasContext, AfterNotified, DonatedContexts, OnReply
    <2>4. NoneOverlooked(l)
      BY <1>1, <1>2, <2>1 DEF HandOver, NoneOverlooked, AfterNotified, Senders
    <2>5. Stays(k, l, None) /\ \A p \in PD : Senders(l, p) = Senders(k, p)
      BY <1>1, <1>2, <2>1 DEF Stays, AfterNotified, OnCall, Senders
    <2>6. PendingStuck(l)
      BY <1>1, <2>1, <2>5, PendingStays, DescriptionAssumption DEF HandOver
    <2>7. QED
      BY <2>3, <2>4, <2>6 DEF HandOver, l
  <1>3. CASE k.status[q] \notin {"BlockedOnReceive", "BlockedOnNotification"}
    <2>1. l = [k EXCEPT !.ntfn[q] = @ \cup ids]
      BY <1>3 DEF Signal
    <2>2. /\ l.ntfn = [k.ntfn EXCEPT ![q] = @ \cup ids]
          /\ l.status = k.status /\ l.on = k.on /\ l.sc = k.sc /\ l.lent = k.lent
      BY <2>1 DEF KernelState
    <2> HIDE DEF l
    <2>3. HasContext(l, PD) /\ NoneOverlooked(l)
      BY <2>2 DEF HandOver, HasContext, NoneOverlooked, OnReply, Senders
    <2>4. Stays(k, l, None) /\ \A p \in PD : Senders(l, p) = Senders(k, p)
      BY <2>2 DEF Stays, OnCall, Senders
    <2>5. \A p \in Passive : l.ntfn[p] # {} => k.ntfn[p] # {} \/ Stuck(k, p)
      BY <1>1, <1>3, <2>2, DescriptionAssumption
    <2>6. PendingStuck(l)
      BY <1>1, <2>4, <2>5, PendingStays, DescriptionAssumption DEF HandOver
    <2>7. QED
      BY <2>3, <2>6 DEF HandOver, l
  <1>4. QED
    BY <1>2, <1>3

\* A call that is taken: the caller has a context, and so the receiver gets one.
LEMMA AcceptHandOver ==
  ASSUME NEW k \in KernelState, NEW l, NEW c \in PD, NEW j \in Id, NEW p \in PD, c # p,
         AfterAccept(k, l, c, j, p), PushedContexts(k, l, c, p),
         k.status[c] = "Running" \/ (k.status[c] = "BlockedOnSend" /\ k.on[c] = p),
         k.status[p] \in {"Running", "BlockedOnReceive"},
         k.reply[p] = None, k.sc[c] # None,
         Distinct(k), RepliesHold(k), HandOver(k, PD \ {p})
  PROVE  HandOver(l, PD)
  <1>1. /\ None \notin PD /\ k.status \in [PD -> Status] /\ k.on \in [PD -> PD \cup {None}]
        /\ k.sc \in [PD -> PD \cup {None}] /\ k.lent \in [PD -> PD \cup {None}]
    BY DescriptionAssumption DEF KernelState
  <1>2. /\ l.status = [[k.status EXCEPT ![p] = "Running"] EXCEPT ![c] = "BlockedOnReply"]
        /\ l.on = [k.on EXCEPT ![c] = p] /\ l.ntfn = k.ntfn
    BY DEF AfterAccept
  <1>3. HasContext(l, PD)
    <2> SUFFICES ASSUME NEW q \in PD \cap Passive
                 PROVE  /\ l.status[q] \in {"Running", "BlockedOnSend"} => l.sc[q] # None
                        /\ OnReply(l, q) => l.sc[q] # None \/ l.lent[l.on[q]] # None
      BY DEF HasContext
    <2>1. CASE q = p
      BY <1>1, <1>2, <2>1 DEF PushedContexts, OnReply
    <2>2. CASE q = c
      BY <1>1, <1>2, <2>2 DEF PushedContexts, OnReply
    <2>3. CASE q # p /\ q # c
      <3>1. /\ k.status[q] \in {"Running", "BlockedOnSend"} => k.sc[q] # None
            /\ OnReply(k, q) => k.sc[q] # None \/ k.lent[k.on[q]] # None
        BY <2>3 DEF HandOver, HasContext
      <3>2. l.status[q] = k.status[q] /\ l.on[q] = k.on[q]
        BY <1>1, <1>2, <2>3
      <3>3. k.sc[q] # None => l.sc[q] = k.sc[q]
        BY <1>1, <2>3 DEF PushedContexts, Distinct
      <3>4. OnReply(k, q) => k.on[q] \in PD /\ k.on[q] # p
        BY <1>1 DEF RepliesHold
      <3>5. OnReply(k, q) => l.lent[k.on[q]] = k.lent[k.on[q]]
        BY <1>1, <3>4 DEF PushedContexts
      <3>6. QED
        BY <3>1, <3>2, <3>3, <3>5 DEF OnReply
    <2>4. QED
      BY <2>1, <2>2, <2>3
  <1>4. Stays(k, l, None) /\ \A q \in PD : Senders(l, q) \subseteq Senders(k, q)
    BY <1>1, <1>2 DEF Stays, OnCall, Senders
  <1>5. NoneOverlooked(l)
    <2>1. \A q \in PD : l.status[q] \in {"BlockedOnReceive", "BlockedOnNotification"}
                          => l.status[q] = k.status[q]
      BY <1>1, <1>2
    <2>2. QED
      BY <1>4, <2>1, DescriptionAssumption DEF HandOver, NoneOverlooked
  <1>6. PendingStuck(l)
    <2>1. \A q \in Passive : /\ l.ntfn[q] # {} => k.ntfn[q] # {}
                             /\ Senders(l, q) # {} => Senders(k, q) # {}
      BY <1>2, <1>4, DescriptionAssumption
    <2>2. PendingStuck(k) /\ None \notin PD
      BY <1>1 DEF HandOver
    <2>3. QED
      BY <1>4, <2>1, <2>2, PendingStays
  <1>7. QED
    BY <1>3, <1>5, <1>6 DEF HandOver

LEMMA CallHandOver ==
  ASSUME NEW k \in KernelState, NEW c \in PD, NEW j \in Id, NEW p \in PD,
         k.status[c] = "Running", k.sc[c] # None,
         k.status[p] = "BlockedOnReceive" => k.reply[p] = None,
         Distinct(k), RepliesHold(k), HandOver(k, PD),
         p \in Passive => k.status[p] = "BlockedOnReceive" \/ Stuck(k, p)
  PROVE  HandOver(Call(k, c, j, p), PD)
  <1> DEFINE l == Call(k, c, j, p)
  <1>1. HandOver(k, PD \ {p})
    BY DEF HandOver, HasContext
  <1>2. CASE k.status[p] = "BlockedOnReceive"
    <2>1. AfterAccept(k, l, c, j, p) /\ PushedContexts(k, l, c, p)
      BY <1>2, CallFields, AcceptContexts DEF Call
    <2>2. HandOver(l, PD)
      BY <1>1, <1>2, <2>1, AcceptHandOver
    <2>3. QED
      BY <2>2
  <1>3. CASE k.status[p] # "BlockedOnReceive"
    <2>1. l = [k EXCEPT !.status[c] = "BlockedOnSend", !.on[c] = p, !.via[c] = j]
      BY <1>3 DEF Call
    <2>2. /\ l.status = [k.status EXCEPT ![c] = "BlockedOnSend"]
          /\ l.on = [k.on EXCEPT ![c] = p]
          /\ l.ntfn = k.ntfn /\ l.sc = k.sc /\ l.lent = k.lent
      BY <2>1 DEF KernelState
    <2> HIDE DEF l
    <2>3. /\ None \notin PD /\ k.status \in [PD -> Status]
          /\ k.on \in [PD -> PD \cup {None}]
      BY DescriptionAssumption DEF KernelState
    <2>4. HasContext(l, PD)
      BY <2>2, <2>3 DEF HandOver, HasContext, OnReply
    <2>5. NoneOverlooked(l)
      BY <1>3, <2>2, <2>3 DEF HandOver, NoneOverlooked, Senders
    <2>6. Stays(k, l, None) /\ \A q \in PD \ {p} : Senders(l, q) \subseteq Senders(k, q)
      BY <2>2, <2>3 DEF Stays, OnCall, Senders
    <2>7. \A q \in Passive : Senders(l, q) # {} => Senders(k, q) # {} \/ Stuck(k, q)
      BY <1>3, <2>6, DescriptionAssumption
    <2>8. PendingStuck(l)
      BY <2>2, <2>3, <2>6, <2>7, PendingStays DEF HandOver
    <2>9. QED
      BY <2>4, <2>5, <2>8 DEF HandOver, l
  <1>4. QED
    BY <1>2, <1>3

\* A reply: the caller has a context again; the one who replies may have none
\* left, which matters only when it has received.
LEMMA ReplyHandOver ==
  ASSUME NEW k \in KernelState, NEW p \in PD, k.reply[p] # None, k.status[p] = "Running",
         Distinct(k), RepliesHold(k), Lending(k), HandOver(k, PD)
  PROVE  HandOver(Reply(k, p), PD \ {p})
  <1> DEFINE l == Reply(k, p)
  <1>1. PICK c \in PD : c = k.reply[p]
    BY DEF KernelState
  <1>2. /\ None \notin PD /\ k.status \in [PD -> Status] /\ k.on \in [PD -> PD \cup {None}]
        /\ k.sc \in [PD -> PD \cup {None}] /\ k.lent \in [PD -> PD \cup {None}]
    BY DescriptionAssumption DEF KernelState
  <1>3. OnReply(k, c) /\ k.on[c] = p /\ c # p
    BY <1>1, <1>2 DEF RepliesHold, OnReply
  <1>4. k.lent[p] # None => k.sc[c] = None
    BY <1>1, <1>2 DEF Lending, LentWithCall
  <1>5. /\ l.status = [k.status EXCEPT ![k.reply[p]] = "Running"]
        /\ l.on = [k.on EXCEPT ![k.reply[p]] = None] /\ l.ntfn = k.ntfn
    BY ReplyFields
  <1>6. /\ l.lent = [k.lent EXCEPT ![p] = None]
        /\ \/ /\ k.lent[p] \in PD
              /\ l.sc = [q \in PD |-> IF q = c THEN k.lent[p]
                                      ELSE IF k.sc[q] = k.lent[p] THEN None ELSE k.sc[q]]
           \/ k.lent[p] = None /\ l.sc = k.sc
    BY <1>1, <1>2, <1>4, ReplyContexts
  <1> HIDE DEF l
  <1>7. HasContext(l, PD \ {p})
    <2> SUFFICES ASSUME NEW q \in (PD \ {p}) \cap Passive
                 PROVE  /\ l.status[q] \in {"Running", "BlockedOnSend"} => l.sc[q] # None
                        /\ OnReply(l, q) => l.sc[q] # None \/ l.lent[l.on[q]] # None
      BY DEF HasContext
    <2>1. /\ k.status[q] \in {"Running", "BlockedOnSend"} => k.sc[q] # None
          /\ OnReply(k, q) => k.sc[q] # None \/ k.lent[k.on[q]] # None
      BY DEF HandOver, HasContext
    <2>2. CASE q = c
      BY <1>1, <1>2, <1>3, <1>5, <1>6, <2>1, <2>2 DEF OnReply
    <2>3. CASE q # c
      <3>1. l.status[q] = k.status[q] /\ l.on[q] = k.on[q]
        BY <1>1, <1>2, <1>5, <2>3
      <3>2. k.lent[p] # None => k.sc[p] = k.lent[p]
        BY <1>2 DEF Lending, LentIsHeld, OnReply
      <3>3. k.sc[q] # None => l.sc[q] = k.sc[q]
        BY <1>2, <1>6, <2>3, <3>2 DEF Distinct
      <3>4. OnReply(k, q) => k.on[q] \in PD /\ k.on[q] # p
        BY <1>1, <1>2, <2>3 DEF RepliesHold
      <3>5. OnReply(k, q) => l.lent[k.on[q]] = k.lent[k.on[q]]
        BY <1>2, <1>6, <3>4
      <3>6. QED
        BY <2>1, <3>1, <3>3, <3>5 DEF OnReply
    <2>4. QED
      BY <2>2, <2>3
  <1>8. NoneOverlooked(l)
    BY <1>1, <1>2, <1>3, <1>5 DEF HandOver, NoneOverlooked, OnReply, Senders
  <1>9. Stays(k, l, p) /\ \A q \in PD : Senders(l, q) \subseteq Senders(k, q)
    BY <1>1, <1>2, <1>3, <1>5 DEF Stays, OnCall, Senders, OnReply
  <1>10. PendingStuck(l)
    BY <1>5, <1>9, PendingStays, DescriptionAssumption DEF HandOver
  <1>11. QED
    BY <1>7, <1>8, <1>10 DEF HandOver, l
\* A receive of p: nothing is pending for a passive domain that runs, so it
\* blocks, and gives the context bound to its notification back.
LEMMA ReceiveHandOver ==
  ASSUME NEW k \in KernelState, NEW p \in PD, k.reply[p] = None, k.status[p] = "Running",
         \A c \in Senders(k, p) : k.via[c] \in Id,
         Distinct(k), RepliesHold(k), Lending(k), HandOver(k, PD \ {p}),
         NEW l \in Receive(k, p)
  PROVE  /\ HandOver(l, PD) /\ k.bound \subseteq l.bound
         /\ p \in Passive =>
              /\ l.status[p] \in {"BlockedOnReceive", "BlockedOnNotification"}
              /\ p \in k.bound => l.sc[p] # p
  <1> DEFINE r == MaybeReturn(k, p)
             e == [k EXCEPT !.ntfn[p] = {}]
             ids == k.ntfn[p]
  <1>1. (IF p \in PP THEN DropCaller(k, p) ELSE k) = k
    BY DropCallerFields
  <1>2. Receive(k, p) =
          IF k.ntfn[p] # {} THEN {Notified(e, p, ids)}
          ELSE IF p \notin PP THEN {[r EXCEPT !.status[p] = "BlockedOnNotification"]}
          ELSE IF Senders(k, p) = {} THEN {[r EXCEPT !.status[p] = "BlockedOnReceive"]}
          ELSE {Accept(r, c, r.via[c], p) : c \in FirstSenders(k, p)}
    BY <1>1 DEF Receive
  <1>3. /\ r \in KernelState /\ SameButContexts(k, r) /\ ReturnedContexts(k, r, p)
        /\ RepliesHold(r) /\ Distinct(r)
    BY MaybeReturnFields, MaybeReturnLends, MaybeReturnContexts, MaybeReturnMoves DEF Moves
  <1>4. /\ e \in KernelState /\ ids \in SUBSET Id /\ e.status = k.status /\ e.on = k.on
        /\ e.sc = k.sc /\ e.lent = k.lent /\ e.bound = k.bound
        /\ e.ntfn = [k.ntfn EXCEPT ![p] = {}]
    BY DEF KernelState
  <1>5. \/ k.ntfn[p] # {} /\ l = Notified(e, p, ids)
        \/ /\ k.ntfn[p] = {}
           /\ l = [r EXCEPT !.status[p] = IF p \in PP THEN "BlockedOnReceive"
                                          ELSE "BlockedOnNotification"]
           /\ p \in PP => Senders(k, p) = {}
        \/ \E c \in Senders(k, p) : l = Accept(r, c, r.via[c], p)
    BY <1>2 DEF FirstSenders
  <1>6. p \in Passive => k.ntfn[p] = {} /\ Senders(k, p) = {}
    BY StuckNotRunning DEF HandOver, PendingStuck
  <1>7. /\ None \notin PD /\ k.status \in [PD -> Status] /\ k.on \in [PD -> PD \cup {None}]
        /\ k.sc \in [PD -> PD \cup {None}] /\ k.ntfn \in [PD -> SUBSET Id]
        /\ k.bound \subseteq Passive
    BY DescriptionAssumption DEF KernelState, Lending
  <1> HIDE DEF r, e
  <1>8. CASE k.ntfn[p] # {} /\ l = Notified(e, p, ids)
    <2>1. AfterNotified(e, l, p, ids) /\ l.ntfn = e.ntfn /\ DonatedContexts(e, l, p)
      BY <1>4, <1>8, NotifiedFields, NotifiedContexts
    <2>2. p \notin Passive
      BY <1>6, <1>8
    <2>3. /\ l.status = [k.status EXCEPT ![p] = "Running"] /\ l.on = k.on
          /\ l.sc = k.sc /\ l.lent = k.lent /\ l.bound = k.bound
          /\ l.ntfn = [k.ntfn EXCEPT ![p] = {}]
      BY <1>4, <1>7, <2>1, <2>2 DEF AfterNotified, DonatedContexts
    <2>4. HasContext(l, PD)
      BY <1>7, <2>2, <2>3 DEF HandOver, HasContext, OnReply
    <2>5. Stays(k, l, None) /\ \A q \in PD : Senders(l, q) \subseteq Senders(k, q)
      BY <1>7, <2>3 DEF Stays, OnCall, Senders
    <2>6. NoneOverlooked(l)
      BY <1>7, <2>3, <2>5, DescriptionAssumption DEF HandOver, NoneOverlooked
    <2>7. PendingStuck(l)
      <3>1. \A q \in Passive : /\ l.ntfn[q] # {} => k.ntfn[q] # {}
                               /\ Senders(l, q) # {} => Senders(k, q) # {}
        BY <1>7, <2>3, <2>5, DescriptionAssumption
      <3>2. PendingStuck(k)
        BY DEF HandOver
      <3>3. QED
        BY <1>7, <2>5, <3>1, <3>2, PendingStays
    <2>8. QED
      BY <2>2, <2>3, <2>4, <2>6, <2>7 DEF HandOver
  <1>9. CASE /\ k.ntfn[p] = {}
             /\ l = [r EXCEPT !.status[p] = IF p \in PP THEN "BlockedOnReceive"
                                            ELSE "BlockedOnNotification"]
             /\ p \in PP => Senders(k, p) = {}
    <2>1. /\ l.status = [k.status EXCEPT ![p] = IF p \in PP THEN "BlockedOnReceive"
                                                ELSE "BlockedOnNotification"]
          /\ l.on = k.on /\ l.ntfn = k.ntfn /\ l.lent = k.lent /\ l.bound = k.bound
          /\ l.sc = r.sc
      BY <1>3, <1>9 DEF KernelState, SameButContexts, ReturnedContexts
    <2>2. \A q \in PD \ {p} : l.sc[q] = k.sc[q]
      BY <1>3, <1>7, <2>1 DEF ReturnedContexts
    <2>3. HasContext(l, PD)
      BY <1>7, <2>1, <2>2 DEF HandOver, HasContext, OnReply
    <2>4. Stays(k, l, None) /\ \A q \in PD : Senders(l, q) \subseteq Senders(k, q)
      BY <1>7, <2>1 DEF Stays, OnCall, Senders
    <2>5. NoneOverlooked(l)
      BY <1>7, <1>9, <2>1, <2>4, DescriptionAssumption DEF HandOver, NoneOverlooked
    <2>6. PendingStuck(l)
      <3>1. \A q \in Passive : /\ l.ntfn[q] # {} => k.ntfn[q] # {}
                               /\ Senders(l, q) # {} => Senders(k, q) # {}
        BY <2>1, <2>4, DescriptionAssumption
      <3>2. PendingStuck(k)
        BY DEF HandOver
      <3>3. QED
        BY <1>7, <2>4, <3>1, <3>2, PendingStays
    <2>7. /\ l.status[p] \in {"BlockedOnReceive", "BlockedOnNotification"}
          /\ p \in k.bound => l.sc[p] # p
      BY <1>3, <1>7, <2>1 DEF ReturnedContexts
    <2>8. QED
      BY <2>1, <2>3, <2>5, <2>6, <2>7 DEF HandOver
  <1>10. ASSUME NEW c \in Senders(k, p), l = Accept(r, c, r.via[c], p)
         PROVE  /\ HandOver(l, PD) /\ k.bound \subseteq l.bound
                /\ p \notin Passive
    <2>1. /\ c \in PD /\ r.via[c] \in Id /\ k.status[c] = "BlockedOnSend" /\ k.on[c] = p
          /\ c # p /\ p \notin Passive
      BY <1>3, <1>6 DEF Senders, SameButContexts
    <2>2. AfterAccept(r, l, c, r.via[c], p) /\ PushedContexts(r, l, c, p)
      BY <1>3, <1>10, <2>1, AcceptFields, AcceptContexts
    <2>3. r.sc = k.sc /\ r.lent = k.lent /\ r.bound = k.bound
      BY <1>3, <1>7, <2>1 DEF ReturnedContexts
    <2>4. k.sc[c] # None
      <3>1. CASE c \in Passive
        BY <2>1, <3>1 DEF HandOver, HasContext
      <3>2. CASE c \notin Passive
        BY <1>7, <2>1, <3>2 DEF Lending, OwnOrLent, OnReply
      <3>3. QED
        BY <3>1, <3>2
    <2>5. HandOver(r, PD \ {p})
      <3>1. HasContext(r, PD \ {p}) /\ NoneOverlooked(r)
        BY <1>3, <2>3 DEF HandOver, HasContext, NoneOverlooked, OnReply, SameButContexts, Senders
      <3>2. Stays(k, r, None) /\ \A q \in PD : Senders(r, q) = Senders(k, q)
        BY <1>3 DEF SameButContexts, Stays, OnCall, Senders
      <3>3. PendingStuck(r)
        <4>1. \A q \in Passive : /\ r.ntfn[q] # {} => k.ntfn[q] # {}
                                 /\ Senders(r, q) # {} => Senders(k, q) # {}
          BY <1>3, <3>2, DescriptionAssumption DEF SameButContexts
        <4>2. PendingStuck(k)
          BY DEF HandOver
        <4>3. QED
          BY <1>7, <3>2, <4>1, <4>2, PendingStays
      <3>4. QED
        BY <3>1, <3>3 DEF HandOver
    <2>6. /\ r.status[c] = "BlockedOnSend" /\ r.on[c] = p /\ r.status[p] = "Running"
          /\ r.reply[p] = None /\ r.sc[c] # None
      BY <1>3, <2>1, <2>3, <2>4 DEF SameButContexts
    <2>7. HandOver(l, PD)
      BY <1>3, <2>1, <2>2, <2>5, <2>6, AcceptHandOver
    <2>8. QED
      BY <2>1, <2>2, <2>3, <2>7 DEF PushedContexts
  <1>11. QED
    BY <1>5, <1>8, <1>9, <1>10
-----------------------------------------------------------------------------
(***************************************************************************)
(* The hand-over in the running system.                                    *)
(***************************************************************************)

\* The monitor is about to take the context of p, or has taken it.
HandingOver(p) == monitor.at \in {"unbind", "bind"} /\ monitor.pd = p

\* A passive domain signals the monitor at every receive without a reply, and it
\* receives without a reply first: from then on its context is bound to its
\* notification.  While the monitor handles the signal, the domain waits.
HandOverInv ==
  /\ HandOver(kernel, PD)
  /\ \A p \in Passive : pc[p] # "init" => have_signal[p]
  /\ \A p \in Passive : \/ p \in kernel.bound \/ HandingOver(p)
                        \/ pc[p] = "init" \/ (pc[p] = "loop" /\ ~have_reply[p])
  /\ monitor.at \in {"unbind", "bind"} => Waiting(monitor.pd)
  /\ monitor.at = "bind" => kernel.sc[monitor.pd] # monitor.pd

LEMMA SignalBound ==
  ASSUME NEW k \in KernelState, NEW q \in PD, NEW ids \in SUBSET Id
  PROVE  /\ Signal(k, q, ids).bound = k.bound
         /\ q \notin k.bound => Signal(k, q, ids).sc = k.sc
         /\ \A p \in PD \ {q} : Signal(k, q, ids).status[p] = k.status[p]
  <1>1. CASE k.status[q] \in {"BlockedOnReceive", "BlockedOnNotification"}
    <2>1. /\ DonatedContexts(k, Signal(k, q, ids), q)
          /\ AfterNotified(k, Signal(k, q, ids), q, ids)
      BY <1>1, NotifiedContexts, SignalFields DEF Signal
    <2>2. QED
      BY <2>1 DEF DonatedContexts, AfterNotified, KernelState
  <1>2. CASE k.status[q] \notin {"BlockedOnReceive", "BlockedOnNotification"}
    <2>1. Signal(k, q, ids) = [k EXCEPT !.ntfn[q] = @ \cup ids]
      BY <1>2 DEF Signal
    <2>2. QED
      BY <2>1 DEF KernelState
  <1>3. QED
    BY <1>1, <1>2

LEMMA CallBound ==
  ASSUME NEW k \in KernelState, NEW c \in PD, NEW j \in Id, NEW p \in PD
  PROVE  Call(k, c, j, p).bound = k.bound
  <1>1. CASE k.status[p] = "BlockedOnReceive"
    BY <1>1, AcceptContexts DEF Call, PushedContexts
  <1>2. CASE k.status[p] # "BlockedOnReceive"
    <2>1. Call(k, c, j, p) = [k EXCEPT !.status[c] = "BlockedOnSend",
                                       !.on[c] = p, !.via[c] = j]
      BY <1>2 DEF Call
    <2>2. QED
      BY <2>1 DEF KernelState
  <1>3. QED
    BY <1>1, <1>2

\* Every domain that is ready to run has a context.
LEMMA RunningHasContext ==
  ASSUME CallInv, LendInv, HandOverInv, NEW p \in PD, kernel.status[p] = "Running"
  PROVE  kernel.sc[p] # None
  <1>1. CASE p \in Passive
    BY <1>1 DEF HandOverInv, HandOver, HasContext
  <1>2. CASE p \notin Passive
    BY <1>2, DescriptionAssumption DEF LendInv, Lending, OwnOrLent, OnReply
  <1>3. QED
    BY <1>1, <1>2

(***************************************************************************)
(* While a domain of a lower priority runs, a domain of a higher priority  *)
(* waits for a message or will never run again: all that it could be       *)
(* waiting for is of a higher priority still.                              *)
(***************************************************************************)
LEMMA AboveRunnerStuck ==
  ASSUME HandOverRule, CallInv, LendInv, HandOverInv, NEW d \in PD, CanRun(d),
         NEW p \in PD, Priority[d] < Priority[p], ~Waiting(p)
  PROVE  Stuck(kernel, p)
  <1> DEFINE S == {x \in PD : Priority[d] < Priority[x]
                              /\ (kernel.status[x] = "Stopped" \/ Calling(x))}
  <1>1. \A x \in PD : Priority[x] \in Int
    BY DescriptionAssumption
  <1>2. ASSUME NEW x \in PD, Priority[d] < Priority[x], ~Waiting(x)
        PROVE  x \in S
    <2>1. kernel.status[x] # "Running"
      <3>1. SUFFICES ASSUME kernel.status[x] = "Running" PROVE FALSE
        OBVIOUS
      <3>2. Schedulable(kernel, x)
        BY <3>1, RunningHasContext DEF Schedulable
      <3>3. QED
        BY <1>1, <1>2, <3>2 DEF CanRun, HandOverRule
    <2>2. kernel.status[x] \in Status
      BY DEF CallInv, TypeOK, KernelState
    <2>3. QED
      BY <1>2, <2>1, <2>2 DEF Status, Waiting, Calling
  <1>3. ASSUME NEW x \in S, Calling(x)
        PROVE  kernel.on[x] \in S
    <2>1. PICK i, j \in Id : <<x, i, kernel.on[x], j>> \in AppCalls
      BY <1>3 DEF CallInv, CallsThroughCaps, CallThroughCap
    <2>2. kernel.on[x] \in PP /\ kernel.on[x] \in PD
      BY <2>1, AppAssumption, DescriptionAssumption DEF EndpointCaps
    <2>3. Priority[x] < Priority[kernel.on[x]]
      BY <2>1 DEF HandOverRule, CallsAscend
    <2>4. Priority[d] < Priority[kernel.on[x]]
      <3>1. Priority[d] < Priority[x] /\ Priority[d] \in Int
            /\ Priority[x] \in Int /\ Priority[kernel.on[x]] \in Int
        BY <1>1, <2>2
      <3> HIDE DEF S
      <3>2. QED
        BY <2>3, <3>1
    <2>5. ~Waiting(kernel.on[x])
      <3>1. CASE kernel.status[x] = "BlockedOnSend"
        <4>1. x \in Senders(kernel, kernel.on[x])
          BY <3>1 DEF Senders
        <4>2. QED
          BY <2>2, <4>1 DEF HandOverInv, HandOver, NoneOverlooked, Waiting
      <3>2. CASE kernel.status[x] = "BlockedOnReply"
        <4>1. kernel.reply[kernel.on[x]] # None
          BY <3>2, DescriptionAssumption DEF CallInv, OneReplyPerCall
        <4>2. Serving(kernel.on[x])
          BY <2>2, <4>1 DEF CallInv, OneReplyPerCall
        <4>3. QED
          BY <2>2, <4>2 DEF CallInv, LoopConsistent, Serving, NoBadge
      <3>3. QED
        BY <1>3, <3>1, <3>2 DEF Calling
    <2>6. QED
      BY <1>2, <2>2, <2>4, <2>5
  <1>4. p \in S
    BY <1>2
  <1>5. \A x \in S : kernel.status[x] = "Stopped" \/ (OnCall(kernel, x) /\ kernel.on[x] \in S)
    BY <1>3 DEF Calling, OnCall
  <1>6. S \in SUBSET PD
    OBVIOUS
  <1> HIDE DEF S
  <1>7. QED
    BY <1>4, <1>5, <1>6 DEF Stuck
\* A change that HandOver does not see.
LEMMA SameHandOver ==
  ASSUME NEW k, NEW l, l.status = k.status, l.on = k.on, l.ntfn = k.ntfn,
         l.sc = k.sc, l.lent = k.lent, HandOver(k, PD)
  PROVE  HandOver(l, PD)
  <1>1. HasContext(l, PD) /\ NoneOverlooked(l)
    BY DEF HandOver, HasContext, NoneOverlooked, OnReply, Senders
  <1>2. PendingStuck(l)
    BY DEF HandOver, PendingStuck, Stuck, OnCall, Senders
  <1>3. QED
    BY <1>1, <1>2 DEF HandOver

\* The receive phase, from a state k in which p has nothing to reply to.
LEMMA ReceivingHandOver ==
  ASSUME CallInv, NEW p \in PD, AtReceive(p), NEW k, ReadyToReceive(k, p),
         Distinct(k), Lending(k), HandOver(k, PD \ {p}), kernel' \in Receive(k, p)
  PROVE  /\ HandOver(kernel', PD) /\ k.bound \subseteq kernel'.bound
         /\ p \in Passive =>
              /\ kernel'.status[p] \in {"BlockedOnReceive", "BlockedOnNotification"}
              /\ p \in k.bound => kernel'.sc[p] # p
  <1>1. /\ k \in KernelState /\ k.reply[p] = None /\ k.via = kernel.via
        /\ k.status[p] = "Running"
    BY DEF ReadyToReceive
  <1>2. \A c \in Senders(k, p) : k.via[c] \in Id
    <2>1. \A c \in Senders(k, p) : c \in PD /\ kernel.status[c] = "BlockedOnSend"
      BY DEF Senders, ReadyToReceive
    <2>2. QED
      BY <1>1, <2>1 DEF CallInv, CallsThroughCaps, CallThroughCap, Calling
  <1>3. \A c \in PD : OnReply(k, c) => k.on[c] = kernel.on[c] /\ kernel.on[c] \in PD
    BY CalledIsDomain DEF ReadyToReceive, OnReply, Calling
  <1>4. RepliesHold(k)
    BY <1>3 DEF ReadyToReceive, RepliesHold, OnReply
  <1>5. QED
    BY <1>1, <1>2, <1>4, ReceiveHandOver

\* A step of a domain that leaves the monitor, pc, have_reply and have_signal.
LEMMA RunningHandOver ==
  ASSUME HandOverInv, HandOver(kernel', PD), kernel'.bound = kernel.bound,
         UNCHANGED <<pc, have_reply, have_signal>>,
         monitor = Idle, monitor'.at \notin {"unbind", "bind"}
  PROVE  HandOverInv'
  BY DEF HandOverInv, HandingOver, Idle

LEMMA HandOverStep ==
  HandOverRule => (CallInv /\ ContextInv /\ LendInv /\ HandOverInv /\ [Next]_vars => HandOverInv')
  <1> SUFFICES ASSUME HandOverRule, CallInv, ContextInv, LendInv, HandOverInv, [Next]_vars
               PROVE  HandOverInv'
    OBVIOUS
  <1>1. /\ kernel \in KernelState /\ monitor \in MonitorState
        /\ RepliesHold(kernel) /\ Lending(kernel) /\ Distinct(kernel)
        /\ HandOver(kernel, PD)
    BY CallInvReplies DEF CallInv, TypeOK, LendInv, ContextInv, HandOverInv
  <1>2. /\ Passive \subseteq PD /\ None \notin PD
        /\ pc \in [PD -> Location] /\ have_reply \in [PD -> BOOLEAN]
        /\ have_signal \in [PD -> BOOLEAN] /\ kernel.bound \subseteq Passive
    BY <1>1, DescriptionAssumption DEF CallInv, TypeOK, Lending
  <1>3. ASSUME NEW p \in PD, Notify(p) PROVE HandOverInv'
    <2>1. PICK cap \in NotifyCaps : cap[1] = p /\ kernel' = Signal(kernel, cap[3], {cap[4]})
      BY <1>3 DEF Notify
    <2>2. PICK q \in PD : q = cap[3]
      BY <2>1, NotifyCapIndices
    <2>3. PICK ids \in SUBSET Id : ids = {cap[4]}
      BY <2>1, NotifyCapIndices
    <2>4. CanRun(p) /\ monitor = Idle /\ monitor' = monitor /\ UNCHANGED libVars
      BY <1>3 DEF Notify, InEntry, CanRun
    <2>5. q \in Passive =>
            IF kernel.status[q] \in {"BlockedOnReceive", "BlockedOnNotification"}
            THEN q \in kernel.bound ELSE Stuck(kernel, q)
      <3>1. SUFFICES ASSUME q \in Passive
                     PROVE  IF Waiting(q) THEN q \in kernel.bound ELSE Stuck(kernel, q)
        BY DEF Waiting
      <3>2. Priority[p] < Priority[q]
        BY <2>1, <2>2, <3>1 DEF HandOverRule
      <3>3. Waiting(q) => q \in kernel.bound
        BY <2>4, <3>1 DEF HandOverInv, HandingOver, CallInv, LoopConsistent, Idle
      <3>4. QED
        BY <2>4, <3>2, <3>3, AboveRunnerStuck
    <2>6. kernel' = Signal(kernel, q, ids)
      BY <2>1, <2>2, <2>3
    <2>7. HandOver(kernel', PD) /\ kernel'.bound = kernel.bound
      BY <1>1, <2>5, <2>6, SignalHandOver, SignalBound
    <2>8. QED
      BY <2>4, <2>7, RunningHandOver DEF libVars, Idle
  <1>4. ASSUME NEW p \in PD, PPCall(p) PROVE HandOverInv'
    <2>1. PICK cap \in AppCalls : cap[1] = p /\ kernel' = Call(kernel, p, cap[4], cap[3])
      BY <1>4 DEF PPCall
    <2>2. PICK q \in PD : q = cap[3]
      BY <2>1, CapIndices
    <2>3. PICK j \in Id : j = cap[4]
      BY <2>1, CapIndices
    <2>4. /\ CanRun(p) /\ monitor = Idle /\ monitor' = monitor /\ UNCHANGED libVars
          /\ kernel.status[p] = "Running" /\ kernel.sc[p] # None
      BY <1>4 DEF PPCall, InEntry, CanRun, Schedulable
    <2>5. q \in Passive => kernel.status[q] = "BlockedOnReceive" \/ Stuck(kernel, q)
      <3>1. SUFFICES ASSUME q \in Passive, kernel.status[q] # "BlockedOnReceive"
                     PROVE  Stuck(kernel, q)
        OBVIOUS
      <3>2. Priority[p] < Priority[q] /\ q \in PP
        BY <2>1, <2>2, AppAssumption DEF HandOverRule, CallsAscend, EndpointCaps
      <3>3. ~Waiting(q)
        BY <1>1, <3>1, <3>2 DEF Waiting, HandOver, NoneOverlooked
      <3>4. QED
        BY <2>4, <3>2, <3>3, AboveRunnerStuck
    <2>6. kernel' = Call(kernel, p, j, q)
      BY <2>1, <2>2, <2>3
    <2>7. kernel.status[q] = "BlockedOnReceive" => kernel.reply[q] = None
      BY DEF CallInv, LoopConsistent, Waiting, OneReplyPerCall, Serving, NoBadge
    <2>8. HandOver(kernel', PD) /\ kernel'.bound = kernel.bound
      BY <1>1, <2>4, <2>5, <2>6, <2>7, CallHandOver, CallBound
    <2>9. QED
      BY <2>4, <2>8, RunningHandOver DEF libVars, Idle
  <1>5. ASSUME NEW p \in PD, IrqAck(p) PROVE HandOverInv'
    BY <1>1, <1>5, RunningHandOver DEF IrqAck, InEntry, CanRun, Idle
  <1>6. ASSUME NEW p \in PD, Fault(p) PROVE HandOverInv'
    <2>1. /\ kernel.status[p] = "Running" /\ monitor = Idle /\ UNCHANGED libVars
          /\ monitor'.at = "report"
      BY <1>6 DEF Fault, InEntry, CanRun, Schedulable, FaultMessage
    <2>2. /\ kernel'.status = [kernel.status EXCEPT ![p] = "Stopped"]
          /\ kernel'.on = kernel.on /\ kernel'.ntfn = kernel.ntfn
          /\ kernel'.sc = kernel.sc /\ kernel'.lent = kernel.lent
          /\ kernel'.bound = kernel.bound
      BY <1>1, <1>6 DEF Fault, KernelState
    <2>3. kernel.status \in [PD -> Status]
      BY <1>1 DEF KernelState
    <2>4. HasContext(kernel', PD) /\ NoneOverlooked(kernel')
      BY <1>1, <1>2, <2>1, <2>2, <2>3
      DEF HandOver, HasContext, NoneOverlooked, OnReply, Senders
    <2>5. /\ Stays(kernel, kernel', None)
          /\ \A q \in PD : Senders(kernel', q) \subseteq Senders(kernel, q)
      BY <2>1, <2>2, <2>3 DEF Stays, OnCall, Senders
    <2>6. PendingStuck(kernel')
      <3>1. \A q \in Passive : /\ kernel'.ntfn[q] # {} => kernel.ntfn[q] # {}
                               /\ Senders(kernel', q) # {} => Senders(kernel, q) # {}
        BY <1>2, <2>2, <2>5
      <3>2. PICK k, l : k = kernel /\ l = kernel'
        OBVIOUS
      <3>3. PendingStuck(l)
        BY <1>1, <1>2, <2>5, <3>1, <3>2, PendingStays DEF HandOver
      <3>4. QED
        BY <3>2, <3>3
    <2>7. QED
      BY <2>1, <2>2, <2>4, <2>6, RunningHandOver DEF libVars, HandOver
  <1>7. ASSUME NEW p \in PD, InitReturns(p) PROVE HandOverInv'
    <2>1. /\ pc' = [pc EXCEPT ![p] = "loop"] /\ pc[p] = "init"
          /\ have_signal' = [have_signal EXCEPT ![p] = p \in Passive]
          /\ kernel' = kernel /\ monitor' = monitor /\ have_reply' = have_reply
          /\ monitor = Idle /\ ~have_reply[p]
      BY <1>7 DEF InitReturns, CanRun, CallInv, LoopConsistent
    <2>2. \A q \in PD : have_signal'[q] = IF q = p THEN p \in Passive ELSE have_signal[q]
      BY <1>2, <2>1, Zenon
    <2>3. \A q \in PD : pc'[q] = IF q = p THEN "loop" ELSE pc[q]
      BY <1>2, <2>1
    <2>4. \A q \in Passive : pc'[q] # "init" => have_signal'[q]
      <3>1. \A q \in Passive : pc[q] # "init" => have_signal[q]
        BY DEF HandOverInv
      <3>2. QED
        BY <1>2, <2>2, <2>3, <3>1, Zenon
    <2>5. \A q \in Passive : \/ q \in kernel.bound
                             \/ pc'[q] = "init" \/ (pc'[q] = "loop" /\ ~have_reply[q])
      BY <1>2, <2>1, <2>3 DEF HandOverInv, HandingOver, Idle
    <2>6. QED
      BY <2>1, <2>4, <2>5 DEF HandOverInv, Idle
  <1>8. ASSUME NEW p \in PD, NotifiedReturns(p) \/ ProtectedReturns(p) PROVE HandOverInv'
    <2>1. /\ pc[p] \in {"notified", "protected"}
          /\ kernel' = kernel /\ monitor' = monitor /\ monitor = Idle
          /\ have_reply' = have_reply /\ have_signal' = have_signal
          /\ \A q \in PD \ {p} : pc'[q] = pc[q]
      BY <1>2, <1>8 DEF NotifiedReturns, ProtectedReturns, CanRun
    <2>2. p \in Passive => p \in kernel.bound /\ have_signal[p]
      BY <2>1 DEF HandOverInv, HandingOver, Idle
    <2>3. QED
      BY <1>2, <2>1, <2>2 DEF HandOverInv, HandingOver, Idle
  <1>9. ASSUME NEW p \in PD, ReplyRecv(p) PROVE HandOverInv'
    <2>1. /\ AtReceive(p) /\ have_reply[p] /\ kernel' \in Receive(Reply(kernel, p), p)
          /\ monitor' = monitor /\ monitor = Idle
          /\ have_reply' = have_reply /\ have_signal' = have_signal
          /\ pc[p] = "loop" /\ \A q \in PD \ {p} : pc'[q] = pc[q]
      BY <1>2, <1>9 DEF ReplyRecv, AtReceive, CanRun
    <2>2. kernel.reply[p] # None /\ kernel.status[p] = "Running"
      BY <2>1 DEF AtReceive, CanRun, Schedulable, CallInv, OneReplyPerCall, Serving
    <2> DEFINE r == Reply(kernel, p)
    <2>3. Lending(r) /\ Distinct(r) /\ HandOver(r, PD \ {p})
      BY <1>1, <2>2, ReplyLends, ReplyMoves, ReplyHandOver DEF OnReply, Moves
    <2>4. r.bound = kernel.bound
      <3>1. PICK c \in PD : c = kernel.reply[p]
        BY <1>1, <2>2 DEF KernelState
      <3>2. kernel.lent[p] # None => kernel.sc[c] = None
        BY <1>1, <1>2, <3>1 DEF Lending, LentWithCall, KernelState
      <3>3. QED
        BY <1>1, <1>2, <3>1, <3>2, ReplyContexts
    <2>5. ReadyToReceive(r, p)
      BY <2>1, ReadyAfterReply
    <2> HIDE DEF r
    <2>6. HandOver(kernel', PD) /\ kernel.bound \subseteq kernel'.bound
      <3>1. kernel' \in Receive(r, p)
        BY <2>1 DEF r
      <3>2. QED
        BY <2>1, <2>3, <2>4, <2>5, <3>1, ReceivingHandOver
    <2>7. p \in Passive => p \in kernel.bound /\ have_signal[p]
      BY <2>1 DEF HandOverInv, HandingOver, Idle
    <2>8. QED
      BY <1>2, <2>1, <2>6, <2>7 DEF HandOverInv, HandingOver, Idle
  <1>10. ASSUME NEW p \in PD, NBSendRecv(p) PROVE HandOverInv'
    <2>1. /\ AtReceive(p) /\ ~have_reply[p] /\ have_signal[p]
          /\ kernel' \in Receive(kernel, p) /\ monitor' = NullMessage(p) /\ monitor = Idle
          /\ have_reply' = have_reply /\ have_signal' = have_signal
          /\ pc[p] = "loop" /\ \A q \in PD \ {p} : pc'[q] = pc[q]
      BY <1>2, <1>10 DEF NBSendRecv, AtReceive, CanRun
    <2>2. p \in Passive
      BY <2>1 DEF LendInv
    <2>3. HandOver(kernel, PD \ {p})
      BY <1>1 DEF HandOver, HasContext
    <2>4. /\ HandOver(kernel', PD) /\ kernel.bound \subseteq kernel'.bound
          /\ kernel'.status[p] \in {"BlockedOnReceive", "BlockedOnNotification"}
      BY <1>1, <2>1, <2>2, <2>3, ReadyWithoutReply, ReceivingHandOver
    <2>5. monitor'.at = "unbind" /\ monitor'.pd = p
      BY <2>1 DEF NullMessage
    <2>6. QED
      BY <1>2, <2>1, <2>4, <2>5 DEF HandOverInv, HandingOver, Idle, Waiting
  <1>11. ASSUME NEW p \in PD, Recv(p) PROVE HandOverInv'
    <2>1. /\ AtReceive(p) /\ ~have_reply[p] /\ ~have_signal[p]
          /\ kernel' \in Receive(kernel, p) /\ monitor' = monitor /\ monitor = Idle
          /\ have_reply' = have_reply /\ have_signal' = have_signal
          /\ pc[p] = "loop" /\ \A q \in PD \ {p} : pc'[q] = pc[q]
      BY <1>2, <1>11 DEF Recv, AtReceive, CanRun
    <2>2. p \notin Passive
      BY <2>1 DEF HandOverInv
    <2>3. HandOver(kernel, PD \ {p})
      BY <1>1 DEF HandOver, HasContext
    <2>4. HandOver(kernel', PD) /\ kernel.bound \subseteq kernel'.bound
      BY <1>1, <2>1, <2>3, ReadyWithoutReply, ReceivingHandOver
    <2>5. QED
      BY <1>2, <2>1, <2>2, <2>4 DEF HandOverInv, HandingOver, Idle
  <1>12. ASSUME NEW p \in PD, DispatchProtected(p) \/ DispatchNotified(p) PROVE HandOverInv'
    <2>1. /\ pc[p] = "dispatch" /\ monitor' = monitor /\ monitor = Idle
          /\ have_signal' = have_signal
          /\ \A q \in PD \ {p} : pc'[q] = pc[q] /\ have_reply'[q] = have_reply[q]
      BY <1>2, <1>12 DEF DispatchProtected, DispatchNotified, CanRun
    <2>2. /\ kernel'.status = kernel.status /\ kernel'.on = kernel.on
          /\ kernel'.ntfn = kernel.ntfn /\ kernel'.sc = kernel.sc
          /\ kernel'.lent = kernel.lent /\ kernel'.bound = kernel.bound
      BY <1>1, <1>12 DEF DispatchProtected, DispatchNotified, KernelState
    <2>3. HandOver(kernel', PD)
      BY <1>1, <2>2, SameHandOver
    <2>4. p \in Passive => p \in kernel.bound /\ have_signal[p]
      BY <2>1 DEF HandOverInv, HandingOver, Idle
    <2>5. QED
      BY <1>2, <2>1, <2>2, <2>3, <2>4 DEF HandOverInv, HandingOver, Idle
  <1>13. CASE MonitorUnbind /\ UNCHANGED libVars
    <2>1. PICK s \in Passive : s = monitor.pd
      BY <1>13 DEF MonitorUnbind, LendInv
    <2>2. monitor' = [at |-> "bind", pd |-> s]
      BY <1>1, <1>13, <2>1 DEF MonitorUnbind, MonitorState, Idle
    <2>3. kernel.status[s] \in {"BlockedOnReceive", "BlockedOnNotification"}
      BY <1>13, <2>1 DEF MonitorUnbind, HandOverInv, Waiting
    <2>4. /\ kernel'.status = kernel.status /\ kernel'.on = kernel.on
          /\ kernel'.ntfn = kernel.ntfn /\ kernel'.lent = kernel.lent
          /\ kernel'.bound = kernel.bound /\ kernel'.sc[s] # s
          /\ \A q \in PD \ {s} : kernel'.sc[q] = kernel.sc[q]
      BY <1>1, <1>2, <1>13, <2>1 DEF MonitorUnbind, UnbindObject, KernelState
    <2>5. HandOver(kernel', PD)
      <3>1. HasContext(kernel', PD)
        BY <1>1, <2>3, <2>4 DEF HandOver, HasContext, OnReply
      <3>2. NoneOverlooked(kernel')
        BY <1>1, <2>4 DEF HandOver, NoneOverlooked, Senders
      <3>3. PendingStuck(kernel')
        BY <1>1, <2>4 DEF HandOver, PendingStuck, Stuck, OnCall, Senders
      <3>4. QED
        BY <3>1, <3>2, <3>3 DEF HandOver
    <2>6. QED
      BY <1>13, <2>1, <2>2, <2>3, <2>4, <2>5
      DEF MonitorUnbind, HandOverInv, HandingOver, Waiting, libVars
  <1>14. CASE MonitorBind /\ UNCHANGED libVars
    <2>1. PICK s \in Passive : s = monitor.pd
      BY <1>14 DEF MonitorBind, LendInv
    <2>2. ScFree(kernel, s)
      <3>1. kernel.sc[s] # s /\ ~OnReply(kernel, s)
        BY <1>14, <2>1 DEF MonitorBind, HandOverInv, Waiting, OnReply
      <3>2. QED
        BY <1>1, <1>2, <3>1 DEF ScFree, Lending, BorrowedOnRecord, LenderWaits
    <2>3. /\ kernel'.status = kernel.status /\ kernel'.on = kernel.on
          /\ kernel'.ntfn = kernel.ntfn /\ kernel'.lent = kernel.lent
          /\ kernel'.sc = kernel.sc /\ kernel'.bound = kernel.bound \cup {s}
      BY <1>1, <1>14, <2>1, <2>2 DEF MonitorBind, Bind, KernelState
    <2>4. HandOver(kernel', PD) /\ monitor' = Idle
      BY <1>1, <1>14, <2>3, SameHandOver DEF MonitorBind
    <2>5. QED
      BY <1>14, <2>1, <2>3, <2>4 DEF HandOverInv, HandingOver, Idle, libVars
  <1>15. CASE MonitorReport /\ UNCHANGED libVars
    BY <1>15 DEF MonitorReport, HandOverInv, HandingOver, Idle, libVars
  <1>16. CASE Irq
    <2>1. PICK irq \in Irqs : kernel' = Signal(kernel, irq[1], {irq[2]})
      BY <1>16 DEF Irq
    <2>2. PICK q \in PD : q = irq[1]
      BY DescriptionAssumption
    <2>3. PICK ids \in SUBSET Id : ids = {irq[2]}
      BY DescriptionAssumption
    <2>4. q \notin Passive /\ kernel' = Signal(kernel, q, ids)
      BY <2>1, <2>2, <2>3 DEF HandOverRule
    <2>5. /\ HandOver(kernel', PD) /\ kernel'.bound = kernel.bound
          /\ kernel'.sc = kernel.sc
          /\ \A p \in PD \ {q} : kernel'.status[p] = kernel.status[p]
      BY <1>1, <1>2, <2>4, SignalHandOver, SignalBound
    <2>6. monitor.at \in {"unbind", "bind"} => monitor.pd \in PD \ {q}
      BY <1>2, <2>4 DEF LendInv
    <2>7. UNCHANGED <<monitor, pc, have_reply, have_signal>>
      BY <1>16 DEF Irq
    <2>8. QED
      BY <2>5, <2>6, <2>7 DEF HandOverInv, HandingOver, Waiting
  <1>17. CASE UNCHANGED vars
    BY <1>17 DEF vars, libVars, HandOverInv, HandingOver, Waiting
  <1>18. QED
    BY <1>3, <1>4, <1>5, <1>6, <1>7, <1>8, <1>9, <1>10, <1>11, <1>12, <1>13, <1>14, <1>15,
       <1>16, <1>17
    DEF Next, AppNext, LoopNext, MonitorNext

LEMMA InitHandOverInv == Init => HandOverInv
  <1> SUFFICES ASSUME Init PROVE HandOverInv
    OBVIOUS
  <1>1. /\ kernel.status = [p \in PD |-> "Running"] /\ kernel.sc = [p \in PD |-> p]
        /\ kernel.ntfn = [p \in PD |-> {}] /\ pc = [p \in PD |-> "init"] /\ monitor = Idle
    BY DEF Init, InitKernel, LibInit, MonitorInit
  <1>2. Passive \subseteq PD /\ PP \subseteq PD /\ None \notin PD
    BY DescriptionAssumption
  <1>3. \A p \in PD : Senders(kernel, p) = {}
    BY <1>1 DEF Senders
  <1>4. HasContext(kernel, PD)
    BY <1>1, <1>2 DEF HasContext, OnReply
  <1>5. NoneOverlooked(kernel)
    BY <1>1, <1>2 DEF NoneOverlooked
  <1>6. PendingStuck(kernel)
    BY <1>1, <1>2, <1>3 DEF PendingStuck
  <1>7. QED
    BY <1>1, <1>2, <1>4, <1>5, <1>6 DEF HandOverInv, HandOver, HandingOver, Idle

(***************************************************************************)
(* In a system that follows the rule, what is pending for a passive domain *)
(* waits for domains that will never run again, a domain that may have to  *)
(* take something has a context to take it with, and the monitor handles   *)
(* the signals of domains that wait.                                       *)
(***************************************************************************)
THEOREM HandOverInvariant == HandOverRule => (Spec => []HandOverInv)
  <1> SUFFICES ASSUME HandOverRule PROVE Spec => []HandOverInv
    OBVIOUS
  <1>1. CallInv /\ ContextInv /\ LendInv /\ HandOverInv /\ [Next]_vars => HandOverInv'
    BY HandOverStep
  <1>2. QED
    BY <1>1, InitHandOverInv, CallInvariant, ContextInvariant, LendInvariant, PTL DEF Spec

(***************************************************************************)
(* In a system that follows the rule, a domain that can run always has a   *)
(* scheduling context to run on, although handler_loop gives the one of a  *)
(* passive domain away and a receive may complete in the same system call  *)
(* (main.c:62).                                                            *)
(***************************************************************************)
THEOREM NobodyStranded == HandOverRule => (Spec => []NeverStranded)
  <1> SUFFICES ASSUME HandOverRule PROVE Spec => []NeverStranded
    OBVIOUS
  <1>1. CallInv /\ LendInv /\ HandOverInv => NeverStranded
    BY RunningHasContext DEF NeverStranded
  <1>2. QED
    BY <1>1, CallInvariant, LendInvariant, HandOverInvariant, PTL

(***************************************************************************)
(* In a system that follows the rule, what the comment of main.c:96 says   *)
(* is true: when the monitor gets to unbind the scheduling context of a    *)
(* domain, the domain waits on its receive.                                *)
(***************************************************************************)
THEOREM SignalWhileWaiting == HandOverRule => (Spec => []SignalledWhileWaiting)
  <1> SUFFICES ASSUME HandOverRule PROVE Spec => []SignalledWhileWaiting
    OBVIOUS
  <1>1. HandOverInv => SignalledWhileWaiting
    BY DEF HandOverInv, SignalledWhileWaiting
  <1>2. QED
    BY <1>1, HandOverInvariant, PTL
===============================================================================
