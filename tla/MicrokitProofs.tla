---------------------------- MODULE MicrokitProofs ----------------------------
(***************************************************************************)
(* Every protected call gets one reply, and it is the right one: CallInv   *)
(* is an inductive invariant of every system the tool can build.  It rests *)
(* on what each kernel operator does to the fields of the kernel state.    *)
(* Then, from the same lemmas, the system implements Channels.             *)
(***************************************************************************)
EXTENDS MicrokitChannels, WellFoundedInduction, TLAPS

\* The kernel states k and l agree on everything but the scheduling contexts.
SameButContexts(k, l) ==
  /\ l.status = k.status /\ l.badge = k.badge /\ l.ntfn = k.ntfn
  /\ l.bound = k.bound /\ l.reply = k.reply /\ l.on = k.on /\ l.via = k.via

LEMMA DonateFields ==
  ASSUME NEW k \in KernelState, NEW s \in PD, NEW t \in PD
  PROVE  /\ Donate(k, s, t) \in KernelState
         /\ SameButContexts(k, Donate(k, s, t))
         /\ Donate(k, s, t).lent = k.lent
         /\ Donate(k, s, t).sc = [p \in PD |-> IF p = t THEN s
                                   ELSE IF k.sc[p] = s THEN None ELSE k.sc[p]]
  BY DEF Donate, KernelState, SameButContexts

LEMMA MaybeDonateFields ==
  ASSUME NEW k \in KernelState, NEW p \in PD
  PROVE  /\ MaybeDonate(k, p) \in KernelState
         /\ SameButContexts(k, MaybeDonate(k, p))
         /\ MaybeDonate(k, p).lent = k.lent
  BY DonateFields DEF MaybeDonate, SameButContexts

LEMMA MaybeReturnFields ==
  ASSUME NEW k \in KernelState, NEW p \in PD
  PROVE  /\ MaybeReturn(k, p) \in KernelState
         /\ SameButContexts(k, MaybeReturn(k, p))
         /\ MaybeReturn(k, p).lent = k.lent
  BY DEF MaybeReturn, KernelState, SameButContexts

\* l is k after the receive of p completed with the notification badge ids.
AfterNotified(k, l, p, ids) ==
  /\ l.status = [k.status EXCEPT ![p] = "Running"]
  /\ l.badge = [k.badge EXCEPT ![p] = [ep |-> FALSE, ids |-> ids]]
  /\ l.reply = k.reply /\ l.on = k.on /\ l.via = k.via

\* l is k after the receive of p completed with the call of c badged j.
AfterAccept(k, l, c, j, p) ==
  /\ l.status = [[k.status EXCEPT ![p] = "Running"] EXCEPT ![c] = "BlockedOnReply"]
  /\ l.badge = [k.badge EXCEPT ![p] = [ep |-> TRUE, ids |-> {j}]]
  /\ l.on = [k.on EXCEPT ![c] = p]
  /\ l.via = [k.via EXCEPT ![c] = None]
  /\ l.reply = [k.reply EXCEPT ![p] = c]
  /\ l.ntfn = k.ntfn

\* l is k after the receive of p blocked.
AfterBlock(k, l, p) ==
  /\ \E s \in {"BlockedOnReceive", "BlockedOnNotification"} :
       l.status = [k.status EXCEPT ![p] = s]
  /\ l.badge = k.badge /\ l.reply = k.reply /\ l.on = k.on /\ l.via = k.via
  /\ l.ntfn = k.ntfn

\* l is k after c queued on the endpoint of p.
AfterQueue(k, l, c, j, p) ==
  /\ l.status = [k.status EXCEPT ![c] = "BlockedOnSend"]
  /\ l.on = [k.on EXCEPT ![c] = p]
  /\ l.via = [k.via EXCEPT ![c] = j]
  /\ l.badge = k.badge /\ l.reply = k.reply /\ l.ntfn = k.ntfn

LEMMA NotifiedFields ==
  ASSUME NEW k \in KernelState, NEW p \in PD, NEW ids \in SUBSET Id
  PROVE  /\ Notified(k, p, ids) \in KernelState
         /\ AfterNotified(k, Notified(k, p, ids), p, ids)
         /\ Notified(k, p, ids).ntfn = k.ntfn
  <1> DEFINE l == [k EXCEPT !.status[p] = "Running",
                            !.badge[p] = [ep |-> FALSE, ids |-> ids]]
  <1>1. l \in KernelState
    BY DEF KernelState, Status, Badge
  <1>2. /\ l.status = [k.status EXCEPT ![p] = "Running"]
        /\ l.badge = [k.badge EXCEPT ![p] = [ep |-> FALSE, ids |-> ids]]
        /\ l.reply = k.reply /\ l.on = k.on /\ l.via = k.via /\ l.ntfn = k.ntfn
    BY DEF KernelState
  <1>3. Notified(k, p, ids) = MaybeDonate(l, p)
    BY DEF Notified
  <1> HIDE DEF l
  <1>4. QED
    BY <1>1, <1>2, <1>3, MaybeDonateFields DEF SameButContexts, AfterNotified

\* l is k after the badges ids were added to the notification word of p.
AfterMark(k, l, p, ids) ==
  /\ l.ntfn = [k.ntfn EXCEPT ![p] = @ \cup ids]
  /\ l.status = k.status /\ l.badge = k.badge
  /\ l.reply = k.reply /\ l.on = k.on /\ l.via = k.via

\* seL4_Signal either completes the receive of p or sets bits in the word.
LEMMA SignalFields ==
  ASSUME NEW k \in KernelState, NEW p \in PD, NEW ids \in SUBSET Id
  PROVE  /\ Signal(k, p, ids) \in KernelState
         /\ IF k.status[p] \in {"BlockedOnReceive", "BlockedOnNotification"}
            THEN /\ AfterNotified(k, Signal(k, p, ids), p, ids)
                 /\ Signal(k, p, ids).ntfn = k.ntfn
            ELSE AfterMark(k, Signal(k, p, ids), p, ids)
  <1>1. CASE k.status[p] \in {"BlockedOnReceive", "BlockedOnNotification"}
    BY <1>1, NotifiedFields DEF Signal
  <1>2. CASE k.status[p] \notin {"BlockedOnReceive", "BlockedOnNotification"}
    <2>1. Signal(k, p, ids) = [k EXCEPT !.ntfn[p] = @ \cup ids]
      BY <1>2 DEF Signal
    <2>2. QED
      BY <1>2, <2>1 DEF KernelState, AfterMark
  <1>3. QED
    BY <1>1, <1>2

\* l is k after the caller c was put into the reply object of p.
AfterPush(k, l, c, p) ==
  /\ l.status = [k.status EXCEPT ![c] = "BlockedOnReply"]
  /\ l.on = [k.on EXCEPT ![c] = p]
  /\ l.via = [k.via EXCEPT ![c] = None]
  /\ l.reply = [k.reply EXCEPT ![p] = c]
  /\ l.badge = k.badge /\ l.ntfn = k.ntfn

LEMMA ReplyPushFields ==
  ASSUME NEW k \in KernelState, NEW c \in PD, NEW p \in PD
  PROVE  /\ ReplyPush(k, c, p) \in KernelState
         /\ AfterPush(k, ReplyPush(k, c, p), c, p)
  <1> DEFINE w == [k EXCEPT !.status[c] = "BlockedOnReply", !.on[c] = p,
                            !.via[c] = None, !.reply[p] = c]
             l == [w EXCEPT !.lent[p] = k.sc[c]]
  <1>1. w \in KernelState
    BY DEF KernelState, Status
  <1>2. AfterPush(k, w, c, p) /\ w.sc = k.sc
    BY DEF KernelState, AfterPush
  <1>3. ReplyPush(k, c, p) =
          IF k.sc[p] = None /\ k.sc[c] # None THEN Donate(l, k.sc[c], p) ELSE w
    BY DEF ReplyPush
  <1> HIDE DEF w
  <1>4. k.sc[c] \in PD \cup {None}
    BY DEF KernelState
  <1>5. /\ l \in KernelState /\ l.status = w.status /\ l.on = w.on
        /\ l.via = w.via /\ l.reply = w.reply /\ l.badge = w.badge
        /\ l.ntfn = w.ntfn
    BY <1>1, <1>4 DEF KernelState
  <1> HIDE DEF l
  <1>6. CASE k.sc[p] = None /\ k.sc[c] # None
    <2>1. k.sc[c] \in PD
      BY <1>4, <1>6
    <2>2. /\ Donate(l, k.sc[c], p) \in KernelState
          /\ SameButContexts(l, Donate(l, k.sc[c], p))
      BY <1>5, <2>1, DonateFields
    <2>3. QED
      BY <1>2, <1>3, <1>5, <1>6, <2>2 DEF SameButContexts, AfterPush
  <1>7. CASE ~(k.sc[p] = None /\ k.sc[c] # None)
    BY <1>1, <1>2, <1>3, <1>7
  <1>8. QED
    BY <1>6, <1>7

LEMMA AcceptFields ==
  ASSUME NEW k \in KernelState, NEW c \in PD, NEW j \in Id, NEW p \in PD
  PROVE  /\ Accept(k, c, j, p) \in KernelState
         /\ AfterAccept(k, Accept(k, c, j, p), c, j, p)
  <1> DEFINE l == [k EXCEPT !.status[p] = "Running",
                            !.badge[p] = [ep |-> TRUE, ids |-> {j}]]
  <1>1. l \in KernelState
    BY DEF KernelState, Status, Badge
  <1>2. /\ l.status = [k.status EXCEPT ![p] = "Running"]
        /\ l.badge = [k.badge EXCEPT ![p] = [ep |-> TRUE, ids |-> {j}]]
        /\ l.reply = k.reply /\ l.on = k.on /\ l.via = k.via /\ l.ntfn = k.ntfn
    BY DEF KernelState
  <1>3. Accept(k, c, j, p) = ReplyPush(l, c, p)
    BY DEF Accept
  <1> HIDE DEF l
  <1>4. ReplyPush(l, c, p) \in KernelState /\ AfterPush(l, ReplyPush(l, c, p), c, p)
    BY <1>1, ReplyPushFields
  <1>5. QED
    BY <1>2, <1>3, <1>4 DEF AfterPush, AfterAccept

\* seL4_Call is either taken at once or queued on the endpoint.
LEMMA CallFields ==
  ASSUME NEW k \in KernelState, NEW c \in PD, NEW j \in Id, NEW p \in PD
  PROVE  /\ Call(k, c, j, p) \in KernelState
         /\ IF k.status[p] = "BlockedOnReceive"
            THEN AfterAccept(k, Call(k, c, j, p), c, j, p)
            ELSE AfterQueue(k, Call(k, c, j, p), c, j, p)
  <1>1. CASE k.status[p] = "BlockedOnReceive"
    BY <1>1, AcceptFields DEF Call
  <1>2. CASE k.status[p] # "BlockedOnReceive"
    <2>1. Call(k, c, j, p) = [k EXCEPT !.status[c] = "BlockedOnSend",
                                       !.on[c] = p, !.via[c] = j]
      BY <1>2 DEF Call
    <2>2. Call(k, c, j, p) \in KernelState
      <3>1. /\ [k.status EXCEPT ![c] = "BlockedOnSend"] \in [PD -> Status]
            /\ [k.on EXCEPT ![c] = p] \in [PD -> PD \cup {None}]
            /\ [k.via EXCEPT ![c] = j] \in [PD -> Id \cup {None}]
        BY DEF KernelState, Status
      <3>2. QED
        BY <2>1, <3>1 DEF KernelState
    <2>3. QED
      BY <1>2, <2>1, <2>2 DEF KernelState, AfterQueue
  <1>3. QED
    BY <1>1, <1>2

\* A reply wakes the caller in the reply object and empties the object.
LEMMA ReplyFields ==
  ASSUME NEW k \in KernelState, NEW p \in PD, k.reply[p] # None
  PROVE  /\ Reply(k, p) \in KernelState
         /\ Reply(k, p).status = [k.status EXCEPT ![k.reply[p]] = "Running"]
         /\ Reply(k, p).on = [k.on EXCEPT ![k.reply[p]] = None]
         /\ Reply(k, p).reply = [k.reply EXCEPT ![p] = None]
         /\ Reply(k, p).badge = k.badge
         /\ Reply(k, p).via = k.via
         /\ Reply(k, p).ntfn = k.ntfn
  <1> DEFINE c == k.reply[p]
             done == [k EXCEPT !.status[c] = "Running", !.on[c] = None,
                               !.reply[p] = None, !.lent[p] = None]
  <1>1. c \in PD
    BY DEF KernelState
  <1>2. Reply(k, p) = IF k.lent[p] # None /\ k.sc[c] = None
                      THEN Donate(done, k.lent[p], c) ELSE done
    BY DEF Reply
  <1>0. k.reply[p] = c
    OBVIOUS
  <1> HIDE DEF c
  <1>3. done \in KernelState
    BY <1>1 DEF KernelState, Status
  <1>4. /\ done.status = [k.status EXCEPT ![c] = "Running"]
        /\ done.on = [k.on EXCEPT ![c] = None]
        /\ done.reply = [k.reply EXCEPT ![p] = None]
        /\ done.badge = k.badge /\ done.via = k.via
        /\ done.ntfn = k.ntfn
    BY <1>1 DEF KernelState
  <1>5. k.lent[p] \in PD \cup {None}
    BY DEF KernelState
  <1> HIDE DEF done
  <1>6. CASE k.lent[p] # None /\ k.sc[c] = None
    <2>1. k.lent[p] \in PD
      BY <1>5, <1>6
    <2>2. /\ Donate(done, k.lent[p], c) \in KernelState
          /\ SameButContexts(done, Donate(done, k.lent[p], c))
      BY <1>1, <1>3, <2>1, DonateFields
    <2>3. QED
      BY <1>0, <1>2, <1>4, <1>6, <2>2 DEF SameButContexts
  <1>7. CASE ~(k.lent[p] # None /\ k.sc[c] = None)
    BY <1>0, <1>2, <1>3, <1>4, <1>7
  <1>8. QED
    BY <1>6, <1>7

LEMMA DropCallerFields ==
  ASSUME NEW k \in KernelState, NEW p \in PD
  PROVE  /\ DropCaller(k, p) \in KernelState
         /\ DropCaller(k, p).sc = k.sc
         /\ DropCaller(k, p).bound = k.bound
         /\ k.reply[p] = None => DropCaller(k, p) = k
  <1>1. CASE k.reply[p] = None
    BY <1>1 DEF DropCaller
  <1>2. CASE k.reply[p] # None
    <2> DEFINE c == k.reply[p]
    <2>1. c \in PD
      BY <1>2 DEF KernelState
    <2>2. DropCaller(k, p) = [k EXCEPT !.status[c] = "Stopped", !.on[c] = None,
                                       !.reply[p] = None, !.lent[p] = None]
      BY <1>2 DEF DropCaller
    <2> HIDE DEF c
    <2>3. DropCaller(k, p) \in KernelState
      <3>1. k.status \in [PD -> Status] /\ k.on \in [PD -> PD \cup {None}]
        BY DEF KernelState
      <3>2. /\ [k.status EXCEPT ![c] = "Stopped"] \in [PD -> Status]
            /\ [k.on EXCEPT ![c] = None] \in [PD -> PD \cup {None}]
            /\ [k.reply EXCEPT ![p] = None] \in [PD -> PD \cup {None}]
            /\ [k.lent EXCEPT ![p] = None] \in [PD -> PD \cup {None}]
        BY <2>1, <3>1 DEF KernelState, Status
      <3>3. QED
        BY <2>2, <3>2 DEF KernelState
    <2>4. /\ DropCaller(k, p).sc = k.sc
          /\ DropCaller(k, p).bound = k.bound
      BY <2>1, <2>2 DEF KernelState
    <2>5. QED
      BY <1>2, <2>3, <2>4
  <1>3. QED
    BY <1>1, <1>2

(***************************************************************************)
(* A receive with an empty reply object has three outcomes: the pending    *)
(* notifications, a block, or the call of a queued sender.                 *)
(***************************************************************************)
LEMMA ReceiveFields ==
  ASSUME NEW k \in KernelState, NEW p \in PD, k.reply[p] = None,
         \A c \in Senders(k, p) : k.via[c] \in Id,
         NEW l \in Receive(k, p)
  PROVE  /\ l \in KernelState
         /\ \/ /\ AfterNotified(k, l, p, k.ntfn[p])
               /\ l.ntfn = [k.ntfn EXCEPT ![p] = {}]
            \/ AfterBlock(k, l, p)
            \/ \E c \in Senders(k, p) : AfterAccept(k, l, c, k.via[c], p)
  <1> DEFINE r == MaybeReturn(k, p)
             e == [k EXCEPT !.ntfn[p] = {}]
             ids == k.ntfn[p]
  <1>1. (IF p \in PP THEN DropCaller(k, p) ELSE k) = k
    BY DropCallerFields
  <1>2. Receive(k, p) =
          IF k.ntfn[p] # {} THEN {Notified(e, p, ids)}
          ELSE IF p \notin PP THEN {[r EXCEPT !.status[p] = "BlockedOnNotification"]}
          ELSE IF Senders(k, p) = {} THEN {[r EXCEPT !.status[p] = "BlockedOnReceive"]}
          ELSE {Accept(r, c, r.via[c], p) : c \in FirstSenders(k, p)}
    BY <1>1 DEF Receive
  <1>3. r \in KernelState /\ SameButContexts(k, r)
    BY MaybeReturnFields
  <1>4. e \in KernelState /\ ids \in SUBSET Id
    BY DEF KernelState
  <1>5. /\ e.status = k.status /\ e.badge = k.badge /\ e.reply = k.reply
        /\ e.on = k.on /\ e.via = k.via /\ e.ntfn = [k.ntfn EXCEPT ![p] = {}]
    BY DEF KernelState
  <1>6. \/ l = Notified(e, p, ids)
        \/ \E s \in {"BlockedOnReceive", "BlockedOnNotification"} :
             l = [r EXCEPT !.status[p] = s]
        \/ \E c \in Senders(k, p) : l = Accept(r, c, r.via[c], p)
    BY <1>2 DEF FirstSenders
  <1> HIDE DEF r, e
  <1>7. CASE l = Notified(e, p, ids)
    <2>1. l \in KernelState /\ AfterNotified(e, l, p, ids) /\ l.ntfn = e.ntfn
      BY <1>4, <1>7, NotifiedFields
    <2>2. QED
      BY <1>5, <2>1 DEF AfterNotified
  <1>8. ASSUME NEW s \in {"BlockedOnReceive", "BlockedOnNotification"},
               l = [r EXCEPT !.status[p] = s]
        PROVE  l \in KernelState /\ AfterBlock(k, l, p)
    BY <1>3, <1>8 DEF KernelState, Status, SameButContexts, AfterBlock
  <1>9. ASSUME NEW c \in Senders(k, p), l = Accept(r, c, r.via[c], p)
        PROVE  l \in KernelState /\ AfterAccept(k, l, c, k.via[c], p)
    <2>1. c \in PD /\ r.via[c] \in Id /\ r.via[c] = k.via[c]
      BY <1>3 DEF Senders, SameButContexts
    <2>2. l \in KernelState /\ AfterAccept(r, l, c, r.via[c], p)
      BY <1>3, <1>9, <2>1, AcceptFields
    <2>3. QED
      BY <1>3, <2>1, <2>2 DEF SameButContexts, AfterAccept
  <1>10. QED
    BY <1>6, <1>7, <1>8, <1>9
-----------------------------------------------------------------------------
(* What the operators do to the scheduling contexts. *)

\* l is k after a woken p took the context bound to its notification, if it may.
DonatedContexts(k, l, p) ==
  /\ l.bound = k.bound /\ l.lent = k.lent
  /\ l.sc = IF k.sc[p] = None /\ p \in k.bound /\ ScFree(k, p)
            THEN [k.sc EXCEPT ![p] = p] ELSE k.sc

\* l is k after p gave back the context bound to its notification.
ReturnedContexts(k, l, p) ==
  /\ l.bound = k.bound /\ l.lent = k.lent
  /\ l.sc = IF p \in k.bound /\ k.sc[p] = p THEN [k.sc EXCEPT ![p] = None] ELSE k.sc

\* l is k after the context of the caller c went to p, if p had none.
PushedContexts(k, l, c, p) ==
  /\ l.bound = k.bound
  /\ \/ /\ k.sc[p] = None /\ k.sc[c] \in PD
        /\ l.lent = [k.lent EXCEPT ![p] = k.sc[c]]
        /\ l.sc = [q \in PD |-> IF q = p THEN k.sc[c]
                                ELSE IF k.sc[q] = k.sc[c] THEN None ELSE k.sc[q]]
     \/ /\ k.sc[p] # None \/ k.sc[c] = None
        /\ l.lent = k.lent /\ l.sc = k.sc

LEMMA NotifiedContexts ==
  ASSUME NEW k \in KernelState, NEW p \in PD, NEW ids \in SUBSET Id
  PROVE  DonatedContexts(k, Notified(k, p, ids), p)
  <1> DEFINE l == [k EXCEPT !.status[p] = "Running",
                            !.badge[p] = [ep |-> FALSE, ids |-> ids]]
  <1>1. l \in KernelState /\ l.sc = k.sc /\ l.bound = k.bound /\ l.lent = k.lent
    BY DEF KernelState, Status, Badge
  <1>2. Notified(k, p, ids) = MaybeDonate(l, p)
    BY DEF Notified
  <1> HIDE DEF l
  <1>3. CASE k.sc[p] = None /\ p \in k.bound /\ ScFree(k, p)
    <2>1. MaybeDonate(l, p) = Donate(l, p, p)
      BY <1>1, <1>3 DEF MaybeDonate, ScFree
    <2>2. /\ SameButContexts(l, Donate(l, p, p)) /\ Donate(l, p, p).lent = l.lent
          /\ Donate(l, p, p).sc = [q \in PD |-> IF q = p THEN p
                                    ELSE IF l.sc[q] = p THEN None ELSE l.sc[q]]
      BY <1>1, DonateFields
    <2>3. k.sc \in [PD -> PD \cup {None}] /\ \A q \in PD : k.sc[q] # p
      BY <1>3 DEF ScFree, KernelState
    <2>4. Donate(l, p, p).sc = [k.sc EXCEPT ![p] = p]
      BY <1>1, <2>2, <2>3
    <2>5. QED
      BY <1>1, <1>2, <1>3, <2>1, <2>2, <2>4 DEF DonatedContexts, SameButContexts
  <1>4. CASE ~(k.sc[p] = None /\ p \in k.bound /\ ScFree(k, p))
    <2>1. MaybeDonate(l, p) = l
      BY <1>1, <1>4 DEF MaybeDonate, ScFree
    <2>2. QED
      BY <1>1, <1>2, <1>4, <2>1 DEF DonatedContexts
  <1>5. QED
    BY <1>3, <1>4

LEMMA MaybeReturnContexts ==
  ASSUME NEW k \in KernelState, NEW p \in PD
  PROVE  ReturnedContexts(k, MaybeReturn(k, p), p)
  BY DEF MaybeReturn, ReturnedContexts, KernelState

LEMMA ReplyPushContexts ==
  ASSUME NEW k \in KernelState, NEW c \in PD, NEW p \in PD
  PROVE  PushedContexts(k, ReplyPush(k, c, p), c, p)
  <1> DEFINE w == [k EXCEPT !.status[c] = "BlockedOnReply", !.on[c] = p,
                            !.via[c] = None, !.reply[p] = c]
             l == [w EXCEPT !.lent[p] = k.sc[c]]
             n == ReplyPush(k, c, p)
  <1>1. w \in KernelState /\ w.sc = k.sc /\ w.lent = k.lent /\ w.bound = k.bound
    BY DEF KernelState, Status
  <1>2. n = IF k.sc[p] = None /\ k.sc[c] # None THEN Donate(l, k.sc[c], p) ELSE w
    BY DEF ReplyPush
  <1> HIDE DEF w
  <1>3. k.sc[c] \in PD \cup {None}
    BY DEF KernelState
  <1>4. /\ l \in KernelState /\ l.sc = w.sc /\ l.bound = w.bound
        /\ l.lent = [w.lent EXCEPT ![p] = k.sc[c]]
    BY <1>1, <1>3 DEF KernelState
  <1> HIDE DEF l, n
  <1>5. CASE k.sc[p] = None /\ k.sc[c] # None
    <2>1. PICK s \in PD : s = k.sc[c]
      BY <1>3, <1>5
    <2>2. /\ SameButContexts(l, Donate(l, s, p))
          /\ Donate(l, s, p).lent = l.lent
          /\ Donate(l, s, p).sc = [q \in PD |-> IF q = p THEN s
                                    ELSE IF l.sc[q] = s THEN None ELSE l.sc[q]]
      BY <1>4, DonateFields, SMTT(40)
    <2>3. n = Donate(l, s, p)
      BY <1>2, <1>5, <2>1
    <2>4. n.sc = [q \in PD |-> IF q = p THEN k.sc[c]
                               ELSE IF k.sc[q] = k.sc[c] THEN None ELSE k.sc[q]]
      BY <1>1, <1>4, <2>1, <2>2, <2>3
    <2>5. PushedContexts(k, n, c, p)
      BY <1>1, <1>4, <1>5, <2>1, <2>2, <2>3, <2>4 DEF SameButContexts, PushedContexts
    <2>6. QED
      BY <2>5 DEF n
  <1>6. CASE ~(k.sc[p] = None /\ k.sc[c] # None)
    <2>1. PushedContexts(k, n, c, p)
      BY <1>1, <1>2, <1>6 DEF PushedContexts
    <2>2. QED
      BY <2>1 DEF n
  <1>7. QED
    BY <1>5, <1>6

LEMMA AcceptContexts ==
  ASSUME NEW k \in KernelState, NEW c \in PD, NEW j \in Id, NEW p \in PD
  PROVE  PushedContexts(k, Accept(k, c, j, p), c, p)
  <1> DEFINE l == [k EXCEPT !.status[p] = "Running",
                            !.badge[p] = [ep |-> TRUE, ids |-> {j}]]
  <1>1. l \in KernelState /\ l.sc = k.sc /\ l.lent = k.lent /\ l.bound = k.bound
    BY DEF KernelState, Status, Badge
  <1>2. Accept(k, c, j, p) = ReplyPush(l, c, p)
    BY DEF Accept
  <1> HIDE DEF l
  <1>3. PushedContexts(l, ReplyPush(l, c, p), c, p)
    BY <1>1, ReplyPushContexts
  <1>4. QED
    BY <1>1, <1>2, <1>3 DEF PushedContexts

\* l is k after the context that came with the call of c went back with the reply
\* of p; c still has its own if none came.
LEMMA ReplyContexts ==
  ASSUME NEW k \in KernelState, NEW p \in PD, NEW c \in PD, c = k.reply[p],
         k.lent[p] # None => k.sc[c] = None, None \notin PD
  PROVE  /\ Reply(k, p).bound = k.bound
         /\ Reply(k, p).lent = [k.lent EXCEPT ![p] = None]
         /\ \/ /\ k.lent[p] \in PD
               /\ Reply(k, p).sc =
                    [q \in PD |-> IF q = c THEN k.lent[p]
                                  ELSE IF k.sc[q] = k.lent[p] THEN None ELSE k.sc[q]]
            \/ k.lent[p] = None /\ Reply(k, p).sc = k.sc
  <1> DEFINE done == [k EXCEPT !.status[c] = "Running", !.on[c] = None,
                               !.reply[p] = None, !.lent[p] = None]
             n == Reply(k, p)
  <1>1. n = IF k.lent[p] # None /\ k.sc[c] = None THEN Donate(done, k.lent[p], c) ELSE done
    BY DEF Reply
  <1>2. done \in KernelState
    BY DEF KernelState, Status
  <1>3. /\ done.sc = k.sc /\ done.bound = k.bound
        /\ done.lent = [k.lent EXCEPT ![p] = None]
    BY DEF KernelState
  <1> HIDE DEF done, n
  <1>4. CASE k.lent[p] # None
    <2>1. PICK s \in PD : s = k.lent[p]
      BY <1>4 DEF KernelState
    <2>2. /\ SameButContexts(done, Donate(done, s, c))
          /\ Donate(done, s, c).lent = done.lent
          /\ Donate(done, s, c).sc = [q \in PD |-> IF q = c THEN s
                                       ELSE IF done.sc[q] = s THEN None ELSE done.sc[q]]
      BY <1>2, DonateFields, ZenonT(40)
    <2>3. n = Donate(done, s, c)
      BY <1>1, <1>4, <2>1
    <2>4. n.sc = [q \in PD |-> IF q = c THEN k.lent[p]
                               ELSE IF k.sc[q] = k.lent[p] THEN None ELSE k.sc[q]]
      BY <1>3, <2>1, <2>2, <2>3
    <2>5. n.bound = k.bound /\ n.lent = [k.lent EXCEPT ![p] = None]
      BY <1>3, <2>2, <2>3 DEF SameButContexts
    <2>6. QED
      BY <2>1, <2>4, <2>5 DEF n
  <1>5. CASE k.lent[p] = None
    <2>1. n = done
      BY <1>1, <1>5
    <2>2. QED
      BY <1>3, <1>5, <2>1 DEF n
  <1>6. QED
    BY <1>4, <1>5
-----------------------------------------------------------------------------
(* The steps that leave the kernel objects of calls alone. *)
CallVars == <<pc, have_reply, ch>>

LEMMA CapIndices ==
  ASSUME NEW cap \in AppCalls
  PROVE  /\ cap[1] \in PD /\ cap[2] \in Id /\ cap[3] \in PD /\ cap[4] \in Id
         /\ cap = <<cap[1], cap[2], cap[3], cap[4]>>
  BY DescriptionAssumption, AppAssumption DEF EndpointCaps, NotifyCaps

\* The domain a blocked caller waits for.
LEMMA CalledIsDomain ==
  ASSUME CallInv, NEW c \in PD, Calling(c)
  PROVE  kernel.on[c] \in PD
  <1>1. PICK i, j \in Id : <<c, i, kernel.on[c], j>> \in AppCalls
    BY DEF CallInv, CallsThroughCaps, CallThroughCap
  <1>2. <<c, i, kernel.on[c], j>>[3] \in PD
    BY <1>1, CapIndices
  <1>3. QED
    BY <1>2

LEMMA NotifyCapIndices ==
  ASSUME NEW cap \in NotifyCaps
  PROVE  cap[3] \in PD /\ cap[4] \in Id
  BY DescriptionAssumption DEF NotifyCaps

LEMMA InitCallInv == Init => CallInv
  <1> SUFFICES ASSUME Init PROVE CallInv
    OBVIOUS
  <1> USE DEF Init, InitKernel, MonitorInit, LibInit, NoBadge
  <1>1. TypeOK
    <2>1. kernel \in KernelState
      BY DEF KernelState, Status, Badge
    <2>2. QED
      BY <2>1 DEF TypeOK, MonitorState, Idle, Location, Entry
  <1>2. \A p \in PD : LoopConsistent(p)
    BY DEF LoopConsistent, Waiting, Calling
  <1>3. OneReplyPerCall
    BY DEF OneReplyPerCall, Serving
  <1>4. CallsThroughCaps
    BY DEF CallsThroughCaps, CallThroughCap, TakenThroughCap, ServedThroughCap, Calling
  <1>5. QED
    BY <1>1, <1>2, <1>3, <1>4 DEF CallInv

\* A step that changes no field CallInv speaks of preserves it.
LEMMA CallsUntouched ==
  ASSUME CallInv, TypeOK', UNCHANGED CallVars,
         /\ kernel'.status = kernel.status /\ kernel'.badge = kernel.badge
         /\ kernel'.reply = kernel.reply /\ kernel'.on = kernel.on
         /\ kernel'.via = kernel.via
  PROVE  CallInv'
  <1>1. (\A p \in PD : LoopConsistent(p))'
    BY DEF CallInv, LoopConsistent, Waiting, Calling, CallVars
  <1>2. OneReplyPerCall'
    BY DEF CallInv, OneReplyPerCall, Serving, CallVars
  <1>3. CallsThroughCaps'
    <2> SUFFICES ASSUME NEW p \in PD
                 PROVE  (/\ CallThroughCap(p)
                         /\ TakenThroughCap(p)
                         /\ ServedThroughCap(p))'
      BY DEF CallsThroughCaps
    <2>1. CallThroughCap(p) /\ TakenThroughCap(p) /\ ServedThroughCap(p)
      BY DEF CallInv, CallsThroughCaps
    <2>2. CallThroughCap(p)'
      BY <2>1 DEF CallThroughCap, Calling
    <2>3. TakenThroughCap(p)'
      BY <2>1 DEF TakenThroughCap, CallVars
    <2>4. ServedThroughCap(p)'
      BY <2>1 DEF ServedThroughCap, CallVars
    <2>5. QED
      BY <2>2, <2>3, <2>4
  <1>4. QED
    BY <1>1, <1>2, <1>3 DEF CallInv

\* A notification, by a domain or by an interrupt.
LEMMA SignalStep ==
  ASSUME CallInv, NEW q \in PD, NEW ids \in SUBSET Id,
         kernel' = Signal(kernel, q, ids), UNCHANGED CallVars,
         have_signal' = have_signal, monitor' = monitor, masked' \subseteq Irqs
  PROVE  CallInv'
  <1>1. kernel \in KernelState
    BY DEF CallInv, TypeOK
  <1>2. kernel' \in KernelState
    BY <1>1, SignalFields
  <1>3. TypeOK'
    BY <1>2 DEF CallInv, TypeOK, CallVars
  <1>4. CASE kernel.status[q] \in {"BlockedOnReceive", "BlockedOnNotification"}
    <2>1. AfterNotified(kernel, kernel', q, ids)
      BY <1>1, <1>4, SignalFields
    <2>2. pc[q] = "dispatch" /\ kernel.badge[q] = NoBadge
      BY <1>4 DEF CallInv, LoopConsistent, Waiting
    <2>3. (\A p \in PD : LoopConsistent(p))'
      BY <1>1, <2>1, <2>2 DEF CallInv, LoopConsistent, Waiting, Calling, CallVars,
         AfterNotified, KernelState, Entry
    <2>4. OneReplyPerCall'
      BY <1>1, <1>4, <2>1, <2>2 DEF CallInv, OneReplyPerCall, Serving, CallVars,
         AfterNotified, KernelState, NoBadge
    <2>5. CallsThroughCaps'
      <3> SUFFICES ASSUME NEW p \in PD
                   PROVE  (/\ CallThroughCap(p)
                           /\ TakenThroughCap(p)
                           /\ ServedThroughCap(p))'
        BY DEF CallsThroughCaps
      <3>1. CallThroughCap(p) /\ TakenThroughCap(p) /\ ServedThroughCap(p)
        BY DEF CallInv, CallsThroughCaps
      <3>2. CallThroughCap(p)'
        BY <1>1, <2>1, <3>1 DEF CallThroughCap, Calling, AfterNotified, KernelState
      <3>3. TakenThroughCap(p)'
        <4>1. CASE p = q
          BY <1>1, <2>1, <4>1 DEF TakenThroughCap, AfterNotified, KernelState
        <4>2. CASE p # q
          <5>1. kernel'.badge[p] = kernel.badge[p] /\ kernel'.reply = kernel.reply
            BY <1>1, <2>1, <4>2 DEF AfterNotified, KernelState
          <5>2. QED
            BY <3>1, <5>1 DEF TakenThroughCap, CallVars
        <4>3. QED
          BY <4>1, <4>2
      <3>4. ServedThroughCap(p)'
        BY <1>1, <2>1, <3>1 DEF ServedThroughCap, AfterNotified, CallVars
      <3>5. QED
        BY <3>2, <3>3, <3>4
    <2>6. QED
      BY <1>3, <2>3, <2>4, <2>5 DEF CallInv
  <1>5. CASE kernel.status[q] \notin {"BlockedOnReceive", "BlockedOnNotification"}
    <2>1. /\ kernel'.status = kernel.status /\ kernel'.badge = kernel.badge
          /\ kernel'.reply = kernel.reply /\ kernel'.on = kernel.on
          /\ kernel'.via = kernel.via
      <3>1. AfterMark(kernel, kernel', q, ids)
        BY <1>1, <1>5, SignalFields
      <3>2. QED
        BY <3>1 DEF AfterMark
    <2>2. QED
      BY <1>3, <2>1, CallsUntouched
  <1>6. QED
    BY <1>4, <1>5

(***************************************************************************)
(* A protected call: its receiver takes it at once, or the caller queues.  *)
(***************************************************************************)
LEMMA CallStep ==
  ASSUME CallInv, NEW c \in PD, PPCall(c)
  PROVE  CallInv'
  <1>1. PICK cap \in AppCalls :
          cap[1] = c /\ kernel' = Call(kernel, c, cap[4], cap[3])
    BY DEF PPCall
  <1> DEFINE i == cap[2]
             q == cap[3]
             j == cap[4]
  <1>2. /\ q \in PD /\ i \in Id /\ j \in Id
        /\ <<c, i, q, j>> \in AppCalls
    BY <1>1, CapIndices
  <1>3. kernel' = Call(kernel, c, j, q)
    BY <1>1
  <1>4. /\ UNCHANGED CallVars /\ UNCHANGED <<monitor, have_signal, masked>>
        /\ kernel.status[c] = "Running" /\ pc[c] \in Entry
    BY DEF PPCall, InEntry, CanRun, Schedulable, CallVars, libVars
  <1> HIDE DEF i, q, j
  <1>5. kernel \in KernelState
    BY DEF CallInv, TypeOK
  <1>6. kernel' \in KernelState
    BY <1>2, <1>3, <1>5, CallFields
  <1>7. TypeOK'
    BY <1>4, <1>6 DEF CallInv, TypeOK, CallVars
  <1>8. None \notin PD
    BY DescriptionAssumption
  <1>9. CASE kernel.status[q] = "BlockedOnReceive"
    <2>1. AfterAccept(kernel, kernel', c, j, q)
      BY <1>2, <1>3, <1>5, <1>9, CallFields
    <2>2. pc[q] = "dispatch" /\ kernel.badge[q] = NoBadge /\ q # c
      BY <1>2, <1>4, <1>9 DEF CallInv, LoopConsistent, Waiting
    <2>3. kernel.reply[q] = None
      BY <1>2, <2>2 DEF CallInv, OneReplyPerCall, Serving, NoBadge
    <2>4. (\A p \in PD : LoopConsistent(p))'
      BY <1>2, <1>4, <1>5, <2>1, <2>2 DEF CallInv, LoopConsistent, Waiting, Calling,
         CallVars, AfterAccept, KernelState, Entry
    <2>5. OneReplyPerCall'
      <3>1. (\A p \in PD : kernel.reply[p] # None <=> Serving(p))'
        BY <1>2, <1>4, <1>5, <1>8, <2>1, <2>2 DEF CallInv, OneReplyPerCall, Serving,
           CallVars, AfterAccept, KernelState
      <3>2. (\A p \in PD : kernel.reply[p] # None =>
               /\ kernel.status[kernel.reply[p]] = "BlockedOnReply"
               /\ kernel.on[kernel.reply[p]] = p)'
        BY <1>2, <1>4, <1>5, <1>9, <2>1, <2>2 DEF CallInv, OneReplyPerCall,
           AfterAccept, KernelState
      <3>3. (\A d \in PD : kernel.status[d] = "BlockedOnReply"
                             => kernel.reply[kernel.on[d]] = d)'
        BY <1>2, <1>4, <1>5, <1>8, <1>9, <2>1, <2>2, <2>3 DEF CallInv, OneReplyPerCall,
           AfterAccept, KernelState
      <3>4. QED
        BY <3>1, <3>2, <3>3 DEF OneReplyPerCall
    <2>6. CallsThroughCaps'
      <3> SUFFICES ASSUME NEW p \in PD
                   PROVE  (/\ CallThroughCap(p)
                           /\ TakenThroughCap(p)
                           /\ ServedThroughCap(p))'
        BY DEF CallsThroughCaps
      <3>1. CallThroughCap(p) /\ TakenThroughCap(p) /\ ServedThroughCap(p)
        BY DEF CallInv, CallsThroughCaps
      <3>2. CallThroughCap(p)'
        <4>1. CASE p = c
          BY <1>2, <1>5, <2>1, <2>2, <4>1 DEF CallThroughCap, AfterAccept, KernelState
        <4>2. CASE p # c
          BY <1>2, <1>5, <2>1, <3>1, <4>2 DEF CallThroughCap, Calling, AfterAccept,
             KernelState
        <4>3. QED
          BY <4>1, <4>2
      <3>3. TakenThroughCap(p)'
        <4>1. CASE p = q
          <5>1. kernel'.badge[p].ids = {j} /\ kernel'.reply[p] = c
            BY <1>2, <1>5, <2>1, <4>1 DEF AfterAccept, KernelState
          <5>2. QED
            BY <1>2, <4>1, <5>1 DEF TakenThroughCap
        <4>2. CASE p # q
          <5>1. kernel'.badge[p] = kernel.badge[p] /\ kernel'.reply[p] = kernel.reply[p]
            BY <1>2, <1>5, <2>1, <4>2 DEF AfterAccept, KernelState
          <5>2. QED
            BY <1>4, <3>1, <5>1 DEF TakenThroughCap, CallVars
        <4>3. QED
          BY <4>1, <4>2
      <3>4. ServedThroughCap(p)'
        <4>1. CASE p = q
          BY <1>4, <2>2, <4>1 DEF ServedThroughCap, CallVars
        <4>2. CASE p # q
          <5>1. kernel'.reply[p] = kernel.reply[p]
            BY <1>2, <1>5, <2>1, <4>2 DEF AfterAccept, KernelState
          <5>2. QED
            BY <1>4, <3>1, <5>1 DEF ServedThroughCap, CallVars
        <4>3. QED
          BY <4>1, <4>2
      <3>5. QED
        BY <3>2, <3>3, <3>4
    <2>7. QED
      BY <1>7, <2>4, <2>5, <2>6 DEF CallInv
  <1>10. CASE kernel.status[q] # "BlockedOnReceive"
    <2>1. AfterQueue(kernel, kernel', c, j, q)
      BY <1>2, <1>3, <1>5, <1>10, CallFields
    <2>2. (\A p \in PD : LoopConsistent(p))'
      BY <1>2, <1>4, <1>5, <2>1 DEF CallInv, LoopConsistent, Waiting, Calling,
         CallVars, AfterQueue, KernelState, Entry
    <2>3. OneReplyPerCall'
      BY <1>2, <1>4, <1>5, <2>1 DEF CallInv, OneReplyPerCall, Serving, CallVars,
         AfterQueue, KernelState
    <2>4. CallsThroughCaps'
      <3> SUFFICES ASSUME NEW p \in PD
                   PROVE  (/\ CallThroughCap(p)
                           /\ TakenThroughCap(p)
                           /\ ServedThroughCap(p))'
        BY DEF CallsThroughCaps
      <3>1. CallThroughCap(p) /\ TakenThroughCap(p) /\ ServedThroughCap(p)
        BY DEF CallInv, CallsThroughCaps
      <3>2. CallThroughCap(p)'
        <4>1. CASE p = c
          <5>1. kernel'.on[p] = q /\ kernel'.via[p] = j
            BY <1>5, <2>1, <4>1 DEF AfterQueue, KernelState
          <5>2. QED
            BY <1>2, <4>1, <5>1 DEF CallThroughCap
        <4>2. CASE p # c
          BY <1>2, <1>5, <2>1, <3>1, <4>2 DEF CallThroughCap, Calling, AfterQueue,
             KernelState
        <4>3. QED
          BY <4>1, <4>2
      <3>3. TakenThroughCap(p)' /\ ServedThroughCap(p)'
        BY <1>4, <2>1, <3>1 DEF TakenThroughCap, ServedThroughCap, AfterQueue, CallVars
      <3>4. QED
        BY <3>2, <3>3
    <2>5. QED
      BY <1>7, <2>2, <2>3, <2>4 DEF CallInv
  <1>11. QED
    BY <1>9, <1>10

(***************************************************************************)
(* What the receive phase of p starts from: the kernel state k differs     *)
(* from the current one at most in a caller that p has just replied to.    *)
(***************************************************************************)
ReadyToReceive(k, p) ==
  /\ k \in KernelState
  /\ k.status[p] = "Running" /\ k.badge[p] = NoBadge /\ k.reply[p] = None
  /\ k.badge = kernel.badge /\ k.via = kernel.via
  /\ \A q \in PD : k.status[q] # "Running" =>
       k.status[q] = kernel.status[q] /\ k.on[q] = kernel.on[q]
  /\ \A q \in PD \ {p} : k.reply[q] = kernel.reply[q]
  /\ \A q \in PD : k.reply[q] # None =>
       k.status[k.reply[q]] = "BlockedOnReply" /\ k.on[k.reply[q]] = q
  /\ \A c \in PD : k.status[c] = "BlockedOnReply" => k.reply[k.on[c]] = c

\* Recv and NBSendRecv receive from the current state: without have_reply the
\* reply object is empty.
LEMMA ReadyWithoutReply ==
  ASSUME CallInv, NEW p \in PD, AtReceive(p), ~have_reply[p]
  PROVE  ReadyToReceive(kernel, p)
  <1>1. kernel.status[p] = "Running" /\ pc[p] = "loop"
    BY DEF AtReceive, CanRun, Schedulable
  <1>2. kernel.badge[p] = NoBadge
    BY <1>1 DEF CallInv, LoopConsistent
  <1>3. kernel.reply[p] = None
    BY <1>1 DEF CallInv, OneReplyPerCall, Serving
  <1>4. QED
    BY <1>1, <1>2, <1>3 DEF ReadyToReceive, CallInv, TypeOK, OneReplyPerCall

\* ReplyRecv receives after it has replied: have_reply means that there is a
\* caller, and the reply empties the object.
LEMMA ReadyAfterReply ==
  ASSUME CallInv, NEW p \in PD, AtReceive(p), have_reply[p]
  PROVE  ReadyToReceive(Reply(kernel, p), p)
  <1> DEFINE k == Reply(kernel, p)
             d == kernel.reply[p]
  <1>1. kernel.status[p] = "Running" /\ pc[p] = "loop"
    BY DEF AtReceive, CanRun, Schedulable
  <1>2. kernel.badge[p] = NoBadge
    BY <1>1 DEF CallInv, LoopConsistent
  <1>3. kernel.reply[p] # None
    BY <1>1 DEF CallInv, OneReplyPerCall, Serving
  <1>4. kernel \in KernelState
    BY DEF CallInv, TypeOK
  <1>5. d \in PD
    BY <1>3, <1>4 DEF KernelState
  <1>6. kernel.status[d] = "BlockedOnReply" /\ kernel.on[d] = p
    BY <1>3 DEF CallInv, OneReplyPerCall
  <1>7. /\ k \in KernelState
        /\ k.status = [kernel.status EXCEPT ![d] = "Running"]
        /\ k.on = [kernel.on EXCEPT ![d] = None]
        /\ k.reply = [kernel.reply EXCEPT ![p] = None]
        /\ k.badge = kernel.badge /\ k.via = kernel.via
    BY <1>3, <1>4, ReplyFields
  <1>8. kernel.reply[p] = d
    OBVIOUS
  <1> HIDE DEF k, d
  <1>9. /\ k.status[p] = "Running" /\ k.badge[p] = NoBadge /\ k.reply[p] = None
        /\ \A q \in PD : k.status[q] # "Running" =>
             k.status[q] = kernel.status[q] /\ k.on[q] = kernel.on[q]
        /\ \A q \in PD \ {p} : k.reply[q] = kernel.reply[q]
    <2>1. kernel.status \in [PD -> Status] /\ kernel.on \in [PD -> PD \cup {None}]
      BY <1>4 DEF KernelState
    <2>2. kernel.reply \in [PD -> PD \cup {None}]
      BY <1>4 DEF KernelState
    <2>3. \A q \in PD : k.status[q] # "Running" =>
            k.status[q] = kernel.status[q] /\ k.on[q] = kernel.on[q]
      BY <1>5, <1>7, <2>1
    <2>4. QED
      BY <1>1, <1>2, <1>5, <1>7, <2>1, <2>2, <2>3
  <1>10. \A q \in PD : k.reply[q] # None =>
           k.status[k.reply[q]] = "BlockedOnReply" /\ k.on[k.reply[q]] = q
    <2> SUFFICES ASSUME NEW q \in PD, k.reply[q] # None
                 PROVE  k.status[k.reply[q]] = "BlockedOnReply" /\ k.on[k.reply[q]] = q
      OBVIOUS
    <2>1. q # p /\ k.reply[q] = kernel.reply[q]
      BY <1>9
    <2>2. /\ kernel.status[kernel.reply[q]] = "BlockedOnReply"
          /\ kernel.on[kernel.reply[q]] = q /\ kernel.reply[q] \in PD
      BY <1>4, <2>1 DEF CallInv, OneReplyPerCall, KernelState
    <2>3. kernel.reply[q] # d
      BY <1>6, <2>1, <2>2
    <2>4. QED
      BY <1>4, <1>5, <1>7, <2>1, <2>2, <2>3 DEF KernelState
  <1>11. \A c \in PD : k.status[c] = "BlockedOnReply" => k.reply[k.on[c]] = c
    <2> SUFFICES ASSUME NEW c \in PD, k.status[c] = "BlockedOnReply"
                 PROVE  k.reply[k.on[c]] = c
      OBVIOUS
    <2>1. c # d /\ kernel.status[c] = "BlockedOnReply" /\ k.on[c] = kernel.on[c]
      BY <1>4, <1>5, <1>7 DEF KernelState
    <2>2. kernel.reply[kernel.on[c]] = c
      BY <2>1 DEF CallInv, OneReplyPerCall
    <2>3. kernel.on[c] # p
      BY <1>8, <2>1, <2>2
    <2>4. kernel.on[c] \in PD
      BY <2>1, CalledIsDomain DEF Calling
    <2>5. QED
      BY <1>9, <2>1, <2>2, <2>3, <2>4
  <1>12. QED
    BY <1>7, <1>9, <1>10, <1>11 DEF ReadyToReceive, k

(***************************************************************************)
(* The receive phase, with any of its outcomes.                            *)
(***************************************************************************)
LEMMA ReceiveStep ==
  ASSUME CallInv, NEW p \in PD, AtReceive(p), NEW k, ReadyToReceive(k, p),
         kernel' \in Receive(k, p), monitor' \in MonitorState
  PROVE  CallInv'
  <1>1. /\ pc[p] = "loop" /\ pc' = [pc EXCEPT ![p] = "dispatch"]
        /\ UNCHANGED <<have_reply, have_signal, ch, masked>>
    BY DEF AtReceive
  <1>2. /\ k \in KernelState
        /\ k.status[p] = "Running" /\ k.badge[p] = NoBadge /\ k.reply[p] = None
        /\ k.badge = kernel.badge /\ k.via = kernel.via
    BY DEF ReadyToReceive
  <1>3. /\ \A q \in PD : k.status[q] # "Running" =>
             k.status[q] = kernel.status[q] /\ k.on[q] = kernel.on[q]
        /\ \A q \in PD \ {p} : k.reply[q] = kernel.reply[q]
    BY DEF ReadyToReceive
  <1>4. /\ \A q \in PD : k.reply[q] # None =>
             k.status[k.reply[q]] = "BlockedOnReply" /\ k.on[k.reply[q]] = q
        /\ \A c \in PD : k.status[c] = "BlockedOnReply" => k.reply[k.on[c]] = c
    BY DEF ReadyToReceive
  <1>5. None \notin PD /\ pc \in [PD -> Location]
    BY DescriptionAssumption DEF CallInv, TypeOK
  <1>6. \A q \in PD \ {p} : pc'[q] = pc[q]
    BY <1>1, <1>5
  <1>7. pc'[p] = "dispatch"
    BY <1>1, <1>5
  <1>8. \A c \in PD : k.status[c] \in {"BlockedOnSend", "BlockedOnReply"} =>
          /\ c # p /\ pc[c] \in Entry /\ k.on[c] = kernel.on[c]
          /\ \E i, j \in Id : /\ <<c, i, k.on[c], j>> \in AppCalls
                              /\ k.status[c] = "BlockedOnSend" => k.via[c] = j
    BY <1>2, <1>3, ZenonT(40) DEF CallInv, LoopConsistent, Calling, CallsThroughCaps, CallThroughCap
  <1>9. \A c \in Senders(k, p) : k.via[c] \in Id
    BY <1>8 DEF Senders
  <1>10. /\ kernel' \in KernelState
         /\ \/ AfterNotified(k, kernel', p, k.ntfn[p])
            \/ AfterBlock(k, kernel', p)
            \/ \E c \in Senders(k, p) : AfterAccept(k, kernel', c, k.via[c], p)
    BY <1>2, <1>9, ReceiveFields
  <1>11. TypeOK'
    BY <1>1, <1>5, <1>10 DEF CallInv, TypeOK, Location
  <1>12. \A q \in PD : LoopConsistent(q)
    BY DEF CallInv
  <1>13. \A q \in PD : kernel.reply[q] # None <=> Serving(q)
    BY DEF CallInv, OneReplyPerCall
  <1>14. CASE AfterNotified(k, kernel', p, k.ntfn[p]) \/ AfterBlock(k, kernel', p)
    <2>1. /\ kernel'.reply = k.reply /\ kernel'.on = k.on /\ kernel'.via = k.via
          /\ kernel'.status[p] \notin {"BlockedOnSend", "BlockedOnReply"}
          /\ ~kernel'.badge[p].ep
          /\ kernel'.status[p] # "Running" => kernel'.badge[p] = NoBadge
          /\ \A q \in PD \ {p} : /\ kernel'.status[q] = k.status[q]
                                 /\ kernel'.badge[q] = k.badge[q]
      BY <1>2, <1>14 DEF AfterNotified, AfterBlock, KernelState, NoBadge
    <2>2. (\A q \in PD : LoopConsistent(q))'
      BY <1>1, <1>2, <1>3, <1>6, <1>7, <1>12, <2>1 DEF LoopConsistent, Waiting, Calling
    <2>3. OneReplyPerCall'
      <3>1. (\A q \in PD : kernel.reply[q] # None <=> Serving(q))'
        BY <1>1, <1>2, <1>3, <1>6, <1>7, <1>13, <2>1 DEF Serving
      <3>2. (\A q \in PD : kernel.reply[q] # None =>
               /\ kernel.status[kernel.reply[q]] = "BlockedOnReply"
               /\ kernel.on[kernel.reply[q]] = q)'
        BY <1>2, <1>4, <2>1 DEF KernelState
      <3>3. (\A c \in PD : kernel.status[c] = "BlockedOnReply"
                             => kernel.reply[kernel.on[c]] = c)'
        BY <1>4, <2>1
      <3>4. QED
        BY <3>1, <3>2, <3>3 DEF OneReplyPerCall
    <2>4. CallsThroughCaps'
      <3> SUFFICES ASSUME NEW q \in PD
                   PROVE  (/\ CallThroughCap(q)
                           /\ TakenThroughCap(q)
                           /\ ServedThroughCap(q))'
        BY DEF CallsThroughCaps
      <3>1. TakenThroughCap(q) /\ ServedThroughCap(q)
        BY DEF CallInv, CallsThroughCaps
      <3>2. CallThroughCap(q)'
        BY <1>8, <2>1 DEF CallThroughCap, Calling
      <3>3. TakenThroughCap(q)' /\ ServedThroughCap(q)'
        <4>1. CASE q = p
          BY <1>7, <2>1, <4>1 DEF TakenThroughCap, ServedThroughCap
        <4>2. CASE q # p
          <5>1. /\ kernel'.reply[q] = kernel.reply[q]
                /\ kernel'.badge[q] = kernel.badge[q] /\ pc'[q] = pc[q]
            BY <1>2, <1>3, <1>6, <2>1, <4>2
          <5>2. QED
            BY <1>1, <3>1, <5>1 DEF TakenThroughCap, ServedThroughCap
        <4>3. QED
          BY <4>1, <4>2
      <3>4. QED
        BY <3>2, <3>3
    <2>5. QED
      BY <1>11, <2>2, <2>3, <2>4 DEF CallInv
  <1>15. ASSUME NEW c \in Senders(k, p), AfterAccept(k, kernel', c, k.via[c], p)
         PROVE  CallInv'
    <2> DEFINE j == k.via[c]
    <2>1. /\ c \in PD /\ c # p /\ j \in Id /\ pc[c] \in Entry
          /\ k.status[c] = "BlockedOnSend" /\ k.on[c] = p
      BY <1>8, <1>9 DEF Senders
    <2>2. PICK i \in Id : <<c, i, p, j>> \in AppCalls
      BY <1>8, <2>1
    <2> HIDE DEF j
    <2>3. /\ kernel'.status[c] = "BlockedOnReply" /\ kernel'.status[p] = "Running"
          /\ kernel'.on[c] = p /\ kernel'.reply[p] = c
          /\ kernel'.badge[p] = [ep |-> TRUE, ids |-> {j}]
          /\ \A q \in PD \ {p} : /\ kernel'.badge[q] = kernel.badge[q]
                                 /\ kernel'.reply[q] = k.reply[q]
          /\ \A q \in PD \ {p, c} : kernel'.status[q] = k.status[q]
          /\ \A q \in PD \ {c} : kernel'.on[q] = k.on[q] /\ kernel'.via[q] = k.via[q]
      BY <1>2, <1>15, <2>1 DEF AfterAccept, KernelState, j
    <2>4. (\A q \in PD : LoopConsistent(q))'
      BY <1>1, <1>2, <1>3, <1>6, <1>7, <1>12, <2>1, <2>3
      DEF LoopConsistent, Waiting, Calling, Entry
    <2>5. OneReplyPerCall'
      <3>1. (\A q \in PD : kernel.reply[q] # None <=> Serving(q))'
        BY <1>1, <1>2, <1>3, <1>5, <1>6, <1>7, <1>13, <2>1, <2>3 DEF Serving
      <3>2. (\A q \in PD : kernel.reply[q] # None =>
               /\ kernel.status[kernel.reply[q]] = "BlockedOnReply"
               /\ kernel.on[kernel.reply[q]] = q)'
        <4> SUFFICES ASSUME NEW q \in PD, kernel'.reply[q] # None
                     PROVE  /\ kernel'.status[kernel'.reply[q]] = "BlockedOnReply"
                            /\ kernel'.on[kernel'.reply[q]] = q
          OBVIOUS
        <4>1. CASE q = p
          BY <2>3, <4>1
        <4>2. CASE q # p
          <5>1. /\ kernel'.reply[q] = k.reply[q] /\ k.reply[q] \in PD
                /\ k.status[k.reply[q]] = "BlockedOnReply" /\ k.on[k.reply[q]] = q
            BY <1>2, <1>4, <2>3, <4>2 DEF KernelState
          <5>2. k.reply[q] # p /\ k.reply[q] # c
            BY <1>2, <2>1, <5>1
          <5>3. QED
            BY <2>3, <5>1, <5>2
        <4>3. QED
          BY <4>1, <4>2
      <3>3. (\A d \in PD : kernel.status[d] = "BlockedOnReply"
                             => kernel.reply[kernel.on[d]] = d)'
        <4> SUFFICES ASSUME NEW d \in PD, kernel'.status[d] = "BlockedOnReply"
                     PROVE  kernel'.reply[kernel'.on[d]] = d
          OBVIOUS
        <4>1. CASE d = c
          BY <2>3, <4>1
        <4>2. CASE d # c
          <5>1. /\ d # p /\ k.status[d] = "BlockedOnReply" /\ kernel'.on[d] = k.on[d]
                /\ k.reply[k.on[d]] = d
            BY <1>4, <2>3, <4>2
          <5>2. k.on[d] # p /\ k.on[d] \in PD
            BY <1>2, <1>3, <1>5, <5>1, CalledIsDomain DEF Calling
          <5>3. QED
            BY <2>3, <5>1, <5>2
        <4>3. QED
          BY <4>1, <4>2
      <3>4. QED
        BY <3>1, <3>2, <3>3 DEF OneReplyPerCall
    <2>6. CallsThroughCaps'
      <3> SUFFICES ASSUME NEW q \in PD
                   PROVE  (/\ CallThroughCap(q)
                           /\ TakenThroughCap(q)
                           /\ ServedThroughCap(q))'
        BY DEF CallsThroughCaps
      <3>1. TakenThroughCap(q) /\ ServedThroughCap(q)
        BY DEF CallInv, CallsThroughCaps
      <3>2. CallThroughCap(q)'
        <4>1. CASE q = c
          BY <2>1, <2>2, <2>3, <4>1 DEF CallThroughCap
        <4>2. CASE q = p
          BY <2>3, <4>2 DEF CallThroughCap, Calling
        <4>3. CASE q # c /\ q # p
          <5>1. /\ kernel'.status[q] = k.status[q]
                /\ kernel'.on[q] = k.on[q] /\ kernel'.via[q] = k.via[q]
            BY <2>3, <4>3
          <5>2. k.status[q] \in {"BlockedOnSend", "BlockedOnReply"} =>
                  \E m, n \in Id : /\ <<q, m, k.on[q], n>> \in AppCalls
                                   /\ k.status[q] = "BlockedOnSend" => k.via[q] = n
            BY <1>8
          <5>3. kernel'.status[q] \in {"BlockedOnSend", "BlockedOnReply"} =>
                  \E m, n \in Id : /\ <<q, m, kernel'.on[q], n>> \in AppCalls
                                   /\ kernel'.status[q] = "BlockedOnSend" => kernel'.via[q] = n
            BY <5>1, <5>2
          <5>4. QED
            BY <5>3 DEF CallThroughCap, Calling
        <4>4. QED
          BY <4>1, <4>2, <4>3
      <3>3. TakenThroughCap(q)' /\ ServedThroughCap(q)'
        <4>1. CASE q = p
          BY <1>7, <2>1, <2>2, <2>3, <4>1 DEF TakenThroughCap, ServedThroughCap
        <4>2. CASE q # p
          <5>1. /\ kernel'.reply[q] = kernel.reply[q]
                /\ kernel'.badge[q] = kernel.badge[q] /\ pc'[q] = pc[q]
            BY <1>3, <1>6, <2>3, <4>2
          <5>2. QED
            BY <1>1, <3>1, <5>1 DEF TakenThroughCap, ServedThroughCap
        <4>3. QED
          BY <4>1, <4>2
      <3>4. QED
        BY <3>2, <3>3
    <2>7. QED
      BY <1>11, <2>4, <2>5, <2>6 DEF CallInv
  <1>16. QED
    BY <1>10, <1>14, <1>15

(***************************************************************************)
(* The steps of the event loop between two receives.                       *)
(***************************************************************************)
LEMMA FaultStep ==
  ASSUME CallInv, NEW p \in PD, Fault(p)
  PROVE  CallInv'
  <1>1. /\ kernel.status[p] = "Running"
        /\ kernel' = [kernel EXCEPT !.status[p] = "Stopped"]
        /\ monitor' = FaultMessage(p) /\ UNCHANGED libVars
    BY DEF Fault, InEntry, CanRun, Schedulable
  <1>2. kernel \in KernelState
    BY DEF CallInv, TypeOK
  <1>3. /\ kernel' \in KernelState
        /\ kernel'.status = [kernel.status EXCEPT ![p] = "Stopped"]
        /\ kernel'.badge = kernel.badge /\ kernel'.reply = kernel.reply
        /\ kernel'.on = kernel.on /\ kernel'.via = kernel.via
    BY <1>1, <1>2 DEF KernelState, Status
  <1>4. TypeOK'
    BY <1>1, <1>3 DEF CallInv, TypeOK, libVars, FaultMessage, MonitorState
  <1>5. (\A q \in PD : LoopConsistent(q))'
    BY <1>1, <1>2, <1>3 DEF CallInv, LoopConsistent, Waiting, Calling, libVars, KernelState
  <1>6. OneReplyPerCall'
    BY <1>1, <1>2, <1>3 DEF CallInv, OneReplyPerCall, Serving, libVars, KernelState
  <1>7. CallsThroughCaps'
    <2> SUFFICES ASSUME NEW q \in PD
                 PROVE  (/\ CallThroughCap(q)
                         /\ TakenThroughCap(q)
                         /\ ServedThroughCap(q))'
      BY DEF CallsThroughCaps
    <2>1. CallThroughCap(q) /\ TakenThroughCap(q) /\ ServedThroughCap(q)
      BY DEF CallInv, CallsThroughCaps
    <2>2. CallThroughCap(q)'
      BY <1>2, <1>3, <2>1 DEF CallThroughCap, Calling, KernelState
    <2>3. TakenThroughCap(q)' /\ ServedThroughCap(q)'
      BY <1>1, <1>3, <2>1 DEF TakenThroughCap, ServedThroughCap, libVars
    <2>4. QED
      BY <2>2, <2>3
  <1>8. QED
    BY <1>4, <1>5, <1>6, <1>7 DEF CallInv

\* A running domain p moves on in its program without a system call.
LEMMA LocalStep ==
  ASSUME CallInv, TypeOK', NEW p \in PD, kernel.status[p] = "Running",
         /\ kernel'.status = kernel.status /\ kernel'.reply = kernel.reply
         /\ kernel'.on = kernel.on /\ kernel'.via = kernel.via,
         \A q \in PD \ {p} : /\ kernel'.badge[q] = kernel.badge[q]
                             /\ pc'[q] = pc[q] /\ have_reply'[q] = have_reply[q]
                             /\ ch'[q] = ch[q],
         Serving(p)' <=> Serving(p), LoopConsistent(p)',
         TakenThroughCap(p)', ServedThroughCap(p)'
  PROVE  CallInv'
  <1>1. (\A q \in PD : LoopConsistent(q))'
    BY DEF CallInv, LoopConsistent, Waiting, Calling
  <1>2. \A q \in PD : Serving(q)' <=> Serving(q)
    BY DEF Serving
  <1>3. OneReplyPerCall'
    BY <1>2 DEF CallInv, OneReplyPerCall
  <1>4. CallsThroughCaps'
    <2> SUFFICES ASSUME NEW q \in PD
                 PROVE  (/\ CallThroughCap(q)
                         /\ TakenThroughCap(q)
                         /\ ServedThroughCap(q))'
      BY DEF CallsThroughCaps
    <2>1. CallThroughCap(q) /\ TakenThroughCap(q) /\ ServedThroughCap(q)
      BY DEF CallInv, CallsThroughCaps
    <2>2. CallThroughCap(q)'
      BY <2>1 DEF CallThroughCap, Calling
    <2>3. TakenThroughCap(q)' /\ ServedThroughCap(q)'
      <3>1. CASE q = p
        BY <3>1
      <3>2. CASE q # p
        <4>1. /\ kernel'.badge[q] = kernel.badge[q] /\ pc'[q] = pc[q]
              /\ ch'[q] = ch[q] /\ kernel'.reply[q] = kernel.reply[q]
          BY <3>2
        <4>2. QED
          BY <2>1, <4>1 DEF TakenThroughCap, ServedThroughCap
      <3>3. QED
        BY <3>1, <3>2
    <2>4. QED
      BY <2>2, <2>3
  <1>5. QED
    BY <1>1, <1>3, <1>4 DEF CallInv

\* init, notified and protected return.
LEMMA ReturnStep ==
  ASSUME CallInv, NEW p \in PD,
         InitReturns(p) \/ NotifiedReturns(p) \/ ProtectedReturns(p)
  PROVE  CallInv'
  <1>1. /\ kernel.status[p] = "Running" /\ UNCHANGED <<kernel, monitor, have_reply, masked>>
        /\ pc[p] \in Entry
        /\ \E l \in {"loop", "dispatch"} : pc' = [pc EXCEPT ![p] = l]
        /\ \A q \in PD \ {p} : ch'[q] = ch[q]
    BY DEF InitReturns, NotifiedReturns, ProtectedReturns, CanRun, Schedulable, Entry,
       CallInv, TypeOK
  <1>2. TypeOK /\ LoopConsistent(p)
    BY DEF CallInv
  <1>3. TypeOK'
    <2>1. have_signal' \in [PD -> BOOLEAN]
      <3>1. (p \in Passive) \in BOOLEAN
        OBVIOUS
      <3>2. CASE have_signal' = [have_signal EXCEPT ![p] = p \in Passive]
        BY <1>2, <3>1, <3>2, Zenon DEF TypeOK
      <3>3. CASE have_signal' = have_signal
        BY <1>2, <3>3 DEF TypeOK
      <3>4. QED
        BY <3>2, <3>3 DEF InitReturns, NotifiedReturns, ProtectedReturns
    <2>2. ch' \in [PD -> Id \cup {None}]
      BY <1>2 DEF TypeOK, InitReturns, NotifiedReturns, ProtectedReturns
    <2>3. QED
      BY <1>1, <1>2, <2>1, <2>2 DEF TypeOK, Location
  <1>4. \A q \in PD \ {p} : pc'[q] = pc[q]
    BY <1>1, <1>2 DEF TypeOK
  <1>5. ~(pc'[p] = "dispatch" /\ kernel.badge[p].ep) /\ pc'[p] # "protected"
    BY <1>1, <1>2 DEF TypeOK, LoopConsistent, InitReturns, NotifiedReturns,
       ProtectedReturns, NoBadge
  <1>6. Serving(p)' <=> Serving(p)
    BY <1>1, <1>2, <1>5 DEF Serving, LoopConsistent, TypeOK, NoBadge,
       InitReturns, NotifiedReturns, ProtectedReturns
  <1>7. LoopConsistent(p)'
    <2>1. kernel.badge[p] = NoBadge \/ pc'[p] = "dispatch"
      <3>1. CASE pc[p] = "notified"
        <4>1. kernel.badge[p] \in Badge /\ ~kernel.badge[p].ep
          BY <1>2, <3>1 DEF TypeOK, KernelState, LoopConsistent
        <4>2. kernel.badge[p].ids = {} => kernel.badge[p] = NoBadge
          BY <4>1 DEF Badge, NoBadge
        <4>3. QED
          BY <1>2, <3>1, <4>2 DEF TypeOK, InitReturns, NotifiedReturns, ProtectedReturns
      <3>2. CASE pc[p] # "notified"
        BY <1>1, <1>2, <3>2 DEF LoopConsistent, Entry
      <3>3. QED
        BY <3>1, <3>2
    <2>2. pc'[p] \in {"loop", "dispatch"}
      BY <1>1, <1>2 DEF TypeOK
    <2>3. QED
      BY <1>1, <2>1, <2>2 DEF LoopConsistent, Waiting, Calling
  <1>8. TakenThroughCap(p)' /\ ServedThroughCap(p)'
    BY <1>1, <1>5 DEF TakenThroughCap, ServedThroughCap
  <1>9. QED
    BY <1>1, <1>3, <1>4, <1>6, <1>7, <1>8, LocalStep

\* The dispatch of a call: the badge selects the channel of the caller.
LEMMA ProtectedStep ==
  ASSUME CallInv, NEW p \in PD, DispatchProtected(p)
  PROVE  CallInv'
  <1>1. /\ kernel.status[p] = "Running" /\ pc[p] = "dispatch" /\ kernel.badge[p].ep
        /\ have_reply' = [have_reply EXCEPT ![p] = TRUE]
        /\ pc' = [pc EXCEPT ![p] = "protected"]
        /\ kernel' = [kernel EXCEPT !.badge[p] = NoBadge]
        /\ UNCHANGED <<monitor, have_signal, masked>>
    BY DEF DispatchProtected, CanRun, Schedulable
  <1>2. PICK j \in kernel.badge[p].ids : ch' = [ch EXCEPT ![p] = j]
    BY DEF DispatchProtected
  <1>3. TypeOK
    BY DEF CallInv
  <1>4. PICK i \in Id : j \in Id /\ <<kernel.reply[p], i, p, j>> \in AppCalls
    BY <1>1, <1>2 DEF CallInv, CallsThroughCaps, TakenThroughCap
  <1>5. /\ kernel' \in KernelState
        /\ kernel'.badge = [kernel.badge EXCEPT ![p] = NoBadge]
        /\ kernel'.status = kernel.status /\ kernel'.reply = kernel.reply
        /\ kernel'.on = kernel.on /\ kernel'.via = kernel.via
    BY <1>1, <1>3 DEF TypeOK, KernelState, Badge, NoBadge
  <1>6. TypeOK'
    BY <1>1, <1>2, <1>3, <1>4, <1>5 DEF TypeOK, Location, Entry
  <1>7. /\ kernel'.badge[p] = NoBadge /\ pc'[p] = "protected" /\ have_reply'[p]
        /\ ch'[p] = j
        /\ \A q \in PD \ {p} : /\ kernel'.badge[q] = kernel.badge[q]
                               /\ pc'[q] = pc[q] /\ have_reply'[q] = have_reply[q]
                               /\ ch'[q] = ch[q]
    BY <1>1, <1>2, <1>3, <1>5 DEF TypeOK, KernelState
  <1>8. Serving(p) /\ Serving(p)'
    BY <1>1, <1>7 DEF Serving
  <1>9. LoopConsistent(p)'
    BY <1>1, <1>5, <1>7 DEF LoopConsistent, Waiting, Calling, Entry
  <1>10. TakenThroughCap(p)' /\ ServedThroughCap(p)'
    BY <1>4, <1>5, <1>7 DEF TakenThroughCap, ServedThroughCap
  <1>11. QED
    BY <1>1, <1>5, <1>6, <1>7, <1>8, <1>9, <1>10, LocalStep

\* The dispatch of one notification.
LEMMA NotifiedStep ==
  ASSUME CallInv, NEW p \in PD, DispatchNotified(p)
  PROVE  CallInv'
  <1>1. /\ kernel.status[p] = "Running" /\ pc[p] = "dispatch" /\ ~kernel.badge[p].ep
        /\ have_reply' = [have_reply EXCEPT ![p] = FALSE]
        /\ pc' = [pc EXCEPT ![p] = "notified"]
        /\ UNCHANGED <<monitor, have_signal, masked>>
    BY DEF DispatchNotified, CanRun, Schedulable
  <1>2. PICK i \in kernel.badge[p].ids :
          /\ ch' = [ch EXCEPT ![p] = i]
          /\ kernel' = [kernel EXCEPT !.badge[p].ids = @ \ {i}]
    BY DEF DispatchNotified
  <1>3. TypeOK
    BY DEF CallInv
  <1>4. kernel.badge[p] \in Badge /\ i \in Id
    BY <1>2, <1>3 DEF TypeOK, KernelState, Badge
  <1>5. /\ kernel' \in KernelState
        /\ ~kernel'.badge[p].ep
        /\ \A q \in PD \ {p} : kernel'.badge[q] = kernel.badge[q]
        /\ kernel'.status = kernel.status /\ kernel'.reply = kernel.reply
        /\ kernel'.on = kernel.on /\ kernel'.via = kernel.via
    <2>1. [kernel.badge[p] EXCEPT !.ids = @ \ {i}] \in Badge
      BY <1>4 DEF Badge
    <2>2. [kernel.badge EXCEPT ![p].ids = @ \ {i}] \in [PD -> Badge]
      BY <1>3, <2>1 DEF TypeOK, KernelState
    <2>3. kernel' \in KernelState
      BY <1>2, <1>3, <2>2 DEF TypeOK, KernelState
    <2>4. QED
      BY <1>1, <1>2, <1>3, <1>4, <2>3 DEF TypeOK, KernelState, Badge
  <1>6. TypeOK'
    BY <1>1, <1>2, <1>3, <1>4, <1>5 DEF TypeOK, Location, Entry
  <1>7. /\ pc'[p] = "notified" /\ ~have_reply'[p]
        /\ \A q \in PD \ {p} : /\ pc'[q] = pc[q] /\ have_reply'[q] = have_reply[q]
                               /\ ch'[q] = ch[q]
    BY <1>1, <1>2, <1>3 DEF TypeOK
  <1>8. ~Serving(p) /\ ~Serving(p)'
    BY <1>1, <1>7 DEF Serving
  <1>9. LoopConsistent(p)'
    BY <1>1, <1>5, <1>7 DEF LoopConsistent, Waiting, Calling, Entry
  <1>10. TakenThroughCap(p)' /\ ServedThroughCap(p)'
    BY <1>5, <1>7 DEF TakenThroughCap, ServedThroughCap
  <1>11. QED
    BY <1>1, <1>5, <1>6, <1>7, <1>8, <1>9, <1>10, LocalStep

\* The monitor moves scheduling contexts only.
LEMMA MonitorStep ==
  ASSUME CallInv, MonitorNext, UNCHANGED libVars
  PROVE  CallInv'
  <1>1. kernel \in KernelState /\ monitor \in MonitorState
    BY DEF CallInv, TypeOK
  <1>2. monitor.at \in {"unbind", "bind", "report"} => monitor.pd \in PD
    BY <1>1 DEF MonitorState, Idle
  <1>3. monitor' \in MonitorState
    BY <1>1, <1>2 DEF MonitorState, MonitorNext, MonitorUnbind, MonitorBind,
       MonitorReport, Idle
  <1>4. /\ kernel' \in KernelState
        /\ kernel'.status = kernel.status /\ kernel'.badge = kernel.badge
        /\ kernel'.reply = kernel.reply /\ kernel'.on = kernel.on
        /\ kernel'.via = kernel.via
    <2>1. CASE MonitorUnbind
      BY <1>1, <1>2, <2>1 DEF MonitorUnbind, UnbindObject, KernelState
    <2>2. CASE MonitorBind
      BY <1>1, <1>2, <2>2 DEF MonitorBind, Bind, KernelState
    <2>3. CASE MonitorReport
      BY <1>1, <2>3 DEF MonitorReport
    <2>4. QED
      BY <2>1, <2>2, <2>3 DEF MonitorNext
  <1>5. TypeOK'
    BY <1>3, <1>4 DEF CallInv, TypeOK, libVars
  <1>6. QED
    BY <1>4, <1>5, CallsUntouched DEF libVars, CallVars

(***************************************************************************)
(* CallInv is inductive: one step for each action of the system.           *)
(***************************************************************************)
LEMMA CallInvStep == CallInv /\ [Next]_vars => CallInv'
  <1> SUFFICES ASSUME CallInv, [Next]_vars PROVE CallInv'
    OBVIOUS
  <1>0. TypeOK
    BY DEF CallInv
  <1>1. ASSUME NEW p \in PD, Notify(p) PROVE CallInv'
    <2>1. PICK cap \in NotifyCaps : kernel' = Signal(kernel, cap[3], {cap[4]})
      BY <1>1 DEF Notify
    <2>2. cap[3] \in PD /\ {cap[4]} \in SUBSET Id
      BY NotifyCapIndices
    <2>3. UNCHANGED <<CallVars, have_signal, monitor, masked>>
      BY <1>1 DEF Notify, libVars, CallVars
    <2>4. QED
      BY <1>0, <2>1, <2>2, <2>3, SignalStep DEF TypeOK
  <1>2. ASSUME NEW p \in PD, PPCall(p) PROVE CallInv'
    BY <1>2, CallStep
  <1>3. ASSUME NEW p \in PD, IrqAck(p) PROVE CallInv'
    <2>1. kernel' = kernel /\ UNCHANGED CallVars
      BY <1>3 DEF IrqAck, CallVars
    <2>2. TypeOK'
      BY <1>0, <1>3 DEF IrqAck, TypeOK
    <2>3. QED
      BY <2>1, <2>2, CallsUntouched
  <1>4. ASSUME NEW p \in PD, Fault(p) PROVE CallInv'
    BY <1>4, FaultStep
  <1>5. ASSUME NEW p \in PD, InitReturns(p) \/ NotifiedReturns(p) \/ ProtectedReturns(p)
        PROVE  CallInv'
    BY <1>5, ReturnStep
  <1>6. ASSUME NEW p \in PD, ReplyRecv(p) PROVE CallInv'
    <2>1. AtReceive(p) /\ ReadyToReceive(Reply(kernel, p), p)
      BY <1>6, ReadyAfterReply DEF ReplyRecv
    <2>2. monitor' \in MonitorState /\ kernel' \in Receive(Reply(kernel, p), p)
      BY <1>0, <1>6 DEF ReplyRecv, TypeOK
    <2>3. QED
      BY <2>1, <2>2, ReceiveStep
  <1>7. ASSUME NEW p \in PD, NBSendRecv(p) PROVE CallInv'
    <2>1. AtReceive(p) /\ ReadyToReceive(kernel, p)
      BY <1>7, ReadyWithoutReply DEF NBSendRecv
    <2>2. monitor' \in MonitorState /\ kernel' \in Receive(kernel, p)
      BY <1>7 DEF NBSendRecv, NullMessage, MonitorState
    <2>3. QED
      BY <2>1, <2>2, ReceiveStep
  <1>8. ASSUME NEW p \in PD, Recv(p) PROVE CallInv'
    <2>1. AtReceive(p) /\ ReadyToReceive(kernel, p)
      BY <1>8, ReadyWithoutReply DEF Recv
    <2>2. monitor' \in MonitorState /\ kernel' \in Receive(kernel, p)
      BY <1>0, <1>8 DEF Recv, TypeOK
    <2>3. QED
      BY <2>1, <2>2, ReceiveStep
  <1>9. ASSUME NEW p \in PD, DispatchProtected(p) PROVE CallInv'
    BY <1>9, ProtectedStep
  <1>10. ASSUME NEW p \in PD, DispatchNotified(p) PROVE CallInv'
    BY <1>10, NotifiedStep
  <1>11. CASE MonitorNext /\ UNCHANGED libVars
    BY <1>11, MonitorStep
  <1>12. CASE Irq
    <2>1. PICK irq \in Irqs \ masked :
            /\ kernel' = Signal(kernel, irq[1], {irq[2]})
            /\ masked' = masked \cup {irq}
      BY <1>12 DEF Irq
    <2>2. irq[1] \in PD /\ {irq[2]} \in SUBSET Id
      BY DescriptionAssumption
    <2>3. UNCHANGED <<CallVars, have_signal, monitor>>
      BY <1>12 DEF Irq, CallVars
    <2>4. masked' \subseteq Irqs
      BY <1>0, <2>1 DEF TypeOK
    <2>5. QED
      BY <2>1, <2>2, <2>3, <2>4, SignalStep
  <1>13. CASE UNCHANGED vars
    <2>1. kernel' = kernel /\ UNCHANGED CallVars /\ TypeOK'
      BY <1>0, <1>13 DEF vars, libVars, CallVars, TypeOK
    <2>2. QED
      BY <2>1, CallsUntouched
  <1>14. QED
    BY <1>1, <1>2, <1>3, <1>4, <1>5, <1>6, <1>7, <1>8, <1>9, <1>10, <1>11, <1>12, <1>13
    DEF Next, AppNext, LoopNext

(***************************************************************************)
(* In every reachable state of every system the tool can build, the event  *)
(* loops, the badges, the reply objects and the blocked callers agree.     *)
(***************************************************************************)
THEOREM CallInvariant == Spec => []CallInv
  BY InitCallInv, CallInvStep, PTL DEF Spec

(***************************************************************************)
(* The domains, the monitor and the kernel objects are always well formed: *)
(* no badge, slot or channel number ever leaves the sets of the image.     *)
(***************************************************************************)
THEOREM TypeCorrect == Spec => []TypeOK
  <1>1. CallInv => TypeOK
    BY DEF CallInv
  <1>2. QED
    BY <1>1, CallInvariant, PTL

(***************************************************************************)
(* Every call gets exactly one reply (main.c:52-74): a reply object holds  *)
(* a caller exactly while its domain serves a call, so the ReplyRecv of    *)
(* handler_loop always has a caller to answer, and Recv never drops one.   *)
(***************************************************************************)
THEOREM EveryCallOneReply == Spec => []OneReplyPerCall
  <1>1. CallInv => OneReplyPerCall
    BY DEF CallInv
  <1>2. QED
    BY <1>1, CallInvariant, PTL

(***************************************************************************)
(* protected(ch) runs for the domain at the other end of channel ch        *)
(* (main.c:69-71 and the badges of __main__.py:1348-1383).                 *)
(***************************************************************************)
THEOREM ProtectedForPeer == Spec => []CallerIsPeer
  <1>1. CallInv => CallerIsPeer
    BY AppAssumption DEF CallInv, CallsThroughCaps, ServedThroughCap, CallerIsPeer
  <1>2. QED
    BY <1>1, CallInvariant, PTL

-----------------------------------------------------------------------------
(***************************************************************************)
(* The rule of docs/manual.md:220, which the tool does not enforce: a      *)
(* domain only calls domains of a higher priority.                         *)
(***************************************************************************)
CallsAscend == \A cap \in AppCalls : Priority[cap[1]] < Priority[cap[3]]

\* A non-empty set of domains has one of the highest priority.
LEMMA HighestPriority ==
  ASSUME NEW S \in SUBSET PD, S # {}
  PROVE  \E h \in S : \A c \in S : Priority[c] <= Priority[h]
  <1> DEFINE R == {ss \in Nat \X Nat : ss[1] < ss[2]}
             T == {254 - Priority[c] : c \in S}
  <1>1. \A c \in S : Priority[c] \in Nat /\ Priority[c] <= 254
    BY DescriptionAssumption
  <1>2. IsWellFoundedOn(R, Nat)
    BY NatLessThanWellFounded DEF OpToRel
  <1>3. T \subseteq Nat /\ T # {}
    BY <1>1
  <1>4. PICK m \in T : \A n \in T : <<n, m>> \notin R
    <2> HIDE DEF R, T
    <2>1. QED
      BY <1>2, <1>3, WFMin
  <1>5. PICK h \in S : m = 254 - Priority[h]
    OBVIOUS
  <1>6. ASSUME NEW c \in S PROVE Priority[c] <= Priority[h]
    <2>1. <<254 - Priority[c], m>> \notin R
      BY <1>4
    <2>2. 254 - Priority[c] \in Nat /\ m \in Nat
      BY <1>1, <1>3
    <2>3. ~(254 - Priority[c] < 254 - Priority[h])
      BY <1>5, <2>1, <2>2
    <2>4. Priority[c] \in Nat /\ Priority[h] \in Nat
      BY <1>1
    <2> HIDE DEF R, T
    <2>5. QED
      BY <2>3, <2>4
  <1>7. QED
    BY <1>6

(***************************************************************************)
(* The rule is enough: if all calls ascend, no set of domains can ever be  *)
(* blocked in calls on each other (docs/manual.md:615).                    *)
(***************************************************************************)
THEOREM AscendingCallsNoDeadlock == CallsAscend => (Spec => []NoCallDeadlock)
  <1> SUFFICES ASSUME CallsAscend PROVE Spec => []NoCallDeadlock
    OBVIOUS
  <1>1. CallInv => NoCallDeadlock
    <2> SUFFICES ASSUME CallInv, NEW S \in SUBSET PD, S # {}
                 PROVE  \E c \in S : ~(Calling(c) /\ kernel.on[c] \in S)
      BY DEF NoCallDeadlock
    <2>1. PICK h \in S : \A c \in S : Priority[c] <= Priority[h]
      BY HighestPriority
    <2>2. ASSUME Calling(h), kernel.on[h] \in S PROVE FALSE
      <3>1. PICK i, j \in Id : <<h, i, kernel.on[h], j>> \in AppCalls
        BY <2>2 DEF CallInv, CallsThroughCaps, CallThroughCap
      <3>2. Priority[h] < Priority[kernel.on[h]]
        BY <3>1 DEF CallsAscend
      <3>3. Priority[kernel.on[h]] <= Priority[h]
        BY <2>1, <2>2
      <3>4. Priority[h] \in Nat /\ Priority[kernel.on[h]] \in Nat
        BY <2>2, DescriptionAssumption
      <3>5. QED
        BY <3>2, <3>3, <3>4
    <2>3. QED
      BY <2>2
  <1>2. QED
    BY <1>1, CallInvariant, PTL

-----------------------------------------------------------------------------
(***************************************************************************)
(* The running system implements Channels: for every system the tool can   *)
(* build, each step is a step of Channels, seen through the refinement     *)
(* mapping of MicrokitChannels, or leaves it alone.                        *)
(***************************************************************************)
(* The mapped variables, one domain at a time. *)

EntriesKept == \A p \in PD : EntryOf(p)' = EntryOf(p)
CallsKept == \A c \in PD : OpenCall(c)' = OpenCall(c)
OwedKept == \A p \in PD : OwedBy(p)' = OwedBy(p)
UndeliveredKept == \A p \in PD, i \in Id : Undelivered(p, i)' = Undelivered(p, i)

\* What a step that is not one of Channels does.
LEMMA Stutters ==
  ASSUME EntriesKept, CallsKept, OwedKept, UndeliveredKept
  PROVE  UNCHANGED Abstract!absVars
  <1>1. [p \in PD |-> EntryOf(p)]' = [p \in PD |-> EntryOf(p)]
    BY DEF EntriesKept
  <1>2. [c \in PD |-> OpenCall(c)]' = [c \in PD |-> OpenCall(c)]
    BY DEF CallsKept
  <1>3. [p \in PD |-> OwedBy(p)]' = [p \in PD |-> OwedBy(p)]
    BY DEF OwedKept
  <1>4. [p \in PD |-> [i \in Id |-> Undelivered(p, i)]]'
          = [p \in PD |-> [i \in Id |-> Undelivered(p, i)]]
    BY DEF UndeliveredKept
  <1>5. QED
    BY <1>1, <1>2, <1>3, <1>4 DEF Abstract!absVars

\* The two parts of a count.
LEMMA UndeliveredCount ==
  ASSUME NEW p \in PD, NEW i \in Id
  PROVE  Undelivered(p, i) \in 0 .. 2
  BY DEF Undelivered

\* The number of a channel is read back from the badge of a call.
LEMMA ChannelInBadge ==
  ASSUME NEW j \in Id
  PROVE  ChannelIn({j}) = j
  BY DEF ChannelIn

\* A domain runs: it waits for nobody.
LEMMA RunningHasNoCall ==
  ASSUME NEW p \in PD, kernel.status[p] = "Running"
  PROVE  OpenCall(p) = None
  BY DEF OpenCall

\* An entry point is running.
LEMMA InEntryIsActive ==
  ASSUME CallInv, NEW p \in PD, pc[p] \in Entry
  PROVE  EntryOf(p) = <<pc[p], ch[p]>> /\ EntryOf(p) # None
  <1>1. <<pc[p], ch[p]>> \in Entry \X (Id \cup {None})
    BY DEF CallInv, TypeOK
  <1>2. QED
    BY <1>1, NoneAssumption DEF EntryOf

\* The caller a domain has taken is blocked on it, and the domain serves it.
LEMMA CalleeServes ==
  ASSUME CallInv, NEW c \in PD, kernel.status[c] = "BlockedOnReply"
  PROVE  /\ kernel.on[c] \in PD /\ kernel.reply[kernel.on[c]] = c
         /\ Serving(kernel.on[c])
  <1>1. kernel.on[c] \in PD
    BY CalledIsDomain DEF Calling
  <1>2. kernel.reply[kernel.on[c]] = c
    BY DEF CallInv, OneReplyPerCall
  <1>3. c # None
    BY DescriptionAssumption
  <1>4. QED
    BY <1>1, <1>2, <1>3 DEF CallInv, OneReplyPerCall

\* How a call is seen depends on its caller and, once taken, on its callee.
LEMMA SameOpenCall ==
  ASSUME NEW c \in PD,
         kernel'.status[c] = kernel.status[c] /\ kernel'.on[c] = kernel.on[c]
           /\ kernel'.via[c] = kernel.via[c],
         kernel.status[c] = "BlockedOnReply" =>
           \/ /\ pc'[kernel.on[c]] = pc[kernel.on[c]]
              /\ kernel'.badge[kernel.on[c]] = kernel.badge[kernel.on[c]]
           \/ pc[kernel.on[c]] # "dispatch" /\ pc'[kernel.on[c]] # "dispatch"
  PROVE  OpenCall(c)' = OpenCall(c)
  BY DEF OpenCall

-----------------------------------------------------------------------------
(* Init *)

LEMMA InitMaps == Init => Abstract!Init
  <1> SUFFICES ASSUME Init PROVE Abstract!Init
    OBVIOUS
  <1> USE DEF Init, InitKernel, LibInit, NoBadge
  <1>1. \A p \in PD : EntryOf(p) = <<"init", None>>
    BY DEF EntryOf, Entry
  <1>2. \A p \in PD : OpenCall(p) = None /\ OwedBy(p) = None
    BY DEF OpenCall, OwedBy
  <1>3. \A p \in PD, i \in Id : Undelivered(p, i) = 0
    BY DEF Undelivered
  <1>4. QED
    BY <1>1, <1>2, <1>3 DEF Abstract!Init

-----------------------------------------------------------------------------
(* Notifications *)

\* A step that only makes one notification pending, or more so, is a Send.
LEMMA SendMaps ==
  ASSUME EntriesKept, CallsKept, OwedKept, NEW q \in PD, NEW j \in Id,
         \A p \in PD, i \in Id : <<p, i>> # <<q, j>> => Undelivered(p, i)' = Undelivered(p, i),
         Undelivered(q, j)' \in 1 .. 2,
         Undelivered(q, j) <= Undelivered(q, j)' /\ Undelivered(q, j)' <= Undelivered(q, j) + 1
  PROVE  Abstract!Send(q, j)
  <1> DEFINE u == [p \in PD |-> [i \in Id |-> Undelivered(p, i)]]
             n == Undelivered(q, j)'
  <1>1. u[q][j] = Undelivered(q, j)
    OBVIOUS
  <1>2. u' = [u EXCEPT ![q][j] = n]
    OBVIOUS
  <1>3. [p \in PD |-> EntryOf(p)]' = [p \in PD |-> EntryOf(p)]
    BY DEF EntriesKept
  <1>4. [c \in PD |-> OpenCall(c)]' = [c \in PD |-> OpenCall(c)]
    BY DEF CallsKept
  <1>5. [p \in PD |-> OwedBy(p)]' = [p \in PD |-> OwedBy(p)]
    BY DEF OwedKept
  <1>6. n \in 1 .. 2 /\ u[q][j] <= n /\ n <= u[q][j] + 1
    BY <1>1
  <1>7. QED
    BY <1>2, <1>3, <1>4, <1>5, <1>6 DEF Abstract!Send

\* seL4_Signal: the badge goes into the word, or completes a receive.
LEMMA SignalSends ==
  ASSUME CallInv, NEW q \in PD, NEW j \in Id,
         kernel' = Signal(kernel, q, {j}), UNCHANGED CallVars
  PROVE  Abstract!Send(q, j)
  <1>1. kernel \in KernelState /\ {j} \in SUBSET Id
    BY DEF CallInv, TypeOK
  <1>2. EntriesKept
    BY DEF EntriesKept, EntryOf, CallVars
  <1>3. CASE kernel.status[q] \in {"BlockedOnReceive", "BlockedOnNotification"}
    <2>1. AfterNotified(kernel, kernel', q, {j}) /\ kernel'.ntfn = kernel.ntfn
      BY <1>1, <1>3, SignalFields
    <2>2. pc[q] = "dispatch" /\ kernel.badge[q] = NoBadge
      BY <1>3 DEF CallInv, LoopConsistent, Waiting
    <2>3. OwedKept
      BY <2>1 DEF OwedKept, OwedBy, AfterNotified, CallVars
    <2>4. CallsKept
      <3> SUFFICES ASSUME NEW c \in PD PROVE OpenCall(c)' = OpenCall(c)
        BY DEF CallsKept
      <3>1. /\ kernel'.on[c] = kernel.on[c] /\ kernel'.via[c] = kernel.via[c]
            /\ kernel'.status[c] = IF c = q THEN "Running" ELSE kernel.status[c]
        BY <1>1, <2>1 DEF AfterNotified, KernelState
      <3>2. CASE c = q
        BY <1>3, <3>1, <3>2 DEF OpenCall
      <3>3. CASE c # q
        <4>1. ASSUME kernel.status[c] = "BlockedOnReply" PROVE kernel.on[c] # q
          BY <2>2, <4>1, CalleeServes DEF Serving, NoBadge
        <4>2. \A p \in PD \ {q} : kernel'.badge[p] = kernel.badge[p]
          BY <1>1, <2>1 DEF AfterNotified, KernelState
        <4>3. kernel.status[c] = "BlockedOnReply" =>
                kernel.on[c] \in PD /\ kernel'.badge[kernel.on[c]] = kernel.badge[kernel.on[c]]
          BY <4>1, <4>2, CalleeServes
        <4>4. QED
          BY <3>1, <3>3, <4>3, SameOpenCall DEF CallVars
      <3>4. QED
        BY <3>2, <3>3
    <2>5. /\ \A p \in PD \ {q} : kernel'.badge[p] = kernel.badge[p]
          /\ kernel'.badge[q] = [ep |-> FALSE, ids |-> {j}]
      BY <1>1, <2>1 DEF AfterNotified, KernelState
    <2>6. \A i \in Id : Undelivered(q, i) = IF i \in kernel.ntfn[q] THEN 1 ELSE 0
      BY <2>2 DEF Undelivered, NoBadge
    <2>7. \A i \in Id : Undelivered(q, i)' = (IF i \in kernel.ntfn[q] THEN 1 ELSE 0)
                                             + (IF i = j THEN 1 ELSE 0)
      <3>1. \A i \in Id : i \in kernel'.badge[q].ids <=> i = j
        BY <2>5
      <3>2. ~kernel'.badge[q].ep /\ kernel'.ntfn = kernel.ntfn
        BY <2>1, <2>5
      <3>3. QED
        BY <3>1, <3>2 DEF Undelivered
    <2>8. \A p \in PD \ {q}, i \in Id : Undelivered(p, i)' = Undelivered(p, i)
      BY <2>1, <2>5 DEF Undelivered
    <2>9. \A p \in PD, i \in Id :
            <<p, i>> # <<q, j>> => Undelivered(p, i)' = Undelivered(p, i)
      BY <2>6, <2>7, <2>8
    <2>10. /\ Undelivered(q, j)' \in 1 .. 2 /\ Undelivered(q, j) <= Undelivered(q, j)'
           /\ Undelivered(q, j)' <= Undelivered(q, j) + 1
      BY <2>6, <2>7
    <2>11. QED
      BY <1>2, <2>3, <2>4, <2>9, <2>10, SendMaps
  <1>4. CASE kernel.status[q] \notin {"BlockedOnReceive", "BlockedOnNotification"}
    <2>1. AfterMark(kernel, kernel', q, {j})
      BY <1>1, <1>4, SignalFields
    <2>2. OwedKept
      BY <2>1 DEF OwedKept, OwedBy, AfterMark, CallVars
    <2>3. CallsKept
      BY <2>1, SameOpenCall DEF CallsKept, AfterMark, CallVars
    <2>4. /\ \A p \in PD \ {q} : kernel'.ntfn[p] = kernel.ntfn[p]
          /\ kernel'.ntfn[q] = kernel.ntfn[q] \cup {j}
          /\ kernel'.badge = kernel.badge
      BY <1>1, <2>1 DEF AfterMark, KernelState
    <2>5. \A p \in PD, i \in Id :
            <<p, i>> # <<q, j>> => Undelivered(p, i)' = Undelivered(p, i)
      BY <2>4 DEF Undelivered
    <2>6. /\ Undelivered(q, j)' \in 1 .. 2 /\ Undelivered(q, j) <= Undelivered(q, j)'
          /\ Undelivered(q, j)' <= Undelivered(q, j) + 1
      BY <2>4 DEF Undelivered
    <2>7. QED
      BY <1>2, <2>2, <2>3, <2>5, <2>6, SendMaps
  <1>5. QED
    BY <1>3, <1>4

LEMMA NotifyMaps ==
  ASSUME CallInv, NEW p \in PD, Notify(p)
  PROVE  Abstract!Notify(p)
  <1>1. PICK cap \in NotifyCaps :
          cap[1] = p /\ kernel' = Signal(kernel, cap[3], {cap[4]})
    BY DEF Notify
  <1>2. cap[3] \in PD /\ cap[4] \in Id
    BY NotifyCapIndices
  <1>3. UNCHANGED CallVars /\ pc[p] \in Entry /\ kernel.status[p] = "Running"
    BY DEF Notify, InEntry, CanRun, Schedulable, libVars, CallVars
  <1>4. Abstract!Send(cap[3], cap[4])
    BY <1>1, <1>2, <1>3, SignalSends
  <1>5. Abstract!Active(p)
    BY <1>3, InEntryIsActive, RunningHasNoCall DEF Abstract!Active
  <1>6. QED
    BY <1>1, <1>4, <1>5 DEF Abstract!Notify

LEMMA IrqMaps ==
  ASSUME CallInv, Irq
  PROVE  Abstract!Interrupt
  <1>1. PICK irq \in Irqs : kernel' = Signal(kernel, irq[1], {irq[2]}) /\ UNCHANGED CallVars
    BY DEF Irq, CallVars
  <1>2. irq[1] \in PD /\ irq[2] \in Id
    BY DescriptionAssumption
  <1>3. Abstract!Send(irq[1], irq[2])
    BY <1>1, <1>2, SignalSends
  <1>4. QED
    BY <1>3 DEF Abstract!Interrupt

-----------------------------------------------------------------------------
(* Calls *)

\* A call is open from seL4_Call on, whether it is taken at once or queued.
LEMMA CallMaps ==
  ASSUME CallInv, NEW c \in PD, PPCall(c)
  PROVE  Abstract!Request(c)
  <1>1. PICK cap \in AppCalls :
          cap[1] = c /\ kernel' = Call(kernel, c, cap[4], cap[3])
    BY DEF PPCall
  <1> DEFINE q == cap[3]
             j == cap[4]
  <1>2. q \in PD /\ j \in Id
    BY CapIndices
  <1>3. kernel' = Call(kernel, c, j, q)
    BY <1>1
  <1>4. UNCHANGED CallVars /\ pc[c] \in Entry /\ kernel.status[c] = "Running"
    BY DEF PPCall, InEntry, CanRun, Schedulable, libVars, CallVars
  <1>5. kernel \in KernelState
    BY DEF CallInv, TypeOK
  <1>6. EntriesKept
    BY <1>4 DEF EntriesKept, EntryOf, CallVars
  <1> HIDE DEF q, j
  <1>7. /\ OwedKept /\ UndeliveredKept /\ OpenCall(c)' = <<q, j>>
        /\ \A d \in PD \ {c} : OpenCall(d)' = OpenCall(d)
    <2>1. CASE kernel.status[q] = "BlockedOnReceive"
      <3>1. AfterAccept(kernel, kernel', c, j, q)
        BY <1>2, <1>3, <1>5, <2>1, CallFields
      <3>2. pc[q] = "dispatch" /\ kernel.badge[q] = NoBadge /\ q # c
        BY <1>2, <1>4, <2>1 DEF CallInv, LoopConsistent, Waiting
      <3>3. /\ \A p \in PD \ {q} : /\ kernel'.reply[p] = kernel.reply[p]
                                   /\ kernel'.badge[p] = kernel.badge[p]
            /\ kernel'.badge[q] = [ep |-> TRUE, ids |-> {j}]
            /\ kernel'.ntfn = kernel.ntfn
        BY <1>2, <1>5, <3>1 DEF AfterAccept, KernelState
      <3>4. OwedKept
        BY <1>4, <3>2, <3>3 DEF OwedKept, OwedBy, CallVars
      <3>5. UndeliveredKept
        BY <3>2, <3>3 DEF UndeliveredKept, Undelivered, NoBadge
      <3>6. kernel'.status[c] = "BlockedOnReply" /\ kernel'.on[c] = q
        BY <1>5, <3>1 DEF AfterAccept, KernelState
      <3>7. OpenCall(c)' = <<q, j>>
        BY <1>2, <1>4, <3>2, <3>3, <3>6, ChannelInBadge DEF OpenCall, CallVars
      <3>8. ASSUME NEW d \in PD \ {c} PROVE OpenCall(d)' = OpenCall(d)
        <4>1. /\ kernel'.on[d] = kernel.on[d] /\ kernel'.via[d] = kernel.via[d]
              /\ kernel'.status[d] = IF d = q THEN "Running" ELSE kernel.status[d]
          BY <1>2, <1>5, <3>1, <3>2, <3>8 DEF AfterAccept, KernelState
        <4>2. CASE d = q
          BY <2>1, <4>1, <4>2 DEF OpenCall
        <4>3. CASE d # q
          <5>1. kernel.status[d] = "BlockedOnReply" =>
                  kernel.on[d] \in PD /\ kernel.on[d] # q
            BY <3>2, CalleeServes DEF Serving, NoBadge
          <5>2. QED
            BY <1>4, <3>3, <4>1, <4>3, <5>1, SameOpenCall DEF CallVars
        <4>4. QED
          BY <4>2, <4>3
      <3>9. QED
        BY <3>4, <3>5, <3>7, <3>8
    <2>2. CASE kernel.status[q] # "BlockedOnReceive"
      <3>1. AfterQueue(kernel, kernel', c, j, q)
        BY <1>2, <1>3, <1>5, <2>2, CallFields
      <3>2. OwedKept /\ UndeliveredKept
        BY <1>4, <3>1 DEF OwedKept, OwedBy, UndeliveredKept, Undelivered, AfterQueue, CallVars
      <3>3. /\ kernel'.status[c] = "BlockedOnSend"
            /\ kernel'.on[c] = q /\ kernel'.via[c] = j
        BY <1>5, <3>1 DEF AfterQueue, KernelState
      <3>4. OpenCall(c)' = <<q, j>>
        BY <3>3 DEF OpenCall
      <3>5. ASSUME NEW d \in PD \ {c} PROVE OpenCall(d)' = OpenCall(d)
        <4>1. /\ kernel'.on[d] = kernel.on[d] /\ kernel'.via[d] = kernel.via[d]
              /\ kernel'.status[d] = kernel.status[d] /\ kernel'.badge = kernel.badge
          BY <1>5, <3>1, <3>5 DEF AfterQueue, KernelState
        <4>2. QED
          BY <1>4, <4>1, SameOpenCall DEF CallVars
      <3>6. QED
        BY <3>2, <3>4, <3>5
    <2>3. QED
      BY <2>1, <2>2
  <1>8. [d \in PD |-> OpenCall(d)]' = [[d \in PD |-> OpenCall(d)] EXCEPT ![c] = <<q, j>>]
    BY <1>7
  <1>9. /\ [p \in PD |-> EntryOf(p)]' = [p \in PD |-> EntryOf(p)]
        /\ [p \in PD |-> OwedBy(p)]' = [p \in PD |-> OwedBy(p)]
        /\ [p \in PD |-> [i \in Id |-> Undelivered(p, i)]]'
             = [p \in PD |-> [i \in Id |-> Undelivered(p, i)]]
    BY <1>6, <1>7 DEF EntriesKept, OwedKept, UndeliveredKept
  <1>10. Abstract!Active(c)
    BY <1>4, InEntryIsActive, RunningHasNoCall DEF Abstract!Active
  <1>11. QED
    BY <1>1, <1>8, <1>9, <1>10 DEF Abstract!Request, q, j

-----------------------------------------------------------------------------
(* Receives *)

\* Nothing is delivered or served by the receive itself; what came before it,
\* from kernel to k, is all that Channels sees.
LEMMA ReceiveKeeps ==
  ASSUME CallInv, NEW p \in PD, AtReceive(p), NEW k, ReadyToReceive(k, p),
         k.ntfn = kernel.ntfn, kernel' \in Receive(k, p)
  PROVE  /\ EntriesKept /\ UndeliveredKept
         /\ OwedBy(p)' = None
         /\ \A q \in PD \ {p} : OwedBy(q)' = OwedBy(q)
         /\ \A c \in PD : OpenCall(c)' = IF k.status[c] = "Running" THEN None ELSE OpenCall(c)
  <1>1. /\ pc[p] = "loop" /\ pc'[p] = "dispatch"
        /\ \A q \in PD \ {p} : pc'[q] = pc[q]
        /\ UNCHANGED <<have_reply, ch>>
    BY DEF AtReceive, CallInv, TypeOK
  <1>2. /\ k \in KernelState
        /\ k.status[p] = "Running" /\ k.badge[p] = NoBadge /\ k.reply[p] = None
        /\ k.badge = kernel.badge /\ k.via = kernel.via
        /\ \A q \in PD : k.status[q] # "Running" =>
             k.status[q] = kernel.status[q] /\ k.on[q] = kernel.on[q]
        /\ \A q \in PD \ {p} : k.reply[q] = kernel.reply[q]
        /\ \A c \in PD : k.status[c] = "BlockedOnReply" => k.reply[k.on[c]] = c
    BY DEF ReadyToReceive
  <1>3. \A c \in Senders(k, p) : k.via[c] \in Id
    <2> SUFFICES ASSUME NEW c \in Senders(k, p) PROVE k.via[c] \in Id
      OBVIOUS
    <2>1. c \in PD /\ kernel.status[c] = "BlockedOnSend"
      BY <1>2 DEF Senders
    <2>2. CallThroughCap(c) /\ Calling(c)
      BY <2>1 DEF CallInv, CallsThroughCaps, Calling
    <2>3. QED
      BY <1>2, <2>1, <2>2 DEF CallThroughCap
  <1>4. \/ /\ AfterNotified(k, kernel', p, k.ntfn[p])
           /\ kernel'.ntfn = [k.ntfn EXCEPT ![p] = {}]
        \/ AfterBlock(k, kernel', p)
        \/ \E c \in Senders(k, p) : AfterAccept(k, kernel', c, k.via[c], p)
    BY <1>2, <1>3, ReceiveFields
  <1>5. EntriesKept
    BY <1>1 DEF EntriesKept, EntryOf, Entry
  <1>6. OwedBy(p)' = None
    BY <1>1 DEF OwedBy
  <1>7. \A q \in PD \ {p} : kernel'.badge[q] = kernel.badge[q] /\ kernel'.reply[q] = kernel.reply[q]
    <2> SUFFICES ASSUME NEW q \in PD \ {p}
                 PROVE  kernel'.badge[q] = k.badge[q] /\ kernel'.reply[q] = k.reply[q]
      BY <1>2
    <2>1. k.badge \in [PD -> Badge] /\ k.reply \in [PD -> PD \cup {None}]
      BY <1>2 DEF KernelState
    <2>2. CASE AfterNotified(k, kernel', p, k.ntfn[p])
      BY <2>1, <2>2 DEF AfterNotified
    <2>3. CASE AfterBlock(k, kernel', p)
      BY <2>3 DEF AfterBlock
    <2>4. CASE \E c \in Senders(k, p) : AfterAccept(k, kernel', c, k.via[c], p)
      BY <2>1, <2>4 DEF AfterAccept
    <2>5. QED
      BY <1>4, <2>2, <2>3, <2>4
  <1>8. \A q \in PD \ {p} : OwedBy(q)' = OwedBy(q)
    BY <1>1, <1>7 DEF OwedBy
  \* A caller that was taken before is not on p, whose reply object is empty.
  <1>9. ASSUME NEW c \in PD \ {p}, k.status[c] # "Running",
               /\ kernel'.status[c] = k.status[c] /\ kernel'.on[c] = k.on[c]
               /\ kernel'.via[c] = k.via[c]
        PROVE  OpenCall(c)' = OpenCall(c)
    <2>1. kernel.status[c] = k.status[c] /\ kernel.on[c] = k.on[c]
      BY <1>2, <1>9
    <2>2. ASSUME kernel.status[c] = "BlockedOnReply"
          PROVE  kernel.on[c] \in PD \ {p}
      <3>1. k.reply[k.on[c]] = c /\ c # None
        BY <1>2, <2>1, <2>2, DescriptionAssumption
      <3>2. QED
        BY <1>2, <2>1, <2>2, <3>1, CalleeServes
    <2>3. QED
      BY <1>1, <1>2, <1>7, <1>9, <2>1, <2>2, SameOpenCall
  <1>10. CASE \/ /\ AfterNotified(k, kernel', p, k.ntfn[p])
                 /\ kernel'.ntfn = [k.ntfn EXCEPT ![p] = {}]
              \/ AfterBlock(k, kernel', p)
    <2>1. /\ \A c \in PD \ {p} : kernel'.status[c] = k.status[c]
          /\ kernel'.status[p] \in {"Running", "BlockedOnReceive", "BlockedOnNotification"}
          /\ kernel'.on = k.on /\ kernel'.via = k.via
      BY <1>2, <1>10 DEF AfterNotified, AfterBlock, KernelState
    <2>2. \A c \in PD : OpenCall(c)' = IF k.status[c] = "Running" THEN None ELSE OpenCall(c)
      <3> SUFFICES ASSUME NEW c \in PD
                   PROVE  OpenCall(c)' = IF k.status[c] = "Running" THEN None ELSE OpenCall(c)
        OBVIOUS
      <3>1. CASE k.status[c] = "Running"
        BY <2>1, <3>1 DEF OpenCall
      <3>2. CASE k.status[c] # "Running"
        BY <1>2, <1>9, <2>1, <3>2
      <3>3. QED
        BY <3>1, <3>2
    <2>3. UndeliveredKept
      <3>1. CASE /\ AfterNotified(k, kernel', p, k.ntfn[p])
                 /\ kernel'.ntfn = [k.ntfn EXCEPT ![p] = {}]
        <4>1. /\ kernel'.badge[p] = [ep |-> FALSE, ids |-> kernel.ntfn[p]]
              /\ kernel'.ntfn[p] = {}
              /\ \A q \in PD \ {p} : kernel'.ntfn[q] = kernel.ntfn[q]
          BY <1>2, <3>1 DEF AfterNotified, KernelState
        <4>2. \A i \in Id : Undelivered(p, i)' = Undelivered(p, i)
          BY <1>2, <4>1 DEF Undelivered, NoBadge
        <4>3. \A q \in PD \ {p}, i \in Id : Undelivered(q, i)' = Undelivered(q, i)
          BY <1>7, <4>1 DEF Undelivered
        <4>4. QED
          BY <4>2, <4>3 DEF UndeliveredKept
      <3>2. CASE AfterBlock(k, kernel', p)
        BY <1>2, <3>2 DEF UndeliveredKept, Undelivered, AfterBlock
      <3>3. QED
        BY <1>10, <3>1, <3>2
    <2>4. QED
      BY <1>5, <1>6, <1>8, <2>2, <2>3
  <1>11. ASSUME NEW d \in Senders(k, p), AfterAccept(k, kernel', d, k.via[d], p)
         PROVE  /\ UndeliveredKept
                /\ \A c \in PD : OpenCall(c)' = IF k.status[c] = "Running" THEN None ELSE OpenCall(c)
    <2>1. /\ d \in PD \ {p} /\ k.status[d] = "BlockedOnSend" /\ k.on[d] = p /\ k.via[d] \in Id
          /\ kernel.status[d] = "BlockedOnSend" /\ kernel.on[d] = p
      BY <1>2, <1>3 DEF Senders
    <2>2. /\ \A c \in PD \ {p, d} : /\ kernel'.status[c] = k.status[c]
                                    /\ kernel'.on[c] = k.on[c] /\ kernel'.via[c] = k.via[c]
          /\ kernel'.status[p] = "Running"
          /\ kernel'.status[d] = "BlockedOnReply" /\ kernel'.on[d] = p
          /\ kernel'.badge[p] = [ep |-> TRUE, ids |-> {k.via[d]}]
          /\ kernel'.ntfn = kernel.ntfn
      BY <1>2, <1>11, <2>1 DEF AfterAccept, KernelState
    <2>3. UndeliveredKept
      <3>1. \A i \in Id : Undelivered(p, i)' = Undelivered(p, i)
        BY <1>2, <2>2 DEF Undelivered, NoBadge
      <3>2. \A q \in PD \ {p}, i \in Id : Undelivered(q, i)' = Undelivered(q, i)
        BY <1>7, <2>2 DEF Undelivered
      <3>3. QED
        BY <3>1, <3>2 DEF UndeliveredKept
    <2>4. OpenCall(d)' = OpenCall(d)
      <3>1. OpenCall(d) = <<p, k.via[d]>>
        BY <1>2, <2>1 DEF OpenCall
      <3>2. OpenCall(d)' = <<p, ChannelIn({k.via[d]})>>
        BY <1>1, <2>2 DEF OpenCall
      <3>3. QED
        BY <2>1, <3>1, <3>2, ChannelInBadge
    <2>5. ASSUME NEW c \in PD
          PROVE  OpenCall(c)' = IF k.status[c] = "Running" THEN None ELSE OpenCall(c)
      <3>1. CASE c = d
        BY <2>1, <2>4, <3>1
      <3>2. CASE c # d /\ k.status[c] = "Running"
        BY <2>2, <3>2 DEF OpenCall
      <3>3. CASE c # d /\ k.status[c] # "Running"
        BY <1>2, <1>9, <2>2, <3>3
      <3>4. QED
        BY <3>1, <3>2, <3>3
    <2>6. QED
      BY <2>3, <2>5
  <1>12. QED
    BY <1>4, <1>5, <1>6, <1>8, <1>10, <1>11

\* Without have_reply there is nothing to answer.
LEMMA RecvStutters ==
  ASSUME CallInv, NEW p \in PD, NBSendRecv(p) \/ Recv(p)
  PROVE  UNCHANGED Abstract!absVars
  <1>1. AtReceive(p) /\ ~have_reply[p] /\ kernel' \in Receive(kernel, p)
    BY DEF NBSendRecv, Recv
  <1>2. ReadyToReceive(kernel, p)
    BY <1>1, ReadyWithoutReply
  <1>3. /\ EntriesKept /\ UndeliveredKept
        /\ OwedBy(p)' = None
        /\ \A q \in PD \ {p} : OwedBy(q)' = OwedBy(q)
        /\ \A c \in PD : OpenCall(c)' = IF kernel.status[c] = "Running" THEN None ELSE OpenCall(c)
    BY <1>1, <1>2, ReceiveKeeps
  <1>4. pc[p] = "loop"
    BY <1>1 DEF AtReceive
  <1>5. OwedKept
    BY <1>1, <1>3, <1>4 DEF OwedKept, OwedBy
  <1>6. CallsKept
    BY <1>3, RunningHasNoCall DEF CallsKept
  <1>7. QED
    BY <1>3, <1>5, <1>6, Stutters

\* With have_reply the caller that is owed one gets its reply.
LEMMA ReplyRecvMaps ==
  ASSUME CallInv, NEW p \in PD, ReplyRecv(p)
  PROVE  Abstract!Reply(p)
  <1> DEFINE k == Reply(kernel, p)
             d == kernel.reply[p]
  <1>1. AtReceive(p) /\ have_reply[p] /\ pc[p] = "loop" /\ kernel' \in Receive(k, p)
    BY DEF ReplyRecv, AtReceive
  <1>2. ReadyToReceive(k, p)
    BY <1>1, ReadyAfterReply
  <1>3. kernel \in KernelState
    BY DEF CallInv, TypeOK
  <1>4. d # None /\ d \in PD /\ kernel.status[d] = "BlockedOnReply"
    BY <1>1, <1>3 DEF CallInv, OneReplyPerCall, Serving, KernelState
  <1>5. k.ntfn = kernel.ntfn /\ k.status = [kernel.status EXCEPT ![d] = "Running"]
    BY <1>3, <1>4, ReplyFields
  <1>6. \A c \in PD : k.status[c] = IF c = d THEN "Running" ELSE kernel.status[c]
    BY <1>3, <1>5 DEF KernelState
  <1> HIDE DEF k
  <1>7. /\ EntriesKept /\ UndeliveredKept
        /\ OwedBy(p)' = None
        /\ \A q \in PD \ {p} : OwedBy(q)' = OwedBy(q)
        /\ \A c \in PD : OpenCall(c)' = IF k.status[c] = "Running" THEN None ELSE OpenCall(c)
    BY <1>1, <1>2, <1>5, ReceiveKeeps
  <1>8. OwedBy(p) = d /\ EntryOf(p) = None
    BY <1>1 DEF OwedBy, EntryOf, Entry
  <1> HIDE DEF d
  <1>9. \A c \in PD : OpenCall(c)' = IF c = d THEN None ELSE OpenCall(c)
    BY <1>6, <1>7, RunningHasNoCall
  <1>10. [c \in PD |-> OpenCall(c)]' = [[c \in PD |-> OpenCall(c)] EXCEPT ![d] = None]
    BY <1>4, <1>9
  <1>11. [q \in PD |-> OwedBy(q)]' = [[q \in PD |-> OwedBy(q)] EXCEPT ![p] = None]
    BY <1>7
  <1>12. /\ [q \in PD |-> EntryOf(q)]' = [q \in PD |-> EntryOf(q)]
         /\ [q \in PD |-> [i \in Id |-> Undelivered(q, i)]]'
              = [q \in PD |-> [i \in Id |-> Undelivered(q, i)]]
    BY <1>7 DEF EntriesKept, UndeliveredKept
  <1>13. QED
    BY <1>4, <1>8, <1>10, <1>11, <1>12 DEF Abstract!Reply

-----------------------------------------------------------------------------
(* Entry points begin and end *)

\* The calls a step of p does not touch, as far as they are not on p.
LEMMA CallsElsewhereKept ==
  ASSUME CallInv, NEW p \in PD, NEW c \in PD,
         /\ kernel'.status = kernel.status /\ kernel'.on = kernel.on /\ kernel'.via = kernel.via,
         \A q \in PD \ {p} : pc'[q] = pc[q] /\ kernel'.badge[q] = kernel.badge[q],
         kernel.status[c] = "BlockedOnReply" => kernel.on[c] # p
  PROVE  OpenCall(c)' = OpenCall(c)
  BY CalleeServes, SameOpenCall

\* protected begins for the caller whose badge the domain has received.
LEMMA ProtectedServes ==
  ASSUME CallInv, NEW p \in PD, DispatchProtected(p)
  PROVE  \E c \in PD : Abstract!Serve(p, c)
  <1>1. /\ pc[p] = "dispatch" /\ kernel.badge[p].ep
        /\ have_reply' = [have_reply EXCEPT ![p] = TRUE]
        /\ pc' = [pc EXCEPT ![p] = "protected"]
        /\ kernel' = [kernel EXCEPT !.badge[p] = NoBadge]
    BY DEF DispatchProtected
  <1>2. TypeOK /\ kernel \in KernelState
    BY DEF CallInv, TypeOK
  <1>3. PICK j \in kernel.badge[p].ids : ch' = [ch EXCEPT ![p] = j]
    BY DEF DispatchProtected
  <1>4. j \in Id /\ kernel.badge[p].ids = {j}
    BY <1>1 DEF CallInv, CallsThroughCaps, TakenThroughCap
  <1>5. kernel.reply[p] \in PD
    BY <1>1, <1>2 DEF CallInv, OneReplyPerCall, Serving, KernelState
  <1>6. PICK c \in PD : /\ kernel.reply[p] = c
                        /\ kernel.status[c] = "BlockedOnReply" /\ kernel.on[c] = p
    BY <1>1, <1>5 DEF CallInv, OneReplyPerCall, Serving
  <1>7. /\ pc'[p] = "protected" /\ ch'[p] = j /\ ~kernel'.badge[p].ep /\ kernel'.badge[p].ids = {}
        /\ \A q \in PD \ {p} : /\ pc'[q] = pc[q] /\ ch'[q] = ch[q] /\ have_reply'[q] = have_reply[q]
                               /\ kernel'.badge[q] = kernel.badge[q]
        /\ kernel'.status = kernel.status /\ kernel'.on = kernel.on /\ kernel'.via = kernel.via
        /\ kernel'.reply = kernel.reply /\ kernel'.ntfn = kernel.ntfn
    BY <1>1, <1>2, <1>3 DEF TypeOK, KernelState, NoBadge
  <1>8. \A q \in PD : EntryOf(q)' = IF q = p THEN <<"protected", j>> ELSE EntryOf(q)
    BY <1>7 DEF EntryOf, Entry
  <1>9. \A q \in PD : OwedBy(q)' = IF q = p THEN c ELSE OwedBy(q)
    BY <1>6, <1>7 DEF OwedBy
  <1>10. UndeliveredKept
    BY <1>1, <1>7 DEF UndeliveredKept, Undelivered
  <1>11. OpenCall(c) = <<p, j>> /\ OpenCall(c)' = <<p>>
    BY <1>1, <1>4, <1>6, <1>7, ChannelInBadge DEF OpenCall
  <1>12. \A d \in PD \ {c} : OpenCall(d)' = OpenCall(d)
    BY <1>6, <1>7, CalleeServes, CallsElsewhereKept
  <1>13. EntryOf(p) = None /\ OwedBy(p) = None
    BY <1>1 DEF EntryOf, OwedBy, Entry
  <1>14. /\ [q \in PD |-> EntryOf(q)]'
              = [[q \in PD |-> EntryOf(q)] EXCEPT ![p] = <<"protected", j>>]
         /\ [q \in PD |-> OwedBy(q)]' = [[q \in PD |-> OwedBy(q)] EXCEPT ![p] = c]
         /\ [q \in PD |-> [i \in Id |-> Undelivered(q, i)]]'
              = [q \in PD |-> [i \in Id |-> Undelivered(q, i)]]
    BY <1>8, <1>9, <1>10 DEF UndeliveredKept
  <1>15. [d \in PD |-> OpenCall(d)]' = [[d \in PD |-> OpenCall(d)] EXCEPT ![c] = <<p>>]
    BY <1>11, <1>12
  <1>16. Abstract!Serve(p, c)
    BY <1>4, <1>11, <1>13, <1>14, <1>15 DEF Abstract!Serve
  <1>17. QED
    BY <1>16

\* notified begins for the lowest notification that is left in the badge.
LEMMA NotifiedDelivers ==
  ASSUME CallInv, NEW p \in PD, DispatchNotified(p)
  PROVE  \E i \in Id : Abstract!Deliver(p, i)
  <1>1. /\ pc[p] = "dispatch" /\ ~kernel.badge[p].ep
        /\ have_reply' = [have_reply EXCEPT ![p] = FALSE]
        /\ pc' = [pc EXCEPT ![p] = "notified"]
    BY DEF DispatchNotified
  <1>2. TypeOK /\ kernel \in KernelState
    BY DEF CallInv, TypeOK
  <1>3. PICK j \in kernel.badge[p].ids :
          /\ ch' = [ch EXCEPT ![p] = j]
          /\ kernel' = [kernel EXCEPT !.badge[p].ids = @ \ {j}]
    BY DEF DispatchNotified
  <1>4. kernel.badge[p] \in Badge /\ j \in Id
    BY <1>2, <1>3 DEF KernelState, Badge
  <1>5. /\ kernel'.badge = [kernel.badge EXCEPT ![p] = [kernel.badge[p] EXCEPT !.ids = @ \ {j}]]
        /\ kernel'.status = kernel.status /\ kernel'.on = kernel.on /\ kernel'.via = kernel.via
        /\ kernel'.reply = kernel.reply /\ kernel'.ntfn = kernel.ntfn
    BY <1>2, <1>3 DEF KernelState
  <1>6. /\ ~kernel'.badge[p].ep /\ kernel'.badge[p].ids = kernel.badge[p].ids \ {j}
        /\ \A q \in PD \ {p} : kernel'.badge[q] = kernel.badge[q]
    <2>1. kernel.badge \in [PD -> Badge]
      BY <1>2 DEF KernelState
    <2>2. kernel'.badge[p] = [kernel.badge[p] EXCEPT !.ids = @ \ {j}]
      BY <1>5, <2>1
    <2>3. /\ kernel'.badge[p].ep = kernel.badge[p].ep
          /\ kernel'.badge[p].ids = kernel.badge[p].ids \ {j}
      BY <1>4, <2>2 DEF Badge
    <2>4. QED
      BY <1>1, <1>5, <2>1, <2>3
  <1>7. /\ pc'[p] = "notified" /\ ch'[p] = j /\ ~have_reply'[p]
        /\ \A q \in PD \ {p} : pc'[q] = pc[q] /\ ch'[q] = ch[q] /\ have_reply'[q] = have_reply[q]
    BY <1>1, <1>2, <1>3 DEF TypeOK
  <1>8. \A q \in PD : EntryOf(q)' = IF q = p THEN <<"notified", j>> ELSE EntryOf(q)
    BY <1>7 DEF EntryOf, Entry
  <1>9. OwedKept /\ OwedBy(p) = None /\ EntryOf(p) = None
    BY <1>1, <1>5, <1>7 DEF OwedKept, OwedBy, EntryOf, Entry
  <1>10. CallsKept
    <2>1. ~Serving(p)
      BY <1>1 DEF Serving
    <2>2. QED
      BY <1>5, <1>6, <1>7, <2>1, CalleeServes, CallsElsewhereKept DEF CallsKept
  <1>11. /\ Undelivered(p, j) > 0 /\ Undelivered(p, j)' = Undelivered(p, j) - 1
         /\ \A i \in Id \ {j} : Undelivered(p, i)' = Undelivered(p, i)
         /\ \A q \in PD \ {p}, i \in Id : Undelivered(q, i)' = Undelivered(q, i)
    BY <1>1, <1>3, <1>5, <1>6 DEF Undelivered
  <1> DEFINE u == [q \in PD |-> [i \in Id |-> Undelivered(q, i)]]
  <1>12. u[p][j] > 0 /\ u' = [u EXCEPT ![p][j] = @ - 1]
    BY <1>4, <1>11
  <1>13. /\ [q \in PD |-> EntryOf(q)]'
              = [[q \in PD |-> EntryOf(q)] EXCEPT ![p] = <<"notified", j>>]
         /\ [q \in PD |-> OwedBy(q)]' = [q \in PD |-> OwedBy(q)]
         /\ [d \in PD |-> OpenCall(d)]' = [d \in PD |-> OpenCall(d)]
    BY <1>8, <1>9, <1>10 DEF OwedKept, CallsKept
  <1>14. Abstract!Deliver(p, j)
    BY <1>9, <1>12, <1>13 DEF Abstract!Deliver
  <1>15. QED
    BY <1>4, <1>14

\* The return from an entry point; that of protected still owes the reply.
LEMMA ReturnMaps ==
  ASSUME CallInv, NEW p \in PD,
         InitReturns(p) \/ NotifiedReturns(p) \/ ProtectedReturns(p)
  PROVE  Abstract!Return(p)
  <1>1. /\ kernel.status[p] = "Running" /\ UNCHANGED <<kernel, have_reply>>
        /\ pc[p] \in Entry
        /\ \E l \in {"loop", "dispatch"} : pc' = [pc EXCEPT ![p] = l]
        /\ \A q \in PD \ {p} : ch'[q] = ch[q]
        /\ pc[p] = "protected" => pc' = [pc EXCEPT ![p] = "loop"]
    BY DEF InitReturns, NotifiedReturns, ProtectedReturns, CanRun, Schedulable, Entry,
       CallInv, TypeOK
  <1>2. /\ pc'[p] \in {"loop", "dispatch"} /\ \A q \in PD \ {p} : pc'[q] = pc[q]
        /\ pc[p] = "protected" => pc'[p] = "loop"
    BY <1>1 DEF CallInv, TypeOK
  <1>3. LoopConsistent(p)
    BY DEF CallInv
  <1>4. \A q \in PD : EntryOf(q)' = IF q = p THEN None ELSE EntryOf(q)
    BY <1>1, <1>2 DEF EntryOf, Entry
  <1>5. UndeliveredKept
    BY <1>1 DEF UndeliveredKept, Undelivered
  <1>6. OwedKept
    BY <1>1, <1>2, <1>3 DEF OwedKept, OwedBy, LoopConsistent, Entry
  <1>7. CallsKept
    <2>1. pc[p] # "protected" => ~Serving(p)
      BY <1>1 DEF Serving, Entry
    <2>2. CASE pc[p] = "protected"
      BY <1>1, <1>2, <2>2, CalleeServes, SameOpenCall DEF CallsKept
    <2>3. CASE pc[p] # "protected"
      BY <1>1, <1>2, <2>1, <2>3, CalleeServes, CallsElsewhereKept DEF CallsKept
    <2>4. QED
      BY <2>2, <2>3
  <1>8. Abstract!Active(p)
    BY <1>1, InEntryIsActive, RunningHasNoCall DEF Abstract!Active
  <1>9. /\ [q \in PD |-> EntryOf(q)]' = [[q \in PD |-> EntryOf(q)] EXCEPT ![p] = None]
        /\ [q \in PD |-> OwedBy(q)]' = [q \in PD |-> OwedBy(q)]
        /\ [d \in PD |-> OpenCall(d)]' = [d \in PD |-> OpenCall(d)]
        /\ [q \in PD |-> [i \in Id |-> Undelivered(q, i)]]'
             = [q \in PD |-> [i \in Id |-> Undelivered(q, i)]]
    BY <1>4, <1>5, <1>6, <1>7 DEF OwedKept, CallsKept, UndeliveredKept
  <1>10. QED
    BY <1>8, <1>9 DEF Abstract!Return

-----------------------------------------------------------------------------
(* Steps Channels does not see *)

LEMMA SameKernelFields ==
  ASSUME UNCHANGED CallVars,
         /\ kernel'.badge = kernel.badge /\ kernel'.reply = kernel.reply
         /\ kernel'.on = kernel.on /\ kernel'.via = kernel.via /\ kernel'.ntfn = kernel.ntfn,
         \A c \in PD : \/ kernel'.status[c] = kernel.status[c]
                       \/ kernel.status[c] = "Running" /\ kernel'.status[c] = "Stopped"
  PROVE  UNCHANGED Abstract!absVars
  <1>1. EntriesKept /\ OwedKept /\ UndeliveredKept
    BY DEF EntriesKept, EntryOf, OwedKept, OwedBy, UndeliveredKept, Undelivered, CallVars
  <1>2. CallsKept
    BY DEF CallsKept, OpenCall, CallVars
  <1>3. QED
    BY <1>1, <1>2, Stutters

LEMMA FaultStutters ==
  ASSUME CallInv, NEW p \in PD, Fault(p)
  PROVE  UNCHANGED Abstract!absVars
  <1>1. kernel \in KernelState /\ kernel.status[p] = "Running" /\ UNCHANGED CallVars
    BY DEF CallInv, TypeOK, Fault, InEntry, CanRun, Schedulable, libVars, CallVars
  <1>2. kernel' = [kernel EXCEPT !.status[p] = "Stopped"]
    BY DEF Fault
  <1>3. /\ kernel'.badge = kernel.badge /\ kernel'.reply = kernel.reply
        /\ kernel'.on = kernel.on /\ kernel'.via = kernel.via /\ kernel'.ntfn = kernel.ntfn
        /\ \A c \in PD : kernel'.status[c] = IF c = p THEN "Stopped" ELSE kernel.status[c]
    BY <1>1, <1>2 DEF KernelState
  <1>4. QED
    BY <1>1, <1>3, SameKernelFields

LEMMA MonitorStutters ==
  ASSUME CallInv, MonitorNext, UNCHANGED libVars
  PROVE  UNCHANGED Abstract!absVars
  <1>1. kernel \in KernelState /\ UNCHANGED CallVars
    BY DEF CallInv, TypeOK, libVars, CallVars
  <1>2. /\ kernel'.status = kernel.status
        /\ kernel'.badge = kernel.badge /\ kernel'.reply = kernel.reply
        /\ kernel'.on = kernel.on /\ kernel'.via = kernel.via /\ kernel'.ntfn = kernel.ntfn
    BY <1>1 DEF MonitorNext, MonitorUnbind, MonitorBind, MonitorReport, UnbindObject, Bind,
       KernelState
  <1>3. QED
    BY <1>1, <1>2, SameKernelFields

LEMMA StepMaps == CallInv /\ [Next]_vars => [Abstract!Next]_(Abstract!absVars)
  <1> SUFFICES ASSUME CallInv, [Next]_vars
               PROVE  Abstract!Next \/ UNCHANGED Abstract!absVars
    OBVIOUS
  <1>1. ASSUME NEW p \in PD, Notify(p) PROVE Abstract!Next
    BY <1>1, NotifyMaps DEF Abstract!Next
  <1>2. ASSUME NEW p \in PD, PPCall(p) PROVE Abstract!Next
    BY <1>2, CallMaps DEF Abstract!Next
  <1>3. ASSUME NEW p \in PD, IrqAck(p) PROVE UNCHANGED Abstract!absVars
    BY <1>3, SameKernelFields DEF IrqAck, CallVars
  <1>4. ASSUME NEW p \in PD, Fault(p) PROVE UNCHANGED Abstract!absVars
    BY <1>4, FaultStutters
  <1>5. ASSUME NEW p \in PD, InitReturns(p) \/ NotifiedReturns(p) \/ ProtectedReturns(p)
        PROVE  Abstract!Next
    BY <1>5, ReturnMaps DEF Abstract!Next
  <1>6. ASSUME NEW p \in PD, ReplyRecv(p) PROVE Abstract!Next
    BY <1>6, ReplyRecvMaps DEF Abstract!Next
  <1>7. ASSUME NEW p \in PD, NBSendRecv(p) \/ Recv(p) PROVE UNCHANGED Abstract!absVars
    BY <1>7, RecvStutters
  <1>8. ASSUME NEW p \in PD, DispatchProtected(p) PROVE Abstract!Next
    BY <1>8, ProtectedServes DEF Abstract!Next
  <1>9. ASSUME NEW p \in PD, DispatchNotified(p) PROVE Abstract!Next
    BY <1>9, NotifiedDelivers DEF Abstract!Next
  <1>10. CASE MonitorNext /\ UNCHANGED libVars
    BY <1>10, MonitorStutters
  <1>11. CASE Irq
    BY <1>11, IrqMaps DEF Abstract!Next
  <1>12. CASE UNCHANGED vars
    BY <1>12, SameKernelFields DEF vars, libVars, CallVars
  <1>13. QED
    BY <1>1, <1>2, <1>3, <1>4, <1>5, <1>6, <1>7, <1>8, <1>9, <1>10, <1>11, <1>12
    DEF Next, AppNext, LoopNext

(***************************************************************************)
(* The promise of Channels (docs/manual.md, "Channels" and "Protected      *)
(* procedures"), kept by the event loop of libmicrokit, the monitor and    *)
(* the capabilities of the tool: no notification is lost or made up or     *)
(* delivered with another channel's number, protected runs once for each   *)
(* call, and a reply ends the call it answers and no other.                *)
(***************************************************************************)
THEOREM SystemImplementsChannels == Spec => ImplementsChannels
  <1>1. Spec => []CallInv
    BY CallInvariant
  <1>2. QED
    BY <1>1, InitMaps, StepMaps, PTL DEF Spec, ImplementsChannels, Abstract!Spec
===============================================================================
