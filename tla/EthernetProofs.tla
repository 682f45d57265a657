---------------------------- MODULE EthernetProofs ----------------------------
(***************************************************************************)
(* The rings of the Ethernet example, for all sizes.  A producer and a     *)
(* consumer share no index, only the flag in each slot: that a look at one *)
(* slot is enough follows from the full slots being those between the two  *)
(* indices, which neither of them knows.                                   *)
(***************************************************************************)
EXTENDS EthernetLink, SequenceTheorems, TLAPS

(***************************************************************************)
(* A ring: its full slots are those from head, where its consumer is, up   *)
(* to tail, where its producer is.  If they are at the same slot, the ring *)
(* is full or empty.                                                       *)
(***************************************************************************)
Between(i, head, tail) ==
  IF head < tail THEN head <= i /\ i < tail ELSE head <= i \/ i < tail

Ring(ring, size, head, tail) ==
  \/ \A i \in 0 .. size - 1 : ring[i].full <=> Between(i, head, tail)
  \/ head = tail /\ \A i \in 0 .. size - 1 : ~ring[i].full

\* The slot pass copies from is its own until it clears the flag, although its
\* index is one further.
Copying(p) == pass.port = p /\ pass.pc \in {"publish", "notify", "free"}
OutputHead(p) == IF Copying(p) THEN pass.bd ELSE pass.input_index[p]

\* A flag is set before the index of its producer is advanced.
InputTail(p) ==
  IF Copying(Other(p)) /\ pass.pc = "notify"
  THEN After(pass.output_index[p], BUFFER_MAX) ELSE pass.output_index[p]

TbdTail(p) ==
  IF eth[p].pc \in {"kick reply", "kick input"}
  THEN After(eth[p].tbd_index, TBD_COUNT) ELSE eth[p].tbd_index

Rings(p) ==
  /\ Ring(rbd[p], RBD_COUNT, eth[p].rbd_index, nic[p].rx)
  /\ Ring(output[p], BUFFER_MAX, OutputHead(p), eth[p].output_index)
  /\ Ring(input[p], BUFFER_MAX, eth[p].input_index, InputTail(p))
  /\ Ring(tbd[p], TBD_COUNT, nic[p].tx, TbdTail(p))

\* The slots a driver is working on are its own.
DriverHolds(p) ==
  /\ eth[p].pc \in {"publish", "notify", "avail", "kick reply"} => Slot(p).full
  /\ eth[p].pc = "publish" => ~output[p][eth[p].output_index].full
  /\ eth[p].pc \in {"kick input", "free"} => input[p][eth[p].input_index].full

\* So are those of pass, from the output of port p to the input of the other.
PassHolds(p) ==
  Copying(p) =>
    /\ output[p][pass.bd].full
    /\ pass.input_index[p] = After(pass.bd, BUFFER_MAX)
    /\ pass.pc = "publish" => ~input[Other(p)][pass.output_index[Other(p)]].full

-----------------------------------------------------------------------------
SlotState == [full: BOOLEAN, frame: Frame]
Slots(size) == [0 .. size - 1 -> SlotState]
Causes == SUBSET {"rxf", "txf"}

NicState == [rx: 0 .. RBD_COUNT - 1, tx: 0 .. TBD_COUNT - 1,
             rdar: BOOLEAN, tdar: BOOLEAN, eir: Causes]

DriverLocation == {"loop", "eir", "clear", "rx", "publish", "notify", "avail", "kick reply",
                   "kick", "ack", "input", "kick input", "free"}
DriverState ==
  [pc: DriverLocation, todo: SUBSET Nat, eir: Causes,
   rbd_index: 0 .. RBD_COUNT - 1, tbd_index: 0 .. TBD_COUNT - 1,
   output_index: 0 .. BUFFER_MAX - 1, input_index: 0 .. BUFFER_MAX - 1]

PassLocation == {"loop", "next", "publish", "notify", "free"}
PassIndices == [Port -> 0 .. BUFFER_MAX - 1]
PassState == [pc: PassLocation, todo: SUBSET Nat, port: Port, bd: 0 .. BUFFER_MAX - 1,
              input_index: PassIndices, output_index: PassIndices]

\* The variables have the types of the source, and the indices stay in their rings.
EthernetTypeOK ==
  /\ arrived \in [Port -> Seq(Kind)]
  /\ rbd \in [Port -> Slots(RBD_COUNT)]
  /\ tbd \in [Port -> Slots(TBD_COUNT)]
  /\ output \in [Port -> Slots(BUFFER_MAX)]
  /\ input \in [Port -> Slots(BUFFER_MAX)]
  /\ nic \in [Port -> NicState]
  /\ eth \in [Port -> DriverState]
  /\ pass \in PassState
  /\ pending \in [Port \cup {"pass"} -> SUBSET Nat]

RingInv == EthernetTypeOK /\ \A p \in Port : Rings(p) /\ DriverHolds(p) /\ PassHolds(p)

-----------------------------------------------------------------------------
LEMMA OtherPort == Other("outer") = "inner" /\ Other("inner") = "outer"
  BY DEF Other, Port

LEMMA PortsDiffer == \A p \in Port : Other(p) \in Port /\ Other(p) # p /\ Other(Other(p)) = p
  BY OtherPort DEF Port

LEMMA Sizes ==
  /\ RBD_COUNT \in Nat \ {0} /\ TBD_COUNT \in Nat \ {0} /\ BUFFER_MAX \in Nat \ {0}
  /\ \A size \in Nat \ {0} : \A i \in 0 .. size - 1 : After(i, size) \in 0 .. size - 1
  BY RingAssumption DEF After

(***************************************************************************)
(* The operations of a ring, on its flags.                                 *)
(***************************************************************************)
\* The producer fills the slot at its index, which is empty, and moves on.
LEMMA RingFill ==
  ASSUME NEW size \in Nat \ {0}, NEW head \in 0 .. size - 1, NEW tail \in 0 .. size - 1,
         NEW ring \in Slots(size), NEW next \in Slots(size),
         Ring(ring, size, head, tail), ~ring[tail].full, next[tail].full,
         \A i \in (0 .. size - 1) \ {tail} : next[i].full = ring[i].full
  PROVE  Ring(next, size, head, After(tail, size))
  BY DEF Ring, Between, After, Slots, SlotState

\* The consumer empties the slot at its index, which is full, and moves on.
LEMMA RingEmpty ==
  ASSUME NEW size \in Nat \ {0}, NEW head \in 0 .. size - 1, NEW tail \in 0 .. size - 1,
         NEW ring \in Slots(size), NEW next \in Slots(size),
         Ring(ring, size, head, tail), ring[head].full, ~next[head].full,
         \A i \in (0 .. size - 1) \ {head} : next[i].full = ring[i].full
  PROVE  Ring(next, size, After(head, size), tail)
  BY SMTT(40) DEF Ring, Between, After, Slots, SlotState

\* If the slot of the producer is full, so is the ring.
LEMMA RingFull ==
  ASSUME NEW size \in Nat \ {0}, NEW head \in 0 .. size - 1, NEW tail \in 0 .. size - 1,
         NEW ring \in Slots(size), Ring(ring, size, head, tail), ring[tail].full
  PROVE  \A i \in 0 .. size - 1 : ring[i].full
  BY DEF Ring, Between

LEMMA RingSame ==
  ASSUME NEW size, NEW head, NEW tail, NEW ring, NEW next, Ring(ring, size, head, tail),
         \A i \in 0 .. size - 1 : next[i].full = ring[i].full
  PROVE  Ring(next, size, head, tail)
  BY DEF Ring

-----------------------------------------------------------------------------
(***************************************************************************)
(* What an assignment to a field or to a slot changes, for one port.       *)
(***************************************************************************)

\* From drivers f to g, the one of p gets to loc, with these indices.
DriverMoves(f, g, p, loc, r, t, o, i) ==
  /\ g \in [Port -> DriverState]
  /\ \A q \in Port \ {p} : g[q] = f[q]
  /\ g[p].pc = loc
  /\ g[p].rbd_index = r /\ g[p].tbd_index = t
  /\ g[p].output_index = o /\ g[p].input_index = i

\* From interfaces f to g, the one of p gets to the slots rx and tx.
NicMoves(f, g, p, rx, tx) ==
  /\ g \in [Port -> NicState]
  /\ \A q \in Port \ {p} : g[q] = f[q]
  /\ g[p].rx = rx /\ g[p].tx = tx

\* From rings f to g, the flag in slot i of p becomes full.
SetsFlag(f, g, size, p, i, full) ==
  /\ g \in [Port -> Slots(size)]
  /\ \A q \in Port \ {p} : g[q] = f[q]
  /\ g[p][i].full = full
  /\ \A j \in (0 .. size - 1) \ {i} : g[p][j].full = f[p][j].full

LEMMA DriverMoved ==
  ASSUME NEW f \in [Port -> DriverState], NEW p \in Port, NEW loc \in DriverLocation, NEW g
  PROVE  LET r == f[p].rbd_index
             t == f[p].tbd_index
             o == f[p].output_index
             i == f[p].input_index
         IN /\ g = [f EXCEPT ![p].pc = loc] => DriverMoves(f, g, p, loc, r, t, o, i)
            /\ \A d \in SUBSET Nat :
                 g = [f EXCEPT ![p].todo = d, ![p].pc = loc] => DriverMoves(f, g, p, loc, r, t, o, i)
            /\ \A c \in Causes :
                 g = [f EXCEPT ![p].eir = c, ![p].pc = loc] => DriverMoves(f, g, p, loc, r, t, o, i)
            /\ \A n \in 0 .. RBD_COUNT - 1 :
                 g = [f EXCEPT ![p].rbd_index = n, ![p].pc = loc]
                   => DriverMoves(f, g, p, loc, n, t, o, i)
            /\ \A n \in 0 .. TBD_COUNT - 1 :
                 g = [f EXCEPT ![p].tbd_index = n, ![p].pc = loc]
                   => DriverMoves(f, g, p, loc, r, n, o, i)
            /\ \A n \in 0 .. BUFFER_MAX - 1 :
                 /\ g = [f EXCEPT ![p].output_index = n, ![p].pc = loc]
                      => DriverMoves(f, g, p, loc, r, t, n, i)
                 /\ g = [f EXCEPT ![p].input_index = n, ![p].pc = loc]
                      => DriverMoves(f, g, p, loc, r, t, o, n)
  <1> USE DEF DriverState, DriverMoves
  <1> DEFINE r == f[p].rbd_index
             t == f[p].tbd_index
             o == f[p].output_index
             i == f[p].input_index
  <1>1. g = [f EXCEPT ![p].pc = loc] => DriverMoves(f, g, p, loc, r, t, o, i)
    OBVIOUS
  <1>2. ASSUME NEW d \in SUBSET Nat, g = [f EXCEPT ![p].todo = d, ![p].pc = loc]
        PROVE  DriverMoves(f, g, p, loc, r, t, o, i)
    BY <1>2
  <1>3. ASSUME NEW c \in Causes, g = [f EXCEPT ![p].eir = c, ![p].pc = loc]
        PROVE  DriverMoves(f, g, p, loc, r, t, o, i)
    BY <1>3
  <1>4. ASSUME NEW n \in 0 .. RBD_COUNT - 1, g = [f EXCEPT ![p].rbd_index = n, ![p].pc = loc]
        PROVE  DriverMoves(f, g, p, loc, n, t, o, i)
    BY <1>4
  <1>5. ASSUME NEW n \in 0 .. TBD_COUNT - 1, g = [f EXCEPT ![p].tbd_index = n, ![p].pc = loc]
        PROVE  DriverMoves(f, g, p, loc, r, n, o, i)
    BY <1>5
  <1>6. ASSUME NEW n \in 0 .. BUFFER_MAX - 1, g = [f EXCEPT ![p].output_index = n, ![p].pc = loc]
        PROVE  DriverMoves(f, g, p, loc, r, t, n, i)
    BY <1>6
  <1>7. ASSUME NEW n \in 0 .. BUFFER_MAX - 1, g = [f EXCEPT ![p].input_index = n, ![p].pc = loc]
        PROVE  DriverMoves(f, g, p, loc, r, t, o, n)
    BY <1>7
  <1> HIDE DEF DriverMoves
  <1>8. QED
    BY <1>1, <1>2, <1>3, <1>4, <1>5, <1>6, <1>7, Zenon

LEMMA NicMoved ==
  ASSUME NEW f \in [Port -> NicState], NEW p \in Port, NEW g
  PROVE  /\ \A b \in BOOLEAN : g = [f EXCEPT ![p].rdar = b] \/ g = [f EXCEPT ![p].tdar = b]
                                 => NicMoves(f, g, p, f[p].rx, f[p].tx)
         /\ \A c \in Causes :
              /\ g = [f EXCEPT ![p].eir = c] => NicMoves(f, g, p, f[p].rx, f[p].tx)
              /\ \A n \in 0 .. RBD_COUNT - 1 :
                   g = [f EXCEPT ![p].rx = n, ![p].eir = c] => NicMoves(f, g, p, n, f[p].tx)
              /\ \A n \in 0 .. TBD_COUNT - 1 :
                   g = [f EXCEPT ![p].tx = n, ![p].eir = c] => NicMoves(f, g, p, f[p].rx, n)
  BY DEF NicState, NicMoves

LEMMA SlotReplaced ==
  ASSUME NEW size, NEW f \in [Port -> Slots(size)], NEW p \in Port, NEW i \in 0 .. size - 1,
         NEW slot \in SlotState, NEW g, g = [f EXCEPT ![p][i] = slot]
  PROVE  SetsFlag(f, g, size, p, i, slot.full)
  <1> DEFINE e == [f[p] EXCEPT ![i] = slot]
  <1>1. g = [f EXCEPT ![p] = e]
    OBVIOUS
  <1>2. e \in Slots(size) /\ e[i] = slot /\ \A j \in (0 .. size - 1) \ {i} : e[j] = f[p][j]
    BY DEF Slots
  <1> HIDE DEF e
  <1>3. QED
    BY <1>1, <1>2 DEF SetsFlag

LEMMA FlagSet ==
  ASSUME NEW size, NEW f \in [Port -> Slots(size)], NEW p \in Port, NEW i \in 0 .. size - 1, NEW g
  PROVE  /\ \A b \in BOOLEAN : g = [f EXCEPT ![p][i].full = b] => SetsFlag(f, g, size, p, i, b)
         /\ \A frame \in Frame :
              /\ g = [f EXCEPT ![p][i].frame = frame] => SetsFlag(f, g, size, p, i, f[p][i].full)
              /\ g = [f EXCEPT ![p][i] = [full |-> TRUE, frame |-> frame]]
                   => SetsFlag(f, g, size, p, i, TRUE)
  <1>1. f[p][i] \in SlotState
    BY DEF Slots
  <1>2. ASSUME NEW b \in BOOLEAN, g = [f EXCEPT ![p][i].full = b]
        PROVE  SetsFlag(f, g, size, p, i, b)
    <2> DEFINE slot == [f[p][i] EXCEPT !.full = b]
    <2>1. slot \in SlotState /\ slot.full = b
      BY <1>1 DEF SlotState
    <2>2. g = [f EXCEPT ![p][i] = slot]
      BY <1>2
    <2> HIDE DEF slot
    <2>3. QED
      BY <2>1, <2>2, SlotReplaced
  <1>3. ASSUME NEW frame \in Frame, g = [f EXCEPT ![p][i].frame = frame]
        PROVE  SetsFlag(f, g, size, p, i, f[p][i].full)
    <2> DEFINE slot == [f[p][i] EXCEPT !.frame = frame]
    <2>1. slot \in SlotState /\ slot.full = f[p][i].full
      BY <1>1 DEF SlotState
    <2>2. g = [f EXCEPT ![p][i] = slot]
      BY <1>3
    <2> HIDE DEF slot
    <2>3. QED
      BY <2>1, <2>2, SlotReplaced
  <1>4. ASSUME NEW frame \in Frame, g = [f EXCEPT ![p][i] = [full |-> TRUE, frame |-> frame]]
        PROVE  SetsFlag(f, g, size, p, i, TRUE)
    <2> DEFINE slot == [full |-> TRUE, frame |-> frame]
    <2>1. slot \in SlotState /\ slot.full = TRUE
      BY DEF SlotState
    <2>2. g = [f EXCEPT ![p][i] = slot]
      BY <1>4
    <2> HIDE DEF slot
    <2>3. QED
      BY <2>1, <2>2, SlotReplaced
  <1>5. QED
    BY <1>2, <1>3, <1>4

\* The fields of the records.
LEMMA StateFields ==
  ASSUME EthernetTypeOK, NEW p \in Port
  PROVE  /\ nic[p].rx \in 0 .. RBD_COUNT - 1 /\ nic[p].tx \in 0 .. TBD_COUNT - 1
         /\ nic[p].eir \in Causes
         /\ eth[p].pc \in DriverLocation /\ eth[p].todo \in SUBSET Nat
         /\ eth[p].eir \in Causes
         /\ eth[p].rbd_index \in 0 .. RBD_COUNT - 1
         /\ eth[p].tbd_index \in 0 .. TBD_COUNT - 1
         /\ eth[p].output_index \in 0 .. BUFFER_MAX - 1
         /\ eth[p].input_index \in 0 .. BUFFER_MAX - 1
         /\ pass.input_index[p] \in 0 .. BUFFER_MAX - 1
         /\ pass.output_index[p] \in 0 .. BUFFER_MAX - 1
         /\ pass.bd \in 0 .. BUFFER_MAX - 1
         /\ pass.port \in Port /\ pass.pc \in PassLocation /\ pass.todo \in SUBSET Nat
  <1>1. nic[p] \in NicState /\ eth[p] \in DriverState /\ pass \in PassState
    BY DEF EthernetTypeOK
  <1>2. QED
    BY <1>1 DEF NicState, DriverState, PassState, PassIndices

LEMMA PendingUpdates ==
  ASSUME EthernetTypeOK, NEW d \in Port \cup {"pass"}, NEW c \in Nat
  PROVE  /\ [pending EXCEPT ![d] = @ \cup {c}] \in [Port \cup {"pass"} -> SUBSET Nat]
         /\ [pending EXCEPT ![d] = {}] \in [Port \cup {"pass"} -> SUBSET Nat]
  <1>1. pending \in [Port \cup {"pass"} -> SUBSET Nat]
    BY DEF EthernetTypeOK
  <1>2. pending[d] \cup {c} \in SUBSET Nat
    BY <1>1
  <1>3. QED
    BY <1>1, <1>2

-----------------------------------------------------------------------------
LEMMA NicStep == ASSUME RingInv, NEW p \in Port, NicNext(p) PROVE RingInv'
  <1> USE DEF RingInv
  <1>1. /\ rbd[p] \in Slots(RBD_COUNT) /\ tbd[p] \in Slots(TBD_COUNT)
        /\ rbd \in [Port -> Slots(RBD_COUNT)] /\ tbd \in [Port -> Slots(TBD_COUNT)]
        /\ nic \in [Port -> NicState]
        /\ Rings(p)
    BY DEF EthernetTypeOK
  <1>2. CASE NicReceive(p)
    <2>1. PICK frame \in Frame :
            rbd' = [rbd EXCEPT ![p][nic[p].rx] = [full |-> TRUE, frame |-> frame]]
      <3>1. PICK n \in Nat : n = Len(arrived[p]) + 1
        BY DEF EthernetTypeOK
      <3>2. PICK k \in Kind :
              rbd' = [rbd EXCEPT ![p][nic[p].rx] =
                        [full |-> TRUE, frame |-> [port |-> p, kind |-> k, n |-> n]]]
        BY <1>2, <3>1 DEF NicReceive
      <3>3. [port |-> p, kind |-> k, n |-> n] \in Frame
        BY DEF Frame
      <3>4. QED
        BY <3>2, <3>3
    <2>2. SetsFlag(rbd, rbd', RBD_COUNT, p, nic[p].rx, TRUE)
      BY <1>1, <2>1, StateFields, FlagSet
    <2>3. PICK c \in Causes : c = nic[p].eir \cup {"rxf"}
      BY StateFields DEF Causes
    <2>4. NicMoves(nic, nic', p, After(nic[p].rx, RBD_COUNT), nic[p].tx)
      BY <1>1, <1>2, <2>3, StateFields, Sizes, NicMoved DEF NicReceive
    <2>5. /\ arrived' \in [Port -> Seq(Kind)]
          /\ UNCHANGED <<tbd, output, input, eth, pass, pending>>
      BY <1>2 DEF NicReceive, EthernetTypeOK
    <2>6. EthernetTypeOK'
      BY <2>2, <2>4, <2>5 DEF EthernetTypeOK, SetsFlag, NicMoves
    <2>7. Ring(rbd'[p], RBD_COUNT, eth[p].rbd_index, After(nic[p].rx, RBD_COUNT))
      <3>1. /\ ~rbd[p][nic[p].rx].full /\ rbd'[p][nic[p].rx].full
            /\ \A i \in (0 .. RBD_COUNT - 1) \ {nic[p].rx} : rbd'[p][i].full = rbd[p][i].full
        BY <1>2, <2>2 DEF NicReceive, SetsFlag
      <3>2. rbd'[p] \in Slots(RBD_COUNT) /\ Ring(rbd[p], RBD_COUNT, eth[p].rbd_index, nic[p].rx)
        BY <1>1, <2>2 DEF SetsFlag, Rings
      <3>3. QED
        BY <1>1, <3>1, <3>2, StateFields, Sizes, RingFill
    <2>8. \A q \in Port : Rings(q)'
      BY <2>2, <2>4, <2>5, <2>7
      DEF SetsFlag, NicMoves, Rings, OutputHead, InputTail, TbdTail, Copying
    <2>9. \A q \in Port : DriverHolds(q)' /\ PassHolds(q)'
      <3>1. \A q \in Port : \A i \in 0 .. RBD_COUNT - 1 : rbd[q][i].full => rbd'[q][i].full
        BY <2>2 DEF SetsFlag
      <3>2. QED
        BY <2>5, <3>1, StateFields DEF DriverHolds, PassHolds, Slot, Copying
    <2>10. QED
      BY <2>6, <2>8, <2>9
  <1>3. CASE NicTransmit(p)
    <2>1. SetsFlag(tbd, tbd', TBD_COUNT, p, nic[p].tx, FALSE)
      BY <1>1, <1>3, StateFields, FlagSet DEF NicTransmit
    <2>2. PICK c \in Causes : c = nic[p].eir \cup {"txf"}
      BY StateFields DEF Causes
    <2>3. NicMoves(nic, nic', p, nic[p].rx, After(nic[p].tx, TBD_COUNT))
      BY <1>1, <1>3, <2>2, StateFields, Sizes, NicMoved DEF NicTransmit
    <2>4. UNCHANGED <<arrived, rbd, output, input, eth, pass, pending>>
      BY <1>3 DEF NicTransmit
    <2>5. EthernetTypeOK'
      BY <2>1, <2>3, <2>4 DEF EthernetTypeOK, SetsFlag, NicMoves
    <2>6. Ring(tbd'[p], TBD_COUNT, After(nic[p].tx, TBD_COUNT), TbdTail(p))
      <3>1. /\ tbd[p][nic[p].tx].full /\ ~tbd'[p][nic[p].tx].full
            /\ \A i \in (0 .. TBD_COUNT - 1) \ {nic[p].tx} : tbd'[p][i].full = tbd[p][i].full
        BY <1>3, <2>1 DEF NicTransmit, SetsFlag
      <3>2. tbd'[p] \in Slots(TBD_COUNT) /\ Ring(tbd[p], TBD_COUNT, nic[p].tx, TbdTail(p))
        BY <1>1, <2>1 DEF SetsFlag, Rings
      <3>3. TbdTail(p) \in 0 .. TBD_COUNT - 1
        BY StateFields, Sizes DEF TbdTail
      <3>4. QED
        BY <1>1, <3>1, <3>2, <3>3, StateFields, Sizes, RingEmpty
    <2>7. \A q \in Port : Rings(q)'
      BY <2>1, <2>3, <2>4, <2>6
      DEF SetsFlag, NicMoves, Rings, OutputHead, InputTail, TbdTail, Copying
    <2>8. \A q \in Port : DriverHolds(q)' /\ PassHolds(q)'
      BY <2>4 DEF DriverHolds, PassHolds, Slot, Copying
    <2>9. QED
      BY <2>5, <2>7, <2>8
  <1>4. CASE NicReceiveStops(p) \/ NicTransmitStops(p) \/ Interrupt(p)
    <2>1. NicMoves(nic, nic', p, nic[p].rx, nic[p].tx)
      <3>1. CASE NicReceiveStops(p)
        BY <1>1, <3>1, NicMoved DEF NicReceiveStops
      <3>2. CASE NicTransmitStops(p)
        BY <1>1, <3>2, NicMoved DEF NicTransmitStops
      <3>3. CASE Interrupt(p)
        BY <1>1, <3>3 DEF Interrupt, NicMoves
      <3>4. QED
        BY <1>4, <3>1, <3>2, <3>3
    <2>2. /\ pending' \in [Port \cup {"pass"} -> SUBSET Nat]
          /\ UNCHANGED <<arrived, rbd, tbd, output, input, eth, pass>>
      <3>1. pending' = pending \/ pending' = [pending EXCEPT ![p] = @ \cup {3}]
        BY <1>4 DEF NicReceiveStops, NicTransmitStops, Interrupt, IRQ_CH
      <3>2. pending' \in [Port \cup {"pass"} -> SUBSET Nat]
        <4>1. CASE pending' = pending
          BY <4>1 DEF EthernetTypeOK
        <4>2. CASE pending' = [pending EXCEPT ![p] = @ \cup {3}]
          <5>1. p \in Port \cup {"pass"} /\ 3 \in Nat
            OBVIOUS
          <5>2. QED
            BY <4>2, <5>1, PendingUpdates
        <4>3. QED
          BY <3>1, <4>1, <4>2
      <3>3. UNCHANGED <<arrived, rbd, tbd, output, input, eth, pass>>
        BY <1>4 DEF NicReceiveStops, NicTransmitStops, Interrupt, world
      <3>4. QED
        BY <3>2, <3>3
    <2>3. EthernetTypeOK'
      BY <2>1, <2>2 DEF EthernetTypeOK, NicMoves
    <2>4. \A q \in Port : Rings(q)' /\ DriverHolds(q)' /\ PassHolds(q)'
      BY <2>1, <2>2, ZenonT(40)
      DEF NicMoves, Rings, DriverHolds, PassHolds, Slot, OutputHead, InputTail, TbdTail, Copying
    <2>5. QED
      BY <2>3, <2>4
  <1>5. QED
    BY <1>2, <1>3, <1>4 DEF NicNext
-----------------------------------------------------------------------------
(***************************************************************************)
(* The steps of a driver.                                                  *)
(***************************************************************************)

\* A step that leaves all the flags, and all indices but, with its flag set
\* before, the one into the transmit ring.
LEMMA DriverGoesOn ==
  ASSUME RingInv, NEW p \in Port, NEW loc, NEW t,
         DriverMoves(eth, eth', p, loc, eth[p].rbd_index, t,
                     eth[p].output_index, eth[p].input_index),
         NicMoves(nic, nic', p, nic[p].rx, nic[p].tx),
         output' \in [Port -> Slots(BUFFER_MAX)],
         \A q \in Port : \A i \in 0 .. BUFFER_MAX - 1 : output'[q][i].full = output[q][i].full,
         pending' \in [Port \cup {"pass"} -> SUBSET Nat],
         UNCHANGED <<arrived, rbd, tbd, input, pass>>,
         TbdTail(p)' = TbdTail(p), DriverHolds(p)'
  PROVE  RingInv'
  <1>1. EthernetTypeOK'
    BY DEF RingInv, EthernetTypeOK, DriverMoves, NicMoves
  <1>2. ASSUME NEW q \in Port PROVE Rings(q)' /\ DriverHolds(q)' /\ PassHolds(q)'
    <2>1. /\ eth'[q].rbd_index = eth[q].rbd_index /\ nic'[q].rx = nic[q].rx
          /\ eth'[q].output_index = eth[q].output_index
          /\ eth'[q].input_index = eth[q].input_index /\ nic'[q].tx = nic[q].tx
          /\ TbdTail(q)' = TbdTail(q)
          /\ q # p => eth'[q] = eth[q]
      BY DEF DriverMoves, NicMoves, TbdTail
    <2>2. Ring(output'[q], BUFFER_MAX, OutputHead(q), eth[q].output_index)
      BY RingSame DEF RingInv, Rings
    <2>3. OutputHead(q)' = OutputHead(q) /\ InputTail(q)' = InputTail(q)
      BY DEF OutputHead, InputTail, Copying
    <2>4. Rings(q)'
      BY <2>1, <2>2, <2>3 DEF RingInv, Rings
    <2>5. DriverHolds(q)'
      <3>1. CASE q = p
        BY <3>1
      <3>2. CASE q # p
        <4>1. eth'[q] = eth[q] /\ rbd' = rbd /\ input' = input
          BY <2>1, <3>2
        <4>2. eth[q].output_index \in 0 .. BUFFER_MAX - 1 /\ DriverHolds(q)
          BY StateFields DEF RingInv
        <4>3. output'[q][eth[q].output_index].full = output[q][eth[q].output_index].full
          BY <4>2
        <4>4. QED
          BY <4>1, <4>2, <4>3 DEF DriverHolds, Slot
      <3>3. QED
        BY <3>1, <3>2
    <2>6. PassHolds(q)'
      BY StateFields DEF RingInv, PassHolds, Copying
    <2>7. QED
      BY <2>4, <2>5, <2>6
  <1>3. QED
    BY <1>1, <1>2 DEF RingInv

LEMMA TakesNotification ==
  ASSUME RingInv, NEW p \in Port, Notified(p) PROVE RingInv'
  <1>1. EthernetTypeOK /\ eth[p].pc = "loop"
    BY DEF RingInv, Notified, At
  <1>2. PICK d \in SUBSET Nat, loc \in {"eir", "input"} :
          eth' = [eth EXCEPT ![p].todo = d, ![p].pc = loc]
    <2>1. pending[p] \in SUBSET Nat /\ eth[p].todo \in SUBSET Nat
      BY <1>1, StateFields DEF EthernetTypeOK
    <2>2. QED
      BY <2>1 DEF Notified
  <1>3. DriverMoves(eth, eth', p, loc, eth[p].rbd_index, eth[p].tbd_index,
                    eth[p].output_index, eth[p].input_index)
    BY <1>1, <1>2, DriverMoved DEF EthernetTypeOK, DriverLocation
  <1>4. pending' \in [Port \cup {"pass"} -> SUBSET Nat]
    <2>1. pending' = pending \/ pending' = [pending EXCEPT ![p] = {}]
      BY DEF Notified
    <2>2. p \in Port \cup {"pass"} /\ 0 \in Nat
      OBVIOUS
    <2>3. QED
      BY <1>1, <2>1, <2>2, PendingUpdates DEF EthernetTypeOK
  <1>5. UNCHANGED <<arrived, rbd, tbd, nic, output, input, pass>>
    BY DEF Notified, world
  <1>6. NicMoves(nic, nic', p, nic[p].rx, nic[p].tx)
    BY <1>1, <1>5 DEF NicMoves, EthernetTypeOK
  <1>7. TbdTail(p)' = TbdTail(p) /\ DriverHolds(p)'
    BY <1>1, <1>2, <1>3 DEF DriverMoves, TbdTail, DriverHolds
  <1>8. output' \in [Port -> Slots(BUFFER_MAX)]
    BY <1>1, <1>5 DEF EthernetTypeOK
  <1>9. QED
    BY <1>3, <1>4, <1>5, <1>6, <1>7, <1>8, DriverGoesOn

\* The steps that read or write the registers of the interface, and the ends of
\* the loops.
LEMMA DriverTurns ==
  ASSUME RingInv, NEW p \in Port,
         \/ ReadEir(p) \/ ClearEir(p) \/ IrqAck(p) \/ RxDone(p) \/ RxLocal(p) \/ NotifyPass(p)
         \/ KickRx(p) \/ InputDone(p)
  PROVE  RingInv'
  <1>1. EthernetTypeOK
    BY DEF RingInv
  <1>2. PICK loc \in {"clear", "rx", "ack", "loop", "avail", "kick"} :
          \/ eth' = [eth EXCEPT ![p].pc = loc]
          \/ eth' = [eth EXCEPT ![p].eir = nic[p].eir, ![p].pc = loc]
    BY DEF ReadEir, ClearEir, IrqAck, RxDone, RxLocal, NotifyPass, KickRx, InputDone
  <1>3. DriverMoves(eth, eth', p, loc, eth[p].rbd_index, eth[p].tbd_index,
                    eth[p].output_index, eth[p].input_index)
    <2>1. nic[p].eir \in Causes /\ loc \in DriverLocation /\ eth \in [Port -> DriverState]
      BY <1>1, StateFields DEF EthernetTypeOK, DriverLocation
    <2>2. CASE eth' = [eth EXCEPT ![p].pc = loc]
      BY <2>1, <2>2, DriverMoved
    <2>3. CASE eth' = [eth EXCEPT ![p].eir = nic[p].eir, ![p].pc = loc]
      BY <2>1, <2>3, DriverMoved
    <2>4. QED
      BY <1>2, <2>2, <2>3
  <1>4. pending' \in [Port \cup {"pass"} -> SUBSET Nat]
    <2>1. PassChannel(p) \in Nat /\ "pass" \in Port \cup {"pass"}
      BY DEF PassChannel
    <2>2. pending' = pending \/ pending' = [pending EXCEPT !["pass"] = @ \cup {PassChannel(p)}]
      BY DEF ReadEir, ClearEir, IrqAck, RxDone, RxLocal, NotifyPass, KickRx, InputDone
    <2>3. QED
      BY <1>1, <2>1, <2>2, PendingUpdates DEF EthernetTypeOK
  <1>5. UNCHANGED <<arrived, rbd, tbd, output, input, pass>>
    BY DEF ReadEir, ClearEir, IrqAck, RxDone, RxLocal, NotifyPass, KickRx, InputDone, world
  <1>6. NicMoves(nic, nic', p, nic[p].rx, nic[p].tx)
    <2>1. nic[p].eir \ eth[p].eir \in Causes
      BY <1>1, StateFields DEF Causes
    <2>2. \/ nic' = nic \/ nic' = [nic EXCEPT ![p].rdar = TRUE]
          \/ nic' = [nic EXCEPT ![p].eir = nic[p].eir \ eth[p].eir]
      BY DEF ReadEir, ClearEir, IrqAck, RxDone, RxLocal, NotifyPass, KickRx, InputDone
    <2>3. CASE nic' = nic
      BY <1>1, <2>3 DEF NicMoves, EthernetTypeOK
    <2>4. CASE nic' # nic
      BY <1>1, <2>1, <2>2, <2>4, NicMoved DEF EthernetTypeOK
    <2>5. QED
      BY <2>3, <2>4
  <1>7. /\ eth[p].pc \notin {"kick reply", "kick input"}
        /\ loc = "avail" => eth[p].pc \in {"rx", "notify"} /\ Slot(p).full
    <2>1. eth[p].pc = "notify" => Slot(p).full
      BY DEF RingInv, DriverHolds
    <2>2. eth'[p].pc = loc
      BY <1>3 DEF DriverMoves
    <2>3. CASE RxLocal(p)
      BY <2>3 DEF RxLocal, At
    <2>4. CASE NotifyPass(p)
      BY <2>1, <2>4 DEF NotifyPass, At
    <2>5. CASE ReadEir(p) \/ ClearEir(p) \/ IrqAck(p) \/ RxDone(p) \/ KickRx(p) \/ InputDone(p)
      <3>1. eth[p].pc \in {"eir", "clear", "ack", "rx", "kick", "input"}
        BY <2>5 DEF ReadEir, ClearEir, IrqAck, RxDone, KickRx, InputDone, At
      <3>2. \E l \in {"clear", "rx", "ack", "loop", "kick"} :
              \/ eth' = [eth EXCEPT ![p].pc = l]
              \/ eth' = [eth EXCEPT ![p].eir = nic[p].eir, ![p].pc = l]
        BY <2>5 DEF ReadEir, ClearEir, IrqAck, RxDone, KickRx, InputDone
      <3>3. eth[p] \in DriverState /\ eth \in [Port -> DriverState]
        BY <1>1 DEF EthernetTypeOK
      <3>4. loc # "avail"
        BY <2>2, <3>2, <3>3 DEF DriverState
      <3>5. QED
        BY <3>1, <3>4
    <2>6. QED
      BY <2>3, <2>4, <2>5
  <1>8. TbdTail(p)' = TbdTail(p) /\ DriverHolds(p)'
    BY <1>2, <1>3, <1>5, <1>7 DEF DriverMoves, TbdTail, DriverHolds, Slot
  <1>9. output' \in [Port -> Slots(BUFFER_MAX)]
    BY <1>1, <1>5 DEF EthernetTypeOK
  <1>10. QED
    BY <1>3, <1>4, <1>5, <1>6, <1>8, <1>9, DriverGoesOn


LEMMA SameNic ==
  ASSUME EthernetTypeOK, NEW p \in Port, nic' = nic
  PROVE  NicMoves(nic, nic', p, nic[p].rx, nic[p].tx)
  BY DEF EthernetTypeOK, NicMoves

LEMMA CopiesOut ==
  ASSUME RingInv, NEW p \in Port, RxThrough(p) PROVE RingInv'
  <1>1. /\ EthernetTypeOK /\ eth[p].pc = "rx" /\ Slot(p).full
        /\ UNCHANGED <<arrived, rbd, tbd, nic, input, pass, pending>>
    BY DEF RingInv, RxThrough, At, world
  <1>2. NicMoves(nic, nic', p, nic[p].rx, nic[p].tx)
    BY <1>1, SameNic
  <1>3. PICK i \in 0 .. BUFFER_MAX - 1 : i = eth[p].output_index
    BY <1>1, StateFields
  <1>4. /\ rbd[p] \in Slots(RBD_COUNT) /\ eth[p].rbd_index \in 0 .. RBD_COUNT - 1
        /\ eth \in [Port -> DriverState] /\ output \in [Port -> Slots(BUFFER_MAX)]
    BY <1>1, StateFields DEF EthernetTypeOK
  <1>5. PICK frame \in Frame : frame = Slot(p).frame
    BY <1>4 DEF Slot, Slots, SlotState
  <1>6. CASE output[p][i].full
    <2>1. eth' = [eth EXCEPT ![p].pc = "avail"] /\ output' = output
      BY <1>3, <1>6 DEF RxThrough
    <2>2. DriverMoves(eth, eth', p, "avail", eth[p].rbd_index, eth[p].tbd_index,
                      eth[p].output_index, eth[p].input_index)
      BY <1>4, <2>1, DriverMoved DEF DriverLocation
    <2>3. TbdTail(p)' = TbdTail(p) /\ DriverHolds(p)'
      BY <1>1, <2>2 DEF DriverMoves, TbdTail, DriverHolds, Slot
    <2>4. output' \in [Port -> Slots(BUFFER_MAX)] /\ pending' \in [Port \cup {"pass"} -> SUBSET Nat]
      BY <1>1, <2>1 DEF EthernetTypeOK
    <2>5. QED
      BY <1>1, <1>2, <2>1, <2>2, <2>3, <2>4, DriverGoesOn
  <1>7. CASE ~output[p][i].full
    <2>1. /\ eth' = [eth EXCEPT ![p].pc = "publish"]
          /\ output' = [output EXCEPT ![p][i].frame = frame]
      BY <1>3, <1>5, <1>7 DEF RxThrough
    <2>2. DriverMoves(eth, eth', p, "publish", eth[p].rbd_index, eth[p].tbd_index,
                      eth[p].output_index, eth[p].input_index)
      BY <1>4, <2>1, DriverMoved DEF DriverLocation
    <2>3. SetsFlag(output, output', BUFFER_MAX, p, i, output[p][i].full)
      BY <1>4, <2>1, FlagSet
    <2>4. \A q \in Port : \A j \in 0 .. BUFFER_MAX - 1 : output'[q][j].full = output[q][j].full
      BY <2>3 DEF SetsFlag
    <2>5. TbdTail(p)' = TbdTail(p) /\ DriverHolds(p)'
      BY <1>1, <1>3, <1>7, <2>2, <2>4 DEF DriverMoves, TbdTail, DriverHolds, Slot
    <2>6. output' \in [Port -> Slots(BUFFER_MAX)] /\ pending' \in [Port \cup {"pass"} -> SUBSET Nat]
      BY <1>1, <2>3 DEF EthernetTypeOK, SetsFlag
    <2>7. QED
      BY <1>1, <1>2, <2>2, <2>4, <2>5, <2>6, DriverGoesOn
  <1>8. QED
    BY <1>6, <1>7

LEMMA KicksTx ==
  ASSUME RingInv, NEW p \in Port,
         \/ KickTx(p, "kick reply", "avail")
         \/ KickTx(p, "kick input", "free")
  PROVE  RingInv'
  <1>1. /\ EthernetTypeOK /\ eth[p].pc \in {"kick reply", "kick input"}
        /\ UNCHANGED <<arrived, rbd, tbd, output, input, pass, pending>>
    BY DEF RingInv, KickTx, At, world
  <1>2. eth \in [Port -> DriverState] /\ nic \in [Port -> NicState]
    BY <1>1 DEF EthernetTypeOK
  <1>3. NicMoves(nic, nic', p, nic[p].rx, nic[p].tx)
    BY <1>2, NicMoved DEF KickTx
  <1>4. PICK t \in 0 .. TBD_COUNT - 1 : t = After(eth[p].tbd_index, TBD_COUNT)
    BY <1>1, StateFields, Sizes
  <1>5. PICK loc \in {"avail", "free"} :
          /\ eth' = [eth EXCEPT ![p].tbd_index = t, ![p].pc = loc]
          /\ eth[p].pc = IF loc = "avail" THEN "kick reply" ELSE "kick input"
    BY <1>4 DEF KickTx, At
  <1>6. DriverMoves(eth, eth', p, loc, eth[p].rbd_index, t,
                    eth[p].output_index, eth[p].input_index)
    BY <1>2, <1>5, DriverMoved DEF DriverLocation
  <1>7. TbdTail(p)' = TbdTail(p) /\ DriverHolds(p)'
    BY <1>1, <1>4, <1>5, <1>6 DEF DriverMoves, TbdTail, DriverHolds, Slot, RingInv
  <1>8. output' \in [Port -> Slots(BUFFER_MAX)] /\ pending' \in [Port \cup {"pass"} -> SUBSET Nat]
    BY <1>1 DEF EthernetTypeOK
  <1>9. QED
    BY <1>1, <1>3, <1>6, <1>7, <1>8, DriverGoesOn

\* A frame received from the interface or from pass goes to the transmit ring.
LEMMA SendsFrame ==
  ASSUME RingInv, NEW p \in Port, NEW frame \in Frame, NEW kick, NEW next,
         SendFrame(p, frame, kick, next),
         \/ eth[p].pc = "rx" /\ Slot(p).full /\ kick = "kick reply" /\ next = "avail"
         \/ /\ eth[p].pc = "input" /\ input[p][eth[p].input_index].full
            /\ kick = "kick input" /\ next = "free"
  PROVE  RingInv'
  <1>1. /\ EthernetTypeOK
        /\ UNCHANGED <<arrived, rbd, nic, output, input, pass, pending>>
    BY DEF RingInv, SendFrame, world
  <1>2. NicMoves(nic, nic', p, nic[p].rx, nic[p].tx)
    BY <1>1, SameNic
  <1>3. PICK t \in 0 .. TBD_COUNT - 1 : t = eth[p].tbd_index
    BY <1>1, StateFields
  <1>4. /\ eth \in [Port -> DriverState] /\ tbd \in [Port -> Slots(TBD_COUNT)]
        /\ kick \in DriverLocation /\ next \in DriverLocation
        /\ output' \in [Port -> Slots(BUFFER_MAX)]
        /\ pending' \in [Port \cup {"pass"} -> SUBSET Nat]
    BY <1>1 DEF EthernetTypeOK, DriverLocation
  <1>5. CASE tbd[p][t].full
    <2>1. eth' = [eth EXCEPT ![p].pc = next] /\ tbd' = tbd
      BY <1>3, <1>5 DEF SendFrame
    <2>2. DriverMoves(eth, eth', p, next, eth[p].rbd_index, eth[p].tbd_index,
                      eth[p].output_index, eth[p].input_index)
      BY <1>4, <2>1, DriverMoved
    <2>3. TbdTail(p)' = TbdTail(p) /\ DriverHolds(p)'
      BY <1>1, <2>2 DEF DriverMoves, TbdTail, DriverHolds, Slot
    <2>4. QED
      BY <1>1, <1>2, <1>4, <2>1, <2>2, <2>3, DriverGoesOn
  <1>6. CASE ~tbd[p][t].full
    <2>1. /\ eth' = [eth EXCEPT ![p].pc = kick]
          /\ tbd' = [tbd EXCEPT ![p][t] = [full |-> TRUE, frame |-> frame]]
      BY <1>3, <1>6 DEF SendFrame
    <2>2. DriverMoves(eth, eth', p, kick, eth[p].rbd_index, t,
                      eth[p].output_index, eth[p].input_index)
      BY <1>3, <1>4, <2>1, DriverMoved
    <2>3. SetsFlag(tbd, tbd', TBD_COUNT, p, t, TRUE)
      BY <1>4, <2>1, FlagSet
    <2>4. EthernetTypeOK'
      BY <1>1, <2>2, <2>3 DEF EthernetTypeOK, DriverMoves, SetsFlag
    <2>5. Ring(tbd'[p], TBD_COUNT, nic[p].tx, After(t, TBD_COUNT))
      <3>1. Ring(tbd[p], TBD_COUNT, nic[p].tx, t) /\ tbd[p] \in Slots(TBD_COUNT)
        BY <1>3, <1>4 DEF RingInv, Rings, TbdTail
      <3>2. /\ tbd'[p] \in Slots(TBD_COUNT) /\ tbd'[p][t].full
            /\ \A j \in (0 .. TBD_COUNT - 1) \ {t} : tbd'[p][j].full = tbd[p][j].full
        BY <2>3 DEF SetsFlag
      <3>3. QED
        BY <1>1, <1>6, <3>1, <3>2, StateFields, Sizes, RingFill
    <2>6. TbdTail(p)' = After(t, TBD_COUNT)
      BY <2>2 DEF DriverMoves, TbdTail
    <2>7. ASSUME NEW q \in Port PROVE Rings(q)' /\ DriverHolds(q)' /\ PassHolds(q)'
      <3>1. CASE q = p
        BY <1>1, <2>2, <2>5, <2>6, <3>1
        DEF RingInv, Rings, DriverHolds, PassHolds, DriverMoves, Slot, OutputHead, InputTail,
            Copying
      <3>2. CASE q # p
        <4>1. eth'[q] = eth[q] /\ tbd'[q] = tbd[q]
          BY <2>2, <2>3, <3>2 DEF DriverMoves, SetsFlag
        <4>2. Rings(q)'
          BY <1>1, <4>1 DEF RingInv, Rings, OutputHead, InputTail, TbdTail, Copying
        <4>3. DriverHolds(q)' /\ PassHolds(q)'
          BY <1>1, <4>1 DEF RingInv, DriverHolds, PassHolds, Slot, Copying
        <4>4. QED
          BY <4>2, <4>3
      <3>3. QED
        BY <3>1, <3>2
    <2>8. QED
      BY <2>4, <2>7 DEF RingInv
  <1>7. QED
    BY <1>5, <1>6

\* The driver publishes the frame in the slot it has written.
LEMMA PublishesOut ==
  ASSUME RingInv, NEW p \in Port, Publish(p) PROVE RingInv'
  <1>1. /\ EthernetTypeOK /\ eth[p].pc = "publish"
        /\ UNCHANGED <<arrived, rbd, tbd, nic, input, pass, pending>>
    BY DEF RingInv, Publish, At, world
  <1>2. PICK o \in 0 .. BUFFER_MAX - 1 : o = eth[p].output_index
    BY <1>1, StateFields
  <1>3. PICK n \in 0 .. BUFFER_MAX - 1 : n = After(o, BUFFER_MAX)
    BY <1>1, <1>2, Sizes
  <1>4. eth \in [Port -> DriverState] /\ output \in [Port -> Slots(BUFFER_MAX)]
    BY <1>1 DEF EthernetTypeOK
  <1>5. DriverMoves(eth, eth', p, "notify", eth[p].rbd_index, eth[p].tbd_index,
                    n, eth[p].input_index)
    <2>1. eth' = [eth EXCEPT ![p].output_index = n, ![p].pc = "notify"]
      BY <1>2, <1>3 DEF Publish
    <2>2. QED
      BY <1>4, <2>1, DriverMoved DEF DriverLocation
  <1>6. SetsFlag(output, output', BUFFER_MAX, p, o, TRUE)
    BY <1>2, <1>4, FlagSet DEF Publish
  <1>7. EthernetTypeOK'
    BY <1>1, <1>5, <1>6 DEF EthernetTypeOK, DriverMoves, SetsFlag
  <1>8. Ring(output'[p], BUFFER_MAX, OutputHead(p), n)
    <2>1. /\ Ring(output[p], BUFFER_MAX, OutputHead(p), o) /\ ~output[p][o].full
          /\ output[p] \in Slots(BUFFER_MAX) /\ OutputHead(p) \in 0 .. BUFFER_MAX - 1
      BY <1>1, <1>2, <1>4, StateFields DEF RingInv, Rings, DriverHolds, OutputHead
    <2>2. /\ output'[p] \in Slots(BUFFER_MAX) /\ output'[p][o].full
          /\ \A j \in (0 .. BUFFER_MAX - 1) \ {o} : output'[p][j].full = output[p][j].full
      BY <1>6 DEF SetsFlag
    <2>3. QED
      BY <1>3, <2>1, <2>2, Sizes, RingFill
  <1>9. ASSUME NEW q \in Port PROVE Rings(q)' /\ DriverHolds(q)' /\ PassHolds(q)'
    <2>1. Rings(q)'
      <3>1. CASE q = p
        BY <1>1, <1>5, <1>8, <3>1
        DEF RingInv, Rings, DriverMoves, OutputHead, InputTail, TbdTail, Copying
      <3>2. CASE q # p
        <4>1. eth'[q] = eth[q] /\ output'[q] = output[q]
          BY <1>5, <1>6, <3>2 DEF DriverMoves, SetsFlag
        <4>2. QED
          BY <1>1, <4>1 DEF RingInv, Rings, OutputHead, InputTail, TbdTail, Copying
      <3>3. QED
        BY <3>1, <3>2
    <2>2. DriverHolds(q)'
      <3>1. CASE q = p
        BY <1>1, <1>5, <3>1 DEF RingInv, DriverHolds, DriverMoves, Slot
      <3>2. CASE q # p
        <4>1. eth'[q] = eth[q] /\ output'[q] = output[q]
          BY <1>5, <1>6, <3>2 DEF DriverMoves, SetsFlag
        <4>2. QED
          BY <1>1, <4>1 DEF RingInv, DriverHolds, Slot
      <3>3. QED
        BY <3>1, <3>2
    <2>3. PassHolds(q)'
      <3>1. \A i \in 0 .. BUFFER_MAX - 1 : output[q][i].full => output'[q][i].full
        BY <1>6 DEF SetsFlag
      <3>2. QED
        BY <1>1, <3>1, StateFields DEF RingInv, PassHolds, Copying
    <2>4. QED
      BY <2>1, <2>2, <2>3
  <1>10. QED
    BY <1>7, <1>9 DEF RingInv

\* The driver gives a buffer back to the interface.
LEMMA MakesAvailable ==
  ASSUME RingInv, NEW p \in Port, MakeAvail(p) PROVE RingInv'
  <1>1. /\ EthernetTypeOK /\ eth[p].pc = "avail"
        /\ UNCHANGED <<arrived, tbd, nic, output, input, pass, pending>>
    BY DEF RingInv, MakeAvail, At, world
  <1>2. PICK r \in 0 .. RBD_COUNT - 1 : r = eth[p].rbd_index
    BY <1>1, StateFields
  <1>3. PICK n \in 0 .. RBD_COUNT - 1 : n = After(r, RBD_COUNT)
    BY <1>1, <1>2, Sizes
  <1>4. eth \in [Port -> DriverState] /\ rbd \in [Port -> Slots(RBD_COUNT)]
    BY <1>1 DEF EthernetTypeOK
  <1>5. DriverMoves(eth, eth', p, "rx", n, eth[p].tbd_index,
                    eth[p].output_index, eth[p].input_index)
    <2>1. eth' = [eth EXCEPT ![p].rbd_index = n, ![p].pc = "rx"]
      BY <1>2, <1>3 DEF MakeAvail
    <2>2. QED
      BY <1>4, <2>1, DriverMoved DEF DriverLocation
  <1>6. SetsFlag(rbd, rbd', RBD_COUNT, p, r, FALSE)
    BY <1>2, <1>4, FlagSet DEF MakeAvail
  <1>7. EthernetTypeOK'
    BY <1>1, <1>5, <1>6 DEF EthernetTypeOK, DriverMoves, SetsFlag
  <1>8. Ring(rbd'[p], RBD_COUNT, n, nic[p].rx)
    <2>1. /\ Ring(rbd[p], RBD_COUNT, r, nic[p].rx) /\ rbd[p][r].full
          /\ rbd[p] \in Slots(RBD_COUNT) /\ nic[p].rx \in 0 .. RBD_COUNT - 1
      BY <1>1, <1>2, <1>4, StateFields DEF RingInv, Rings, DriverHolds, Slot
    <2>2. /\ rbd'[p] \in Slots(RBD_COUNT) /\ ~rbd'[p][r].full
          /\ \A j \in (0 .. RBD_COUNT - 1) \ {r} : rbd'[p][j].full = rbd[p][j].full
      BY <1>6 DEF SetsFlag
    <2>3. QED
      BY <1>3, <2>1, <2>2, Sizes, RingEmpty
  <1>9. ASSUME NEW q \in Port PROVE Rings(q)' /\ DriverHolds(q)' /\ PassHolds(q)'
    <2>1. CASE q = p
      BY <1>1, <1>5, <1>8, <2>1
      DEF RingInv, Rings, DriverHolds, PassHolds, DriverMoves, Slot, OutputHead, InputTail,
          TbdTail, Copying
    <2>2. CASE q # p
      <3>1. eth'[q] = eth[q] /\ rbd'[q] = rbd[q]
        BY <1>5, <1>6, <2>2 DEF DriverMoves, SetsFlag
      <3>2. Rings(q)'
        BY <1>1, <3>1 DEF RingInv, Rings, OutputHead, InputTail, TbdTail, Copying
      <3>3. DriverHolds(q)' /\ PassHolds(q)'
        BY <1>1, <3>1 DEF RingInv, DriverHolds, PassHolds, Slot, Copying
      <3>4. QED
        BY <3>2, <3>3
    <2>3. QED
      BY <2>1, <2>2
  <1>10. QED
    BY <1>7, <1>9 DEF RingInv

\* The driver gives a buffer back to pass.
LEMMA FreesInput ==
  ASSUME RingInv, NEW p \in Port, FreeInput(p) PROVE RingInv'
  <1>1. /\ EthernetTypeOK /\ eth[p].pc = "free"
        /\ UNCHANGED <<arrived, rbd, tbd, nic, output, pass, pending>>
    BY DEF RingInv, FreeInput, At, world
  <1>2. PICK i \in 0 .. BUFFER_MAX - 1 : i = eth[p].input_index
    BY <1>1, StateFields
  <1>3. PICK n \in 0 .. BUFFER_MAX - 1 : n = After(i, BUFFER_MAX)
    BY <1>1, <1>2, Sizes
  <1>4. eth \in [Port -> DriverState] /\ input \in [Port -> Slots(BUFFER_MAX)]
    BY <1>1 DEF EthernetTypeOK
  <1>5. DriverMoves(eth, eth', p, "input", eth[p].rbd_index, eth[p].tbd_index,
                    eth[p].output_index, n)
    <2>1. eth' = [eth EXCEPT ![p].input_index = n, ![p].pc = "input"]
      BY <1>2, <1>3 DEF FreeInput
    <2>2. QED
      BY <1>4, <2>1, DriverMoved DEF DriverLocation
  <1>6. SetsFlag(input, input', BUFFER_MAX, p, i, FALSE)
    BY <1>2, <1>4, FlagSet DEF FreeInput
  <1>7. EthernetTypeOK'
    BY <1>1, <1>5, <1>6 DEF EthernetTypeOK, DriverMoves, SetsFlag
  <1>8. Ring(input'[p], BUFFER_MAX, n, InputTail(p))
    <2>1. /\ Ring(input[p], BUFFER_MAX, i, InputTail(p)) /\ input[p][i].full
          /\ input[p] \in Slots(BUFFER_MAX)
      BY <1>1, <1>2, <1>4 DEF RingInv, Rings, DriverHolds
    <2>2. /\ input'[p] \in Slots(BUFFER_MAX) /\ ~input'[p][i].full
          /\ \A j \in (0 .. BUFFER_MAX - 1) \ {i} : input'[p][j].full = input[p][j].full
      BY <1>6 DEF SetsFlag
    <2>3. InputTail(p) \in 0 .. BUFFER_MAX - 1
      BY <1>1, StateFields, Sizes DEF InputTail
    <2>4. QED
      BY <1>3, <2>1, <2>2, <2>3, Sizes, RingEmpty
  <1>9. ASSUME NEW q \in Port PROVE Rings(q)' /\ DriverHolds(q)' /\ PassHolds(q)'
    <2>1. Rings(q)'
      <3>1. CASE q = p
        BY <1>1, <1>5, <1>8, <3>1
        DEF RingInv, Rings, DriverMoves, OutputHead, InputTail, TbdTail, Copying
      <3>2. CASE q # p
        <4>1. eth'[q] = eth[q] /\ input'[q] = input[q]
          BY <1>5, <1>6, <3>2 DEF DriverMoves, SetsFlag
        <4>2. QED
          BY <1>1, <4>1 DEF RingInv, Rings, OutputHead, InputTail, TbdTail, Copying
      <3>3. QED
        BY <3>1, <3>2
    <2>2. DriverHolds(q)'
      <3>1. CASE q = p
        BY <1>1, <1>5, <3>1 DEF RingInv, DriverHolds, DriverMoves, Slot
      <3>2. CASE q # p
        <4>1. eth'[q] = eth[q] /\ input'[q] = input[q]
          BY <1>5, <1>6, <3>2 DEF DriverMoves, SetsFlag
        <4>2. QED
          BY <1>1, <4>1 DEF RingInv, DriverHolds, Slot
      <3>3. QED
        BY <3>1, <3>2
    <2>3. PassHolds(q)'
      <3>1. \A x \in Port : \A j \in 0 .. BUFFER_MAX - 1 : ~input[x][j].full => ~input'[x][j].full
        BY <1>6 DEF SetsFlag
      <3>2. Other(q) \in Port
        BY PortsDiffer
      <3>3. QED
        BY <1>1, <3>1, <3>2, StateFields DEF RingInv, PassHolds, Copying
    <2>4. QED
      BY <2>1, <2>2, <2>3
  <1>10. QED
    BY <1>7, <1>9 DEF RingInv

LEMMA DriverStep == ASSUME RingInv, NEW p \in Port, DriverNext(p) PROVE RingInv'
  <1>1. CASE RxRequest(p)
    <2>1. CASE KickTx(p, "kick reply", "avail")
      BY <2>1, KicksTx
    <2>2. CASE ~KickTx(p, "kick reply", "avail")
      <3>1. /\ eth[p].pc = "rx" /\ Slot(p).full
            /\ SendFrame(p, Slot(p).frame, "kick reply", "avail")
        BY <1>1, <2>2 DEF RxRequest, At
      <3>2. PICK frame \in Frame : frame = Slot(p).frame
        BY StateFields, ZenonT(40) DEF RingInv, EthernetTypeOK, Slot, Slots, SlotState
      <3>3. SendFrame(p, frame, "kick reply", "avail")
        BY <3>1, <3>2
      <3>4. QED
        BY <3>1, <3>3, SendsFrame
    <2>3. QED
      BY <2>1, <2>2
  <1>2. CASE SendInput(p)
    <2>1. CASE KickTx(p, "kick input", "free")
      BY <2>1, KicksTx
    <2>2. CASE ~KickTx(p, "kick input", "free")
      <3>1. /\ eth[p].pc = "input" /\ input[p][eth[p].input_index].full
            /\ SendFrame(p, input[p][eth[p].input_index].frame, "kick input", "free")
        BY <1>2, <2>2 DEF SendInput, At
      <3>2. PICK frame \in Frame : frame = input[p][eth[p].input_index].frame
        BY StateFields DEF RingInv, EthernetTypeOK, Slots, SlotState
      <3>3. SendFrame(p, frame, "kick input", "free")
        BY <3>1, <3>2
      <3>4. QED
        BY <3>1, <3>3, SendsFrame
    <2>3. QED
      BY <2>1, <2>2
  <1>3. QED
    BY <1>1, <1>2, TakesNotification, DriverTurns, CopiesOut, PublishesOut, MakesAvailable,
       FreesInput
    DEF DriverNext
-----------------------------------------------------------------------------
(***************************************************************************)
(* The steps of pass.                                                      *)
(***************************************************************************)

\* pass gets from state s to n, at loc.
PassIs(n, loc, port, bd, in, out) ==
  /\ n \in PassState
  /\ n.pc = loc /\ n.port = port /\ n.bd = bd
  /\ n.input_index = in /\ n.output_index = out

LEMMA PassMoved ==
  ASSUME NEW s \in PassState, NEW loc \in PassLocation, NEW n, NEW q \in Port,
         NEW i \in 0 .. BUFFER_MAX - 1
  PROVE  /\ n = [s EXCEPT !.pc = loc]
              => PassIs(n, loc, s.port, s.bd, s.input_index, s.output_index)
         /\ \A d \in SUBSET Nat :
              n = [s EXCEPT !.todo = d, !.pc = loc, !.port = q]
                => PassIs(n, loc, q, s.bd, s.input_index, s.output_index)
         /\ \A b \in 0 .. BUFFER_MAX - 1 :
              n = [[s EXCEPT !.bd = b, !.input_index[q] = i] EXCEPT !.pc = loc]
                => PassIs(n, loc, s.port, b, [s.input_index EXCEPT ![q] = i], s.output_index)
         /\ n = [s EXCEPT !.pc = loc, !.output_index[q] = i]
              => PassIs(n, loc, s.port, s.bd, s.input_index, [s.output_index EXCEPT ![q] = i])
  <1> USE DEF PassIs, PassState, PassIndices
  <1>1. n = [s EXCEPT !.pc = loc]
          => PassIs(n, loc, s.port, s.bd, s.input_index, s.output_index)
    OBVIOUS
  <1>2. ASSUME NEW d \in SUBSET Nat, n = [s EXCEPT !.todo = d, !.pc = loc, !.port = q]
        PROVE  PassIs(n, loc, q, s.bd, s.input_index, s.output_index)
    BY <1>2
  <1>3. ASSUME NEW b \in 0 .. BUFFER_MAX - 1,
               n = [[s EXCEPT !.bd = b, !.input_index[q] = i] EXCEPT !.pc = loc]
        PROVE  PassIs(n, loc, s.port, b, [s.input_index EXCEPT ![q] = i], s.output_index)
    BY <1>3
  <1>4. ASSUME n = [s EXCEPT !.pc = loc, !.output_index[q] = i]
        PROVE  PassIs(n, loc, s.port, s.bd, s.input_index, [s.output_index EXCEPT ![q] = i])
    BY <1>4
  <1> HIDE DEF PassIs
  <1>5. QED
    BY <1>1, <1>2, <1>3, <1>4, Zenon

\* A step of pass that leaves the drivers, the interfaces and all the flags.
LEMMA PassGoesOn ==
  ASSUME RingInv, pass' \in PassState, pending' \in [Port \cup {"pass"} -> SUBSET Nat],
         input' \in [Port -> Slots(BUFFER_MAX)],
         \A q \in Port : \A i \in 0 .. BUFFER_MAX - 1 : input'[q][i].full = input[q][i].full,
         UNCHANGED <<arrived, rbd, tbd, nic, output, eth>>,
         \A q \in Port : /\ OutputHead(q)' = OutputHead(q)
                         /\ InputTail(q)' = InputTail(q)
                         /\ PassHolds(q)'
  PROVE  RingInv'
  <1>1. EthernetTypeOK'
    BY DEF RingInv, EthernetTypeOK
  <1>2. ASSUME NEW q \in Port PROVE Rings(q)' /\ DriverHolds(q)'
    <2>1. Ring(input'[q], BUFFER_MAX, eth[q].input_index, InputTail(q))
      BY RingSame DEF RingInv, Rings
    <2>2. Rings(q)'
      BY <2>1 DEF RingInv, Rings, TbdTail
    <2>3. DriverHolds(q)'
      BY StateFields DEF RingInv, DriverHolds, Slot
    <2>4. QED
      BY <2>2, <2>3
  <1>3. QED
    BY <1>1, <1>2 DEF RingInv

LEMMA PassTurns ==
  ASSUME RingInv, PassNotified \/ PassDone PROVE RingInv'
  <1>1. /\ EthernetTypeOK /\ pass \in PassState /\ pass.pc \in {"loop", "next"}
        /\ UNCHANGED <<arrived, rbd, tbd, nic, output, input, eth>>
    BY DEF RingInv, EthernetTypeOK, PassNotified, PassDone, world
  <1>2. /\ pass' \in PassState /\ pass'.pc \in {"loop", "next"}
        /\ pass'.input_index = pass.input_index /\ pass'.output_index = pass.output_index
    <2>1. CASE PassNotified
      <3>1. pending["pass"] \in SUBSET Nat /\ pass.todo \in SUBSET Nat
        BY <1>1, StateFields DEF EthernetTypeOK, Port
      <3>2. PICK d \in SUBSET Nat, q \in Port :
              pass' = [pass EXCEPT !.todo = d, !.pc = "next", !.port = q]
        BY <2>1, <3>1 DEF PassNotified, Port
      <3>3. "next" \in PassLocation
        BY DEF PassLocation
      <3>4. PICK i \in 0 .. BUFFER_MAX - 1 : i = pass.bd
        BY <1>1, StateFields
      <3>5. PassIs(pass', "next", q, pass.bd, pass.input_index, pass.output_index)
        BY <1>1, <3>2, <3>3, PassMoved
      <3>6. QED
        BY <3>5 DEF PassIs
    <2>2. CASE PassDone
      <3>1. pass' = [pass EXCEPT !.pc = "loop"] /\ "loop" \in PassLocation
        BY <2>2 DEF PassDone, PassLocation
      <3>2. QED
        BY <1>1, <3>1 DEF PassState
    <2>3. QED
      BY <2>1, <2>2
  <1>3. pending' \in [Port \cup {"pass"} -> SUBSET Nat]
    <2>1. pending' = pending \/ pending' = [pending EXCEPT !["pass"] = {}]
      BY DEF PassNotified, PassDone
    <2>2. "pass" \in Port \cup {"pass"} /\ 0 \in Nat
      OBVIOUS
    <2>3. QED
      BY <1>1, <2>1, <2>2, PendingUpdates DEF EthernetTypeOK
  <1>4. \A q \in Port : /\ OutputHead(q)' = OutputHead(q)
                        /\ InputTail(q)' = InputTail(q)
                        /\ PassHolds(q)'
    BY <1>1, <1>2 DEF OutputHead, InputTail, PassHolds, Copying
  <1>5. input' \in [Port -> Slots(BUFFER_MAX)]
    BY <1>1 DEF EthernetTypeOK
  <1>6. QED
    BY <1>1, <1>2, <1>3, <1>4, <1>5, PassGoesOn

\* pass takes a slot of one ring and writes the frame into a slot of another.
LEMMA PassCopies ==
  ASSUME RingInv, PassCopy PROVE RingInv'
  <1>1. /\ EthernetTypeOK /\ pass \in PassState /\ pass.pc = "next"
        /\ input \in [Port -> Slots(BUFFER_MAX)] /\ output \in [Port -> Slots(BUFFER_MAX)]
        /\ UNCHANGED <<arrived, rbd, tbd, nic, output, eth, pending>>
    BY DEF RingInv, EthernetTypeOK, PassCopy, world
  <1>2. PICK from \in Port : from = pass.port
    BY <1>1 DEF PassState
  <1>3. PICK to \in Port : to = Other(from) /\ from # to
    BY PortsDiffer
  <1>4. PICK bd \in 0 .. BUFFER_MAX - 1 : bd = pass.input_index[from]
    BY <1>1 DEF PassState, PassIndices
  <1>5. PICK obd \in 0 .. BUFFER_MAX - 1 : obd = pass.output_index[to]
    BY <1>1 DEF PassState, PassIndices
  <1>6. PICK n \in 0 .. BUFFER_MAX - 1 : n = After(bd, BUFFER_MAX)
    BY <1>1, Sizes
  <1>7. output[from][bd].full
    BY <1>2, <1>4 DEF PassCopy
  <1>8. PICK frame \in Frame : frame = output[from][bd].frame
    BY <1>1 DEF Slots, SlotState
  <1> DEFINE taken == [pass EXCEPT !.bd = bd, !.input_index[from] = n]
  <1>9. \/ input[to][obd].full /\ input' = input /\ pass' = [taken EXCEPT !.pc = "free"]
        \/ /\ ~input[to][obd].full /\ pass' = [taken EXCEPT !.pc = "publish"]
           /\ input' = [input EXCEPT ![to][obd].frame = frame]
    BY <1>2, <1>3, <1>4, <1>5, <1>6, <1>8, Zenon DEF PassCopy
  <1>10. PICK loc \in {"free", "publish"} :
           /\ PassIs(pass', loc, from, bd, [pass.input_index EXCEPT ![from] = n], pass.output_index)
           /\ loc = "publish" => ~input[to][obd].full
    <2>1. PICK loc \in {"free", "publish"} :
            pass' = [taken EXCEPT !.pc = loc] /\ (loc = "publish" => ~input[to][obd].full)
      BY <1>9, Zenon
    <2>2. loc \in PassLocation
      BY DEF PassLocation
    <2>3. PassIs(pass', loc, pass.port, bd, [pass.input_index EXCEPT ![from] = n],
                 pass.output_index)
      BY <1>1, <2>1, <2>2, PassMoved
    <2>4. QED
      BY <1>2, <2>1, <2>3
  <1> HIDE DEF taken
  <1>11. /\ input' \in [Port -> Slots(BUFFER_MAX)]
         /\ \A q \in Port : \A i \in 0 .. BUFFER_MAX - 1 : input'[q][i].full = input[q][i].full
    <2>1. CASE input' = input
      BY <1>1, <2>1
    <2>2. CASE input' = [input EXCEPT ![to][obd].frame = frame]
      <3>1. SetsFlag(input, input', BUFFER_MAX, to, obd, input[to][obd].full)
        BY <1>1, <2>2, FlagSet
      <3>2. QED
        BY <3>1 DEF SetsFlag
    <2>3. QED
      BY <1>9, <2>1, <2>2
  <1>12. /\ pass'.input_index[from] = n /\ pass'.output_index = pass.output_index
         /\ \A q \in Port : q # from => pass'.input_index[q] = pass.input_index[q]
         /\ pass'.pc = loc /\ pass'.port = from /\ pass'.bd = bd /\ pass' \in PassState
    BY <1>1, <1>10 DEF PassIs, PassState, PassIndices
  <1>13. ASSUME NEW q \in Port
         PROVE  /\ OutputHead(q)' = OutputHead(q)
                /\ InputTail(q)' = InputTail(q)
                /\ PassHolds(q)'
    <2>1. OutputHead(q)' = OutputHead(q) /\ InputTail(q)' = InputTail(q)
      BY <1>1, <1>2, <1>4, <1>12 DEF OutputHead, InputTail, Copying
    <2>2. PassHolds(q)'
      <3>1. CASE q = from
        BY <1>1, <1>3, <1>5, <1>6, <1>7, <1>10, <1>11, <1>12, <3>1 DEF PassHolds, Copying
      <3>2. CASE q # from
        BY <1>12, <3>2 DEF PassHolds, Copying
      <3>3. QED
        BY <3>1, <3>2
    <2>3. QED
      BY <2>1, <2>2
  <1>14. pending' \in [Port \cup {"pass"} -> SUBSET Nat]
    BY <1>1 DEF EthernetTypeOK
  <1>15. QED
    BY <1>1, <1>11, <1>12, <1>13, <1>14, PassGoesOn

\* pass publishes the frame in the slot it has written.
LEMMA PassPublishes ==
  ASSUME RingInv, PassPublish PROVE RingInv'
  <1>1. /\ EthernetTypeOK /\ pass \in PassState /\ pass.pc = "publish"
        /\ input \in [Port -> Slots(BUFFER_MAX)]
        /\ UNCHANGED <<arrived, rbd, tbd, nic, output, eth, pending>>
    BY DEF RingInv, EthernetTypeOK, PassPublish, world
  <1>2. PICK from \in Port : from = pass.port
    BY <1>1 DEF PassState
  <1>3. PICK to \in Port : to = Other(from) /\ from # to /\ Other(to) = from
    BY PortsDiffer
  <1>4. PICK obd \in 0 .. BUFFER_MAX - 1 : obd = pass.output_index[to]
    BY <1>1 DEF PassState, PassIndices
  <1>5. PassIs(pass', "notify", from, pass.bd, pass.input_index, pass.output_index)
    <2>1. pass' = [pass EXCEPT !.pc = "notify"] /\ "notify" \in PassLocation
      BY DEF PassPublish, PassLocation
    <2>2. QED
      BY <1>1, <1>2, <1>4, <2>1, PassMoved
  <1>6. SetsFlag(input, input', BUFFER_MAX, to, obd, TRUE)
    BY <1>1, <1>2, <1>3, <1>4, FlagSet DEF PassPublish
  <1>7. EthernetTypeOK'
    BY <1>1, <1>5, <1>6 DEF EthernetTypeOK, PassIs, SetsFlag
  <1>8. Ring(input'[to], BUFFER_MAX, eth[to].input_index, After(obd, BUFFER_MAX))
    <2>1. PassHolds(from) /\ Copying(from) /\ Rings(to)
      BY <1>1, <1>2 DEF RingInv, Copying
    <2>2. /\ Ring(input[to], BUFFER_MAX, eth[to].input_index, obd) /\ ~input[to][obd].full
          /\ input[to] \in Slots(BUFFER_MAX)
      BY <1>1, <1>3, <1>4, <2>1 DEF Rings, InputTail, PassHolds
    <2>3. /\ input'[to] \in Slots(BUFFER_MAX) /\ input'[to][obd].full
          /\ \A j \in (0 .. BUFFER_MAX - 1) \ {obd} : input'[to][j].full = input[to][j].full
      BY <1>6 DEF SetsFlag
    <2>4. QED
      BY <1>1, <2>2, <2>3, StateFields, Sizes, RingFill
  <1>9. ASSUME NEW q \in Port PROVE Rings(q)' /\ DriverHolds(q)' /\ PassHolds(q)'
    <2>1. OutputHead(q)' = OutputHead(q)
      BY <1>1, <1>2, <1>5 DEF OutputHead, Copying, PassIs
    <2>3. Ring(input'[q], BUFFER_MAX, eth[q].input_index, InputTail(q)')
      <3>1. CASE q = to
        <4>1. InputTail(q)' = After(obd, BUFFER_MAX)
          BY <1>2, <1>3, <1>4, <1>5, <3>1 DEF InputTail, Copying, PassIs
        <4>2. QED
          BY <1>8, <3>1, <4>1
      <3>2. CASE q # to
        <4>1. input'[q] = input[q] /\ q = from
          BY <1>3, <1>6, <3>2 DEF SetsFlag, Port
        <4>2. InputTail(q)' = InputTail(q)
          BY <1>2, <1>3, <1>5, <4>1 DEF InputTail, Copying, PassIs
        <4>3. QED
          BY <4>1, <4>2 DEF RingInv, Rings
      <3>3. QED
        BY <3>1, <3>2
    <2>4. Rings(q)'
      BY <1>1, <2>1, <2>3 DEF RingInv, Rings, TbdTail
    <2>5. DriverHolds(q)'
      <3>1. \A x \in Port : \A j \in 0 .. BUFFER_MAX - 1 : input[x][j].full => input'[x][j].full
        BY <1>6 DEF SetsFlag
      <3>2. QED
        BY <1>1, <3>1, StateFields DEF RingInv, DriverHolds, Slot
    <2>6. PassHolds(q)'
      BY <1>1, <1>2, <1>5 DEF RingInv, PassHolds, Copying, PassIs
    <2>7. QED
      BY <2>4, <2>5, <2>6
  <1>10. QED
    BY <1>7, <1>9 DEF RingInv

\* pass advances its index into the ring it has written to.
LEMMA PassNotifies ==
  ASSUME RingInv, PassNotify PROVE RingInv'
  <1>1. /\ EthernetTypeOK /\ pass \in PassState /\ pass.pc = "notify"
        /\ UNCHANGED <<arrived, rbd, tbd, nic, output, input, eth>>
    BY DEF RingInv, EthernetTypeOK, PassNotify, world
  <1>2. PICK from \in Port : from = pass.port
    BY <1>1 DEF PassState
  <1>3. PICK to \in Port : to = Other(from) /\ from # to /\ Other(to) = from
    BY PortsDiffer
  <1>4. PICK n \in 0 .. BUFFER_MAX - 1 : n = After(pass.output_index[to], BUFFER_MAX)
    BY <1>1, StateFields, Sizes
  <1>5. PassIs(pass', "free", from, pass.bd, pass.input_index,
               [pass.output_index EXCEPT ![to] = n])
    <2>1. pass' = [pass EXCEPT !.pc = "free", !.output_index[to] = n]
      BY <1>1, <1>2, <1>3, <1>4 DEF PassNotify, PassState, PassIndices
    <2>2. "free" \in PassLocation
      BY DEF PassLocation
    <2>3. PassIs(pass', "free", pass.port, pass.bd, pass.input_index,
                 [pass.output_index EXCEPT ![to] = n])
      BY <1>1, <2>1, <2>2, PassMoved
    <2>4. QED
      BY <1>2, <2>3
  <1>6. pending' \in [Port \cup {"pass"} -> SUBSET Nat]
    <2>1. pending' = [pending EXCEPT ![to] = @ \cup {2}]
      BY <1>2, <1>3 DEF PassNotify, INPUT_CH
    <2>2. to \in Port \cup {"pass"} /\ 2 \in Nat
      OBVIOUS
    <2>3. QED
      BY <1>1, <2>1, <2>2, PendingUpdates
  <1>7. /\ pass' \in PassState /\ pass'.output_index[to] = n
        /\ \A q \in Port \ {to} : pass'.output_index[q] = pass.output_index[q]
        /\ pass'.pc = "free" /\ pass'.port = from /\ pass'.bd = pass.bd
        /\ pass'.input_index = pass.input_index
    BY <1>1, <1>5 DEF PassIs, PassState, PassIndices
  <1>8. ASSUME NEW q \in Port
        PROVE  /\ OutputHead(q)' = OutputHead(q)
               /\ InputTail(q)' = InputTail(q)
               /\ PassHolds(q)'
    <2>1. OutputHead(q)' = OutputHead(q)
      BY <1>1, <1>2, <1>7 DEF OutputHead, Copying
    <2>2. InputTail(q)' = InputTail(q)
      <3>1. CASE q = to
        BY <1>1, <1>2, <1>3, <1>4, <1>7, <3>1 DEF InputTail, Copying
      <3>2. CASE q # to
        <4>1. q = from
          BY <1>3, <3>2 DEF Port
        <4>2. QED
          BY <1>1, <1>2, <1>3, <1>7, <3>2, <4>1 DEF InputTail, Copying
      <3>3. QED
        BY <3>1, <3>2
    <2>3. PassHolds(q)'
      BY <1>1, <1>2, <1>7 DEF RingInv, PassHolds, Copying
    <2>4. QED
      BY <2>1, <2>2, <2>3
  <1>9. input' \in [Port -> Slots(BUFFER_MAX)]
    BY <1>1 DEF EthernetTypeOK
  <1>10. QED
    BY <1>1, <1>6, <1>7, <1>8, <1>9, PassGoesOn

\* pass gives the slot back to the driver.
LEMMA PassFrees ==
  ASSUME RingInv, PassFree PROVE RingInv'
  <1>1. /\ EthernetTypeOK /\ pass \in PassState /\ pass.pc = "free"
        /\ output \in [Port -> Slots(BUFFER_MAX)]
        /\ UNCHANGED <<arrived, rbd, tbd, nic, input, eth, pending>>
    BY DEF RingInv, EthernetTypeOK, PassFree, world
  <1>2. PICK from \in Port : from = pass.port
    BY <1>1 DEF PassState
  <1>3. PICK bd \in 0 .. BUFFER_MAX - 1 : bd = pass.bd
    BY <1>1 DEF PassState
  <1>4. PassIs(pass', "next", from, bd, pass.input_index, pass.output_index)
    <2>1. pass' = [pass EXCEPT !.pc = "next"] /\ "next" \in PassLocation
      BY DEF PassFree, PassLocation
    <2>2. QED
      BY <1>1, <1>2, <1>3, <2>1, PassMoved
  <1>5. SetsFlag(output, output', BUFFER_MAX, from, bd, FALSE)
    BY <1>1, <1>2, <1>3, FlagSet DEF PassFree
  <1>6. EthernetTypeOK'
    BY <1>1, <1>4, <1>5 DEF EthernetTypeOK, PassIs, SetsFlag
  <1>7. Copying(from) /\ PassHolds(from) /\ Rings(from)
    BY <1>1, <1>2 DEF RingInv, Copying
  <1>8. Ring(output'[from], BUFFER_MAX, pass.input_index[from], eth[from].output_index)
    <2>1. /\ Ring(output[from], BUFFER_MAX, bd, eth[from].output_index)
          /\ output[from][bd].full /\ output[from] \in Slots(BUFFER_MAX)
          /\ pass.input_index[from] = After(bd, BUFFER_MAX)
      BY <1>1, <1>3, <1>7 DEF Rings, OutputHead, PassHolds
    <2>2. /\ output'[from] \in Slots(BUFFER_MAX) /\ ~output'[from][bd].full
          /\ \A j \in (0 .. BUFFER_MAX - 1) \ {bd} : output'[from][j].full = output[from][j].full
      BY <1>5 DEF SetsFlag
    <2>3. BUFFER_MAX \in Nat \ {0} /\ eth[from].output_index \in 0 .. BUFFER_MAX - 1
      BY <1>1, StateFields, Sizes
    <2>4. Ring(output'[from], BUFFER_MAX, After(bd, BUFFER_MAX), eth[from].output_index)
      BY <2>1, <2>2, <2>3, RingEmpty
    <2>5. QED
      BY <2>1, <2>4
  <1>9. ASSUME NEW q \in Port PROVE Rings(q)' /\ DriverHolds(q)' /\ PassHolds(q)'
    <2>1. OutputHead(q)' = pass.input_index[q] /\ PassHolds(q)'
      BY <1>4 DEF OutputHead, PassHolds, Copying, PassIs
    <2>2. InputTail(q)' = InputTail(q)
      BY <1>1, <1>4 DEF InputTail, Copying, PassIs
    <2>3. Ring(output'[q], BUFFER_MAX, pass.input_index[q], eth[q].output_index)
      <3>1. CASE q = from
        BY <1>8, <3>1
      <3>2. CASE q # from
        <4>1. output'[q] = output[q] /\ OutputHead(q) = pass.input_index[q]
          BY <1>2, <1>5, <3>2 DEF SetsFlag, OutputHead, Copying
        <4>2. QED
          BY <4>1 DEF RingInv, Rings
      <3>3. QED
        BY <3>1, <3>2
    <2>4. Rings(q)'
      BY <1>1, <2>1, <2>2, <2>3 DEF RingInv, Rings, TbdTail
    <2>5. DriverHolds(q)'
      <3>1. \A j \in 0 .. BUFFER_MAX - 1 : ~output[q][j].full => ~output'[q][j].full
        BY <1>5 DEF SetsFlag
      <3>2. QED
        BY <1>1, <3>1, StateFields DEF RingInv, DriverHolds, Slot
    <2>6. QED
      BY <2>1, <2>4, <2>5
  <1>10. QED
    BY <1>6, <1>9 DEF RingInv

-----------------------------------------------------------------------------
LEMMA RingInvStep == RingInv /\ [Next]_vars => RingInv'
  <1> SUFFICES ASSUME RingInv, [Next]_vars PROVE RingInv'
    OBVIOUS
  <1>1. CASE Tick
    <2>1. UNCHANGED <<arrived, rbd, tbd, nic, output, input, eth, pass>>
      BY <1>1 DEF Tick
    <2>2. pending' \in [Port \cup {"pass"} -> SUBSET Nat]
      <3>1. "pass" \in Port \cup {"pass"} /\ GPT_CH \in Nat
        BY DEF GPT_CH
      <3>2. QED
        BY <1>1, <3>1, PendingUpdates DEF Tick, RingInv
    <2>3. QED
      BY <2>1, <2>2
      DEF RingInv, EthernetTypeOK, Rings, DriverHolds, PassHolds, Slot, OutputHead, InputTail,
          TbdTail, Copying
  <1>2. CASE UNCHANGED vars
    BY <1>2
    DEF vars, world, RingInv, EthernetTypeOK, Rings, DriverHolds, PassHolds, Slot, OutputHead,
        InputTail, TbdTail, Copying
  <1>3. QED
    BY <1>1, <1>2, NicStep, DriverStep, PassTurns, PassCopies, PassPublishes, PassNotifies,
       PassFrees
    DEF Next, PassStep

LEMMA InitRingInv == Init => RingInv
  <1> SUFFICES ASSUME Init PROVE RingInv
    OBVIOUS
  <1>1. \A size \in Nat \ {0} : 0 \in 0 .. size - 1
    OBVIOUS
  <1>2. ASSUME NEW size \in Nat \ {0}
        PROVE  /\ EmptyRing(size) \in Slots(size)
               /\ Ring(EmptyRing(size), size, 0, 0)
    BY DEF EmptyRing, Nothing, Slots, SlotState, Frame, Port, Kind, Ring
  <1>3. EthernetTypeOK
    <2>1. arrived \in [Port -> Seq(Kind)] /\ pending \in [Port \cup {"pass"} -> SUBSET Nat]
      BY DEF Init
    <2>2. nic \in [Port -> NicState]
      BY <1>1, Sizes DEF Init, NicState, Causes
    <2>3. eth \in [Port -> DriverState]
      BY <1>1, Sizes DEF Init, DriverState, DriverLocation, Causes
    <2>4. pass \in PassState
      BY <1>1, Sizes DEF Init, PassState, PassLocation, PassIndices, Port
    <2>5. /\ rbd \in [Port -> Slots(RBD_COUNT)] /\ tbd \in [Port -> Slots(TBD_COUNT)]
          /\ output \in [Port -> Slots(BUFFER_MAX)] /\ input \in [Port -> Slots(BUFFER_MAX)]
      BY <1>2, Sizes DEF Init
    <2>6. QED
      BY <2>1, <2>2, <2>3, <2>4, <2>5 DEF EthernetTypeOK
  <1>4. ASSUME NEW p \in Port PROVE Rings(p) /\ DriverHolds(p) /\ PassHolds(p)
    <2>1. /\ rbd[p] = EmptyRing(RBD_COUNT) /\ tbd[p] = EmptyRing(TBD_COUNT)
          /\ output[p] = EmptyRing(BUFFER_MAX) /\ input[p] = EmptyRing(BUFFER_MAX)
          /\ nic[p].rx = 0 /\ nic[p].tx = 0
          /\ eth[p].pc = "loop" /\ eth[p].rbd_index = 0 /\ eth[p].tbd_index = 0
          /\ eth[p].output_index = 0 /\ eth[p].input_index = 0
          /\ pass.pc = "loop" /\ pass.input_index[p] = 0 /\ pass.output_index[p] = 0
      BY DEF Init
    <2>2. OutputHead(p) = 0 /\ InputTail(p) = 0 /\ TbdTail(p) = 0
      BY <2>1 DEF OutputHead, InputTail, TbdTail, Copying
    <2>3. Rings(p)
      BY <1>2, <2>1, <2>2, Sizes DEF Rings
    <2>4. DriverHolds(p) /\ PassHolds(p)
      BY <2>1 DEF DriverHolds, PassHolds, Copying
    <2>5. QED
      BY <2>3, <2>4
  <1>5. QED
    BY <1>3, <1>4 DEF RingInv

(***************************************************************************)
(* In every ring of the example, of whatever size, the full slots are      *)
(* those between the consumer's index and the producer's.                  *)
(***************************************************************************)
THEOREM RingInvariant == Spec => []RingInv
  BY InitRingInv, RingInvStep, PTL DEF Spec

\* A full slot at the producer's index means a full ring.
LEMMA ProducerSeesFull ==
  ASSUME RingInv, NEW p \in Port
  PROVE  /\ output[p][eth[p].output_index].full => Full(output[p])
         /\ tbd[p][eth[p].tbd_index].full /\ eth[p].pc \in {"rx", "input"} => Full(tbd[p])
         /\ input[p][pass.output_index[p]].full /\ pass.pc = "next" => Full(input[p])
  <1>1. EthernetTypeOK /\ Rings(p)
    BY DEF RingInv
  <1>2. /\ output[p] \in Slots(BUFFER_MAX) /\ tbd[p] \in Slots(TBD_COUNT)
        /\ input[p] \in Slots(BUFFER_MAX)
    BY <1>1 DEF EthernetTypeOK
  <1>3. output[p][eth[p].output_index].full => Full(output[p])
    <2>1. OutputHead(p) \in 0 .. BUFFER_MAX - 1
      BY <1>1, StateFields DEF OutputHead
    <2>2. QED
      BY <1>1, <1>2, <2>1, StateFields, Sizes, RingFull DEF Rings, Full, Slots
  <1>4. tbd[p][eth[p].tbd_index].full /\ eth[p].pc \in {"rx", "input"} => Full(tbd[p])
    <2>1. CASE eth[p].pc \in {"rx", "input"}
      <3>1. Ring(tbd[p], TBD_COUNT, nic[p].tx, eth[p].tbd_index)
        BY <1>1, <2>1 DEF Rings, TbdTail
      <3>2. /\ TBD_COUNT \in Nat \ {0} /\ nic[p].tx \in 0 .. TBD_COUNT - 1
            /\ eth[p].tbd_index \in 0 .. TBD_COUNT - 1 /\ DOMAIN tbd[p] = 0 .. TBD_COUNT - 1
        BY <1>1, <1>2, StateFields, Sizes DEF Slots
      <3>3. QED
        BY <1>2, <3>1, <3>2, RingFull DEF Full
    <2>2. QED
      BY <2>1
  <1>5. input[p][pass.output_index[p]].full /\ pass.pc = "next" => Full(input[p])
    BY <1>1, <1>2, StateFields, Sizes, RingFull DEF Rings, Full, Slots, InputTail
  <1>6. QED
    BY <1>3, <1>4, <1>5

-----------------------------------------------------------------------------
(* Dropping a frame *)

\* A driver moves in steps of its own only.
LEMMA OthersStay ==
  ASSUME EthernetTypeOK, NEW p \in Port, Next, eth'[p] # eth[p] PROVE DriverNext(p)
  <1>1. eth' # eth
    OBVIOUS
  <1>2. PICK q \in Port : DriverNext(q)
    BY <1>1
    DEF Next, NicNext, NicReceive, NicReceiveStops, NicTransmit, NicTransmitStops, Interrupt,
        PassStep, PassNotified, PassDone, PassCopy, PassPublish, PassNotify, PassFree, Tick
  <1>3. q # p => eth'[p] = eth[p]
    BY <1>2
    DEF DriverNext, Notified, ReadEir, ClearEir, IrqAck, RxDone, RxThrough, RxLocal, RxRequest,
        Publish, NotifyPass, MakeAvail, KickRx, InputDone, SendInput, FreeInput, SendFrame,
        KickTx, EthernetTypeOK
  <1>4. QED
    BY <1>2, <1>3

LEMMA ReceivedDropped ==
  ASSUME RingInv, NEW p \in Port, DriverNext(p), eth[p].pc = "rx", eth'[p].pc = "avail"
  PROVE  \/ Slot(p).frame.kind = "through" /\ Full(output[p])
         \/ Slot(p).frame.kind = "request" /\ Full(tbd[p])
         \/ Slot(p).frame.kind = "local"
  <1>1. eth \in [Port -> DriverState] /\ eth[p] \in DriverState
    BY DEF RingInv, EthernetTypeOK
  <1>2. RxDone(p) \/ RxThrough(p) \/ RxLocal(p) \/ RxRequest(p)
    BY DEF DriverNext, Notified, ReadEir, ClearEir, IrqAck, Publish, NotifyPass, MakeAvail,
           KickRx, InputDone, SendInput, FreeInput, KickTx, At
  <1>3. ~RxDone(p)
    BY <1>1 DEF RxDone, DriverState
  <1>4. CASE RxThrough(p)
    <2>1. output[p][eth[p].output_index].full
      BY <1>1, <1>4 DEF RxThrough, DriverState
    <2>2. QED
      BY <1>4, <2>1, ProducerSeesFull DEF RxThrough
  <1>5. CASE RxLocal(p)
    BY <1>5 DEF RxLocal
  <1>6. CASE RxRequest(p)
    <2>1. /\ Slot(p).frame.kind = "request"
          /\ SendFrame(p, Slot(p).frame, "kick reply", "avail")
      BY <1>6 DEF RxRequest, KickTx, At
    <2>2. tbd[p][eth[p].tbd_index].full
      BY <1>1, <2>1 DEF SendFrame, DriverState
    <2>3. QED
      BY <2>1, <2>2, ProducerSeesFull
  <1>7. QED
    BY <1>2, <1>3, <1>4, <1>5, <1>6

LEMMA InputDropped ==
  ASSUME RingInv, NEW p \in Port, DriverNext(p), eth[p].pc = "input", eth'[p].pc = "free"
  PROVE  Full(tbd[p])
  <1>1. eth \in [Port -> DriverState] /\ eth[p] \in DriverState
    BY DEF RingInv, EthernetTypeOK
  <1>2. InputDone(p) \/ SendInput(p)
    BY DEF DriverNext, Notified, ReadEir, ClearEir, IrqAck, RxDone, RxThrough, RxLocal, RxRequest,
           Publish, NotifyPass, MakeAvail, KickRx, FreeInput, KickTx, At
  <1>3. ~InputDone(p)
    BY <1>1 DEF InputDone, DriverState
  <1>4. SendFrame(p, input[p][eth[p].input_index].frame, "kick input", "free")
    BY <1>2, <1>3 DEF SendInput, KickTx, At
  <1>5. tbd[p][eth[p].tbd_index].full
    BY <1>1, <1>4 DEF SendFrame, DriverState
  <1>6. QED
    BY <1>5, ProducerSeesFull

LEMMA PassDropped ==
  ASSUME RingInv, Next, pass.pc = "next", pass'.pc = "free"
  PROVE  Full(input[Other(pass.port)])
  <1>1. pass \in PassState /\ pass.port \in Port /\ Other(pass.port) \in Port
    BY PortsDiffer DEF RingInv, EthernetTypeOK, PassState
  <1>2. PassStep
    BY ZenonT(40) DEF Next, NicNext, NicReceive, NicReceiveStops, NicTransmit, NicTransmitStops, Interrupt,
           Tick, DriverNext, Notified, ReadEir, ClearEir, IrqAck, RxDone, RxThrough, RxLocal,
           RxRequest, Publish, NotifyPass, MakeAvail, KickRx, InputDone, SendInput, FreeInput,
           SendFrame, KickTx
  <1>3. PassDone \/ PassCopy
    BY <1>2 DEF PassStep, PassNotified, PassPublish, PassNotify, PassFree
  <1>4. ~PassDone
    BY <1>1 DEF PassDone, PassState
  <1>5. input[Other(pass.port)][pass.output_index[Other(pass.port)]].full
    <2>1. ASSUME pass' = [[pass EXCEPT !.bd = pass.input_index[pass.port],
                             !.input_index[pass.port] =
                               After(pass.input_index[pass.port], BUFFER_MAX)]
                           EXCEPT !.pc = "publish"]
          PROVE  FALSE
      BY <1>1, <2>1 DEF PassState
    <2>2. QED
      BY <1>3, <1>4, <2>1, Zenon DEF PassCopy
  <1>6. QED
    BY <1>1, <1>5, ProducerSeesFull

(***************************************************************************)
(* For rings of any size, no frame is dropped while its ring has room:     *)
(* handle_rx, send_frame and pass look at the flag of one slot and are     *)
(* right about the whole ring.                                             *)
(***************************************************************************)
THEOREM NoFrameDroppedEarly == Spec => DropsOnlyWhenFull
  <1>1. RingInv /\ [Next]_vars => [DropsRightly]_vars
    <2> SUFFICES ASSUME RingInv, Next PROVE DropsRightly
      OBVIOUS
    <2>1. ASSUME NEW p \in Port, eth[p].pc = "rx", eth'[p].pc = "avail"
          PROVE  \/ Slot(p).frame.kind = "through" /\ Full(output[p])
                 \/ Slot(p).frame.kind = "request" /\ Full(tbd[p])
                 \/ Slot(p).frame.kind = "local"
      BY <2>1, OthersStay, ReceivedDropped DEF RingInv
    <2>2. ASSUME NEW p \in Port, eth[p].pc = "input", eth'[p].pc = "free"
          PROVE  Full(tbd[p])
      BY <2>2, OthersStay, InputDropped DEF RingInv
    <2>3. QED
      BY <2>1, <2>2, PassDropped DEF DropsRightly
  <1>2. QED
    BY <1>1, RingInvariant, PTL DEF Spec, DropsOnlyWhenFull
=============================================================================
