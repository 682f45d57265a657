------------------------------- MODULE Ethernet -------------------------------
(***************************************************************************)
(* The Ethernet example (example/tqma8xqp1gb/ethernet): two drivers, one   *)
(* for each port, and the protection domain pass between them.  Frames go  *)
(* from the receive ring of a network interface through two rings in       *)
(* shared memory to the transmit ring of the other interface:              *)
(*                                                                         *)
(*   rbd[p] -> driver p -> output[p] -> pass                               *)
(*                   pass -> input[q] -> driver q -> tbd[q]                *)
(*                                                                         *)
(* The rings are lock-free: one flag in each slot hands the slot over, and *)
(* a notification wakes the consumer.  Every access to a flag, a frame or  *)
(* a register that another party could disturb or see is an action of its  *)
(* own, and the three domains and the two interfaces interleave in every   *)
(* way.                                                                    *)
(***************************************************************************)
EXTENDS Integers, SequencesExt

CONSTANTS
  RBD_COUNT, TBD_COUNT, BUFFER_MAX,   \* the sizes of the rings
  Loads       \* bound: the loads, each with the kinds of the frames that arrive
              \* at each port, in order, and how often the timer ticks

Port == {"outer", "inner"}
Other(p) == CHOOSE q \in Port : q # p
Kind == {"through",  \* neither for the outer driver nor broadcast
         "request",  \* an ARP or ICMP echo request the outer driver answers
         "local"}    \* another frame for the outer driver, or a broadcast

ASSUME RingAssumption ==
  /\ {RBD_COUNT, TBD_COUNT, BUFFER_MAX} \subseteq Nat \ {0}
  /\ \A load \in Loads : /\ load.frames \in [Port -> Seq(Kind)] /\ load.ticks \in Nat
                         /\ Range(load.frames["inner"]) \subseteq {"through"}

INPUT_CH == 2    \* a driver's channels
IRQ_CH == 3
GPT_CH == 0      \* the channels of pass
PassChannel(p) == IF p = "outer" THEN 1 ELSE 3   \* OUTER_, INNER_INPUT_CH

VARIABLES
  arrived,       \* EXTERNAL: the kinds of the frames that arrived at each port
  ticks,         \* EXTERNAL: how many timeouts have passed
  sent,          \* EXTERNAL: the frames each interface transmitted, in order
  rbd, tbd,      \* the rings of each interface
  nic,           \* EXTERNAL: registers and positions of each interface
  output, input, \* the shared rings between each driver and pass
  eth,           \* each driver: its program counter and its variables
  pass,          \* pass: its program counter and its variables
  pending,       \* EXTERNAL: the notification word of each domain
  masked         \* EXTERNAL: the interrupts that wait for an acknowledgement

world == <<arrived, sent, ticks>>
vars == <<world, rbd, tbd, nic, output, input, eth, pass, pending, masked>>

\* A slot of any ring: full is the flag that hands the slot over.
Nothing == [port |-> "outer", kind |-> "local", n |-> 0]   \* memory after boot
EmptyRing(size) == [i \in 0 .. size - 1 |-> [full |-> FALSE, frame |-> Nothing]]

After(i, size) == IF i + 1 = size THEN 0 ELSE i + 1

Init ==    \* every init has run: eth_setup of the drivers
  /\ arrived = [p \in Port |-> <<>>]
  /\ ticks = 0
  /\ sent = [p \in Port |-> <<>>]
  /\ rbd = [p \in Port |-> EmptyRing(RBD_COUNT)]
  /\ tbd = [p \in Port |-> EmptyRing(TBD_COUNT)]
  /\ nic = [p \in Port |-> [rx |-> 0, tx |-> 0, rdar |-> TRUE, tdar |-> FALSE, eir |-> {}]]
  /\ output = [p \in Port |-> EmptyRing(BUFFER_MAX)]
  /\ input = [p \in Port |-> EmptyRing(BUFFER_MAX)]
  /\ eth = [p \in Port |-> [pc |-> "loop", todo |-> {}, eir |-> {}, rbd_index |-> 0,
                            tbd_index |-> 0, output_index |-> 0, input_index |-> 0]]
  /\ pass = [pc |-> "loop", todo |-> {}, port |-> "outer", bd |-> 0,
             input_index |-> [p \in Port |-> 0], output_index |-> [p \in Port |-> 0]]
  /\ pending = [d \in Port \cup {"pass"} |-> {}]
  /\ masked = {}

-----------------------------------------------------------------------------
(* EXTERNAL: the network interfaces, and the kernel's part in interrupts. *)

Within(load) ==
  /\ \A p \in Port : IsPrefix(arrived[p], load.frames[p])
  /\ ticks <= load.ticks

\* The interface fills the next empty buffer.
NicReceive(p) ==
  LET i == nic[p].rx
      n == Len(arrived[p]) + 1
  IN /\ nic[p].rdar /\ ~rbd[p][i].full
     /\ \E k \in Kind :
          /\ arrived' = [arrived EXCEPT ![p] = Append(@, k)]
          /\ rbd' = [rbd EXCEPT ![p][i] =
                       [full |-> TRUE, frame |-> [port |-> p, kind |-> k, n |-> n]]]
     /\ nic' = [nic EXCEPT ![p].rx = After(i, RBD_COUNT), ![p].eir = @ \cup {"rxf"}]
     /\ UNCHANGED <<sent, ticks, tbd, output, input, eth, pass, pending, masked>>
     /\ \E load \in Loads : Within(load)'

\* It meets a full buffer and stops receiving until rdar is written.
NicReceiveStops(p) ==
  /\ nic[p].rdar /\ rbd[p][nic[p].rx].full
  /\ nic' = [nic EXCEPT ![p].rdar = FALSE]
  /\ UNCHANGED <<world, rbd, tbd, output, input, eth, pass, pending, masked>>

NicTransmit(p) ==
  LET i == nic[p].tx
  IN /\ nic[p].tdar /\ tbd[p][i].full
     /\ sent' = [sent EXCEPT ![p] = Append(@, tbd[p][i].frame)]
     /\ tbd' = [tbd EXCEPT ![p][i].full = FALSE]
     /\ nic' = [nic EXCEPT ![p].tx = After(i, TBD_COUNT), ![p].eir = @ \cup {"txf"}]
     /\ UNCHANGED <<arrived, ticks, rbd, output, input, eth, pass, pending, masked>>

NicTransmitStops(p) ==
  /\ nic[p].tdar /\ ~tbd[p][nic[p].tx].full
  /\ nic' = [nic EXCEPT ![p].tdar = FALSE]
  /\ UNCHANGED <<world, rbd, tbd, output, input, eth, pass, pending, masked>>

\* The kernel delivers an interrupt and masks it.
Interrupt(p) ==
  /\ nic[p].eir # {} /\ p \notin masked
  /\ masked' = masked \cup {p}
  /\ pending' = [pending EXCEPT ![p] = @ \cup {IRQ_CH}]
  /\ UNCHANGED <<world, rbd, tbd, nic, output, input, eth, pass>>

\* The timeout pass asked the gpt domain for.
Tick ==
  /\ ticks' = ticks + 1
  /\ pending' = [pending EXCEPT !["pass"] = @ \cup {GPT_CH}]
  /\ UNCHANGED <<arrived, sent, rbd, tbd, nic, output, input, eth, pass, masked>>
  /\ \E load \in Loads : Within(load)'

-----------------------------------------------------------------------------
(* A driver: handler_loop of libmicrokit, and the entry point notified. *)

At(p, loc) == eth[p].pc = loc

Lowest(channels) == CHOOSE c \in channels : \A d \in channels : c <= d

\* The next notification, of those received or of those pending.
Notified(p) ==
  LET received == IF eth[p].todo = {} THEN pending[p] ELSE eth[p].todo
      c == Lowest(received)
  IN /\ At(p, "loop") /\ received # {}
     /\ eth' = [eth EXCEPT ![p].todo = received \ {c},
                           ![p].pc = IF c = IRQ_CH THEN "eir" ELSE "input"]
     /\ pending' = IF eth[p].todo = {} THEN [pending EXCEPT ![p] = {}] ELSE pending
     /\ UNCHANGED <<world, rbd, tbd, nic, output, input, pass, masked>>

\* handle_eth: the causes are read, and those that were read are cleared.
ReadEir(p) ==
  /\ At(p, "eir")
  /\ eth' = [eth EXCEPT ![p].eir = nic[p].eir, ![p].pc = "clear"]
  /\ UNCHANGED <<world, rbd, tbd, nic, output, input, pass, pending, masked>>

\* Mutant: all the causes are cleared, not those that were read.
ClearEveryCause(p) ==
  /\ At(p, "clear")
  /\ nic' = [nic EXCEPT ![p].eir = {}]
  /\ eth' = [eth EXCEPT ![p].pc = IF "rxf" \in eth[p].eir THEN "rx" ELSE "ack"]
  /\ UNCHANGED <<world, rbd, tbd, output, input, pass, pending, masked>>

ClearEir(p) ==
  /\ At(p, "clear")
  /\ nic' = [nic EXCEPT ![p].eir = @ \ eth[p].eir]
  /\ eth' = [eth EXCEPT ![p].pc = IF "rxf" \in eth[p].eir THEN "rx" ELSE "ack"]
  /\ UNCHANGED <<world, rbd, tbd, output, input, pass, pending, masked>>

IrqAck(p) ==
  /\ At(p, "ack")
  /\ masked' = masked \ {p}
  /\ eth' = [eth EXCEPT ![p].pc = "loop"]
  /\ UNCHANGED <<world, rbd, tbd, nic, output, input, pass, pending>>

\* handle_rx: the loop over the received frames, which ends at an empty buffer.
Slot(p) == rbd[p][eth[p].rbd_index]

\* Mutant: rdar is not written when the ring has been emptied.
RxDoneNoKick(p) ==
  /\ At(p, "rx") /\ ~Slot(p).full
  /\ eth' = [eth EXCEPT ![p].pc = "ack"]
  /\ UNCHANGED <<world, rbd, tbd, nic, output, input, pass, pending, masked>>

RxDone(p) ==
  /\ At(p, "rx") /\ ~Slot(p).full
  /\ eth' = [eth EXCEPT ![p].pc = "kick"]
  /\ UNCHANGED <<world, rbd, tbd, nic, output, input, pass, pending, masked>>

RxThrough(p) ==
  LET i == eth[p].output_index
  IN /\ At(p, "rx") /\ Slot(p).full /\ Slot(p).frame.kind = "through"
     /\ IF output[p][i].full
        THEN /\ eth' = [eth EXCEPT ![p].pc = "avail"]
             /\ UNCHANGED output
        ELSE /\ output' = [output EXCEPT ![p][i].frame = Slot(p).frame]
             /\ eth' = [eth EXCEPT ![p].pc = "publish"]
     /\ UNCHANGED <<world, rbd, tbd, nic, input, pass, pending, masked>>

RxLocal(p) ==
  /\ At(p, "rx") /\ Slot(p).full /\ Slot(p).frame.kind = "local"
  /\ eth' = [eth EXCEPT ![p].pc = "avail"]
  /\ UNCHANGED <<world, rbd, tbd, nic, output, input, pass, pending, masked>>

\* Mutant: output_index is not advanced.
PublishKeepsIndex(p) ==
  LET i == eth[p].output_index
  IN /\ At(p, "publish")
     /\ output' = [output EXCEPT ![p][i].full = TRUE]
     /\ eth' = [eth EXCEPT ![p].pc = "notify"]
     /\ UNCHANGED <<world, rbd, tbd, nic, input, pass, pending, masked>>

Publish(p) ==
  LET i == eth[p].output_index
  IN /\ At(p, "publish")
     /\ output' = [output EXCEPT ![p][i].full = TRUE]
     /\ eth' = [eth EXCEPT ![p].output_index = After(i, BUFFER_MAX), ![p].pc = "notify"]
     /\ UNCHANGED <<world, rbd, tbd, nic, input, pass, pending, masked>>

NotifyPass(p) ==
  /\ At(p, "notify")
  /\ pending' = [pending EXCEPT !["pass"] = @ \cup {PassChannel(p)}]
  /\ eth' = [eth EXCEPT ![p].pc = "avail"]
  /\ UNCHANGED <<world, rbd, tbd, nic, output, input, pass, masked>>

MakeAvail(p) ==
  LET i == eth[p].rbd_index
  IN /\ At(p, "avail")
     /\ rbd' = [rbd EXCEPT ![p][i].full = FALSE]
     /\ eth' = [eth EXCEPT ![p].rbd_index = After(i, RBD_COUNT), ![p].pc = "rx"]
     /\ UNCHANGED <<world, tbd, nic, output, input, pass, pending, masked>>

KickRx(p) ==
  /\ At(p, "kick")
  /\ nic' = [nic EXCEPT ![p].rdar = TRUE]
  /\ eth' = [eth EXCEPT ![p].pc = "ack"]
  /\ UNCHANGED <<world, rbd, tbd, output, input, pass, pending, masked>>

\* send_frame; kick is the location of the write to tdar, and next where the
\* caller goes on.
SendFrame(p, frame, kick, next) ==
  LET i == eth[p].tbd_index
  IN /\ IF tbd[p][i].full
        THEN /\ eth' = [eth EXCEPT ![p].pc = next]
             /\ UNCHANGED tbd
        ELSE /\ tbd' = [tbd EXCEPT ![p][i] = [full |-> TRUE, frame |-> frame]]
             /\ eth' = [eth EXCEPT ![p].pc = kick]
     /\ UNCHANGED <<world, rbd, nic, output, input, pass, pending, masked>>

KickTx(p, kick, next) ==
  /\ At(p, kick)
  /\ nic' = [nic EXCEPT ![p].tdar = TRUE]
  /\ eth' = [eth EXCEPT ![p].tbd_index = After(@, TBD_COUNT), ![p].pc = next]
  /\ UNCHANGED <<world, rbd, tbd, output, input, pass, pending, masked>>

\* The answer is made in temp_packet out of the frame received.
RxRequest(p) ==
  \/ /\ At(p, "rx") /\ Slot(p).full /\ Slot(p).frame.kind = "request"
     /\ SendFrame(p, Slot(p).frame, "kick reply", "avail")
  \/ KickTx(p, "kick reply", "avail")

\* notified(INPUT_CH): the loop over the frames from pass.
InputDone(p) ==
  /\ At(p, "input") /\ ~input[p][eth[p].input_index].full
  /\ eth' = [eth EXCEPT ![p].pc = "loop"]
  /\ UNCHANGED <<world, rbd, tbd, nic, output, input, pass, pending, masked>>

SendInput(p) ==
  LET slot == input[p][eth[p].input_index]
  IN \/ /\ At(p, "input") /\ slot.full
        /\ SendFrame(p, slot.frame, "kick input", "free")
     \/ KickTx(p, "kick input", "free")

FreeInput(p) ==
  LET i == eth[p].input_index
  IN /\ At(p, "free")
     /\ input' = [input EXCEPT ![p][i].full = FALSE]
     /\ eth' = [eth EXCEPT ![p].input_index = After(i, BUFFER_MAX), ![p].pc = "input"]
     /\ UNCHANGED <<world, rbd, tbd, nic, output, pass, pending, masked>>

DriverNext(p) ==
  \/ Notified(p)
  \/ ReadEir(p) \/ ClearEir(p) \/ IrqAck(p)
  \/ RxDone(p) \/ RxThrough(p) \/ RxLocal(p) \/ RxRequest(p)
  \/ Publish(p) \/ NotifyPass(p) \/ MakeAvail(p) \/ KickRx(p)
  \/ InputDone(p) \/ SendInput(p) \/ FreeInput(p)

-----------------------------------------------------------------------------
(* pass: copies frames from one driver's output to the other's input. *)

\* GPT_CH falls through to OUTER_INPUT_CH.
PassNotified ==
  LET received == IF pass.todo = {} THEN pending["pass"] ELSE pass.todo
      c == Lowest(received)
  IN /\ pass.pc = "loop" /\ received # {}
     /\ pass' = [pass EXCEPT !.todo = received \ {c}, !.pc = "next",
                   !.port = IF c \in {GPT_CH, PassChannel("outer")} THEN "outer" ELSE "inner"]
     /\ pending' = IF pass.todo = {} THEN [pending EXCEPT !["pass"] = {}] ELSE pending
     /\ UNCHANGED <<world, rbd, tbd, nic, output, input, eth, masked>>

PassDone ==
  /\ pass.pc = "next" /\ ~output[pass.port][pass.input_index[pass.port]].full
  /\ pass' = [pass EXCEPT !.pc = "loop"]
  /\ UNCHANGED <<world, rbd, tbd, nic, output, input, eth, pending, masked>>

\* Mutant: the frame is copied without a look at obd->flags.
PassCopyUnchecked ==
  LET from == pass.port
      to == Other(from)
      bd == pass.input_index[from]
      obd == pass.output_index[to]
  IN /\ pass.pc = "next" /\ output[from][bd].full
     /\ input' = [input EXCEPT ![to][obd].frame = output[from][bd].frame]
     /\ pass' = [pass EXCEPT !.bd = bd, !.input_index[from] = After(bd, BUFFER_MAX),
                             !.pc = "publish"]
     /\ UNCHANGED <<world, rbd, tbd, nic, output, eth, pending, masked>>

PassCopy ==
  LET from == pass.port
      to == Other(from)
      bd == pass.input_index[from]
      obd == pass.output_index[to]
      taken == [pass EXCEPT !.bd = bd, !.input_index[from] = After(bd, BUFFER_MAX)]
  IN /\ pass.pc = "next" /\ output[from][bd].full
     /\ IF input[to][obd].full
        THEN /\ pass' = [taken EXCEPT !.pc = "free"]
             /\ UNCHANGED input
        ELSE /\ input' = [input EXCEPT ![to][obd].frame = output[from][bd].frame]
             /\ pass' = [taken EXCEPT !.pc = "publish"]
     /\ UNCHANGED <<world, rbd, tbd, nic, output, eth, pending, masked>>

PassPublish ==
  LET to == Other(pass.port)
  IN /\ pass.pc = "publish"
     /\ input' = [input EXCEPT ![to][pass.output_index[to]].full = TRUE]
     /\ pass' = [pass EXCEPT !.pc = "notify"]
     /\ UNCHANGED <<world, rbd, tbd, nic, output, eth, pending, masked>>

PassNotify ==
  LET to == Other(pass.port)
  IN /\ pass.pc = "notify"
     /\ pending' = [pending EXCEPT ![to] = @ \cup {INPUT_CH}]
     /\ pass' = [pass EXCEPT !.pc = "free", !.output_index[to] = After(@, BUFFER_MAX)]
     /\ UNCHANGED <<world, rbd, tbd, nic, output, input, eth, masked>>

PassFree ==
  /\ pass.pc = "free"
  /\ output' = [output EXCEPT ![pass.port][pass.bd].full = FALSE]
  /\ pass' = [pass EXCEPT !.pc = "next"]
  /\ UNCHANGED <<world, rbd, tbd, nic, input, eth, pending, masked>>

PassStep ==
  \/ PassNotified \/ PassDone
  \/ PassCopy \/ PassPublish \/ PassNotify \/ PassFree

-----------------------------------------------------------------------------
NicNext(p) ==
  \/ NicReceive(p) \/ NicReceiveStops(p)
  \/ NicTransmit(p) \/ NicTransmitStops(p)
  \/ Interrupt(p)

Next ==
  \/ \E p \in Port : NicNext(p) \/ DriverNext(p)
  \/ PassStep
  \/ Tick

Spec == Init /\ [][Next]_vars

(***************************************************************************)
(* The domains run when they have something to do, the interfaces transmit *)
(* what is ready and interrupts arrive.  Nothing has to be received and    *)
(* the timer need not tick.                                                *)
(***************************************************************************)
Fairness ==
  /\ WF_vars(PassStep)
  /\ \A p \in Port : /\ WF_vars(DriverNext(p))
                     /\ WF_vars(NicTransmit(p))
                     /\ WF_vars(Interrupt(p))

FairSpec == Spec /\ Fairness
=============================================================================
