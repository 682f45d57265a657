----------------------------- MODULE EthernetLink -----------------------------
(***************************************************************************)
(* The Ethernet example implements FrameLink, and frames do not get stuck. *)
(***************************************************************************)
EXTENDS Ethernet

\* Where a frame is meant to go.
FlowOf(frame) ==
  <<frame.port, IF frame.kind = "through" THEN Other(frame.port) ELSE frame.port>>

Flow == {<<"outer", "inner">>, <<"inner", "outer">>, <<"outer", "outer">>}

\* The frames in the full slots of a ring, from slot i up to one that is empty.
From(ring, size, i) ==
  LET at(k) == ring[(i + k) % size]
      n == CHOOSE n \in 0 .. size :
             (\A k \in 0 .. n - 1 : at(k).full) /\ (n < size => ~at(n).full)
  IN [k \in 1 .. n |-> at(k - 1).frame]

\* Each ring holds the frames that have not been copied to the next one yet.
AtRbd(p) ==
  LET ring == From(rbd[p], RBD_COUNT, eth[p].rbd_index)
  IN IF eth[p].pc \in {"notify", "avail", "kick reply"} THEN Tail(ring) ELSE ring

AtOutput(p) ==
  IF pass.port # p \/ pass.pc \in {"loop", "next"}
  THEN From(output[p], BUFFER_MAX, pass.input_index[p])
  ELSE LET ring == From(output[p], BUFFER_MAX, pass.bd)
       IN IF pass.pc \in {"notify", "free"} THEN Tail(ring) ELSE ring

AtInput(p) ==
  LET ring == From(input[p], BUFFER_MAX, eth[p].input_index)
  IN IF eth[p].pc \in {"kick input", "free"} THEN Tail(ring) ELSE ring

AtTbd(p) == From(tbd[p], TBD_COUNT, nic[p].tx)

Frame == [port: Port, kind: Kind, n: Nat]

\* The numbers of those that belong to flow f.
Numbers(frames, f) ==
  LET of[s \in Seq(Frame)] ==
        IF s = <<>> THEN <<>>
        ELSE IF FlowOf(Head(s)) = f THEN <<Head(s).n>> \o of[Tail(s)]
        ELSE of[Tail(s)]
  IN of[frames]

OnTheWay(f) ==
  IF f[1] = f[2] THEN Numbers(AtTbd(f[2]), f) \o Numbers(AtRbd(f[1]), f)
  ELSE Numbers(AtTbd(f[2]), f) \o Numbers(AtInput(f[2]), f)
       \o Numbers(AtOutput(f[1]), f) \o Numbers(AtRbd(f[1]), f)

Sent(f) == Numbers(sent[f[2]], f)

Inward == INSTANCE FrameLink WITH
  queue <- OnTheWay(<<"outer", "inner">>),
  transmitted <- Sent(<<"outer", "inner">>)

Outward == INSTANCE FrameLink WITH
  queue <- OnTheWay(<<"inner", "outer">>),
  transmitted <- Sent(<<"inner", "outer">>)

Answers == INSTANCE FrameLink WITH
  queue <- OnTheWay(<<"outer", "outer">>),
  transmitted <- Sent(<<"outer", "outer">>)

(***************************************************************************)
(* Through rings, indices, flags and interrupts, frames of a flow leave in *)
(* the order in which they arrived, no frame leaves twice and no frame     *)
(* changes on the way (handle_rx, pass, send_frame): every step of the     *)
(* example is a step of FrameLink or none at all, for each flow.           *)
(***************************************************************************)
ImplementsLink == Inward!Spec /\ Outward!Spec /\ Answers!Spec

Full(ring) == \A i \in DOMAIN ring : ring[i].full

\* A step that drops a frame meets a full ring.
DropsRightly ==
  /\ \A p \in Port :
       /\ eth[p].pc = "rx" /\ eth'[p].pc = "avail" =>
            \/ Slot(p).frame.kind = "through" /\ Full(output[p])
            \/ Slot(p).frame.kind = "request" /\ Full(tbd[p])
            \/ Slot(p).frame.kind = "local"
       /\ eth[p].pc = "input" /\ eth'[p].pc = "free" => Full(tbd[p])
  /\ pass.pc = "next" /\ pass'.pc = "free" => Full(input[Other(pass.port)])

(***************************************************************************)
(* A producer looks at one slot only, and drops the frame if that slot is  *)
(* in use.  It is right to: then the whole ring is in use.                 *)
(***************************************************************************)
DropsOnlyWhenFull == [][DropsRightly]_vars

(***************************************************************************)
(* No frame stays in a ring: although the flags are tested without a lock, *)
(* notifications merge, causes of interrupts are cleared before they are   *)
(* handled, and the interfaces stop by themselves, there is always someone *)
(* who will come for the frame.                                            *)
(***************************************************************************)
FramesMoveOn ==
  \A p \in Port :
    /\ \A i \in 0 .. RBD_COUNT - 1 : rbd[p][i].full ~> ~rbd[p][i].full
    /\ \A i \in 0 .. TBD_COUNT - 1 : tbd[p][i].full ~> ~tbd[p][i].full
    /\ \A i \in 0 .. BUFFER_MAX - 1 : /\ output[p][i].full ~> ~output[p][i].full
                                     /\ input[p][i].full ~> ~input[p][i].full

(***************************************************************************)
(* The receiver does not stay stopped: whenever it stops because its ring  *)
(* is full, the driver will empty the ring and start it again.             *)
(***************************************************************************)
ReceiverRestarts == \A p \in Port : ~nic[p].rdar ~> nic[p].rdar
=============================================================================
