------------------------------ MODULE FrameLink ------------------------------
(***************************************************************************)
(* What the Ethernet example promises of a flow of frames, from the port   *)
(* where they arrive to the one where they leave: a FIFO that may lose     *)
(* frames, and does not reorder, repeat or invent any.                     *)
(***************************************************************************)
EXTENDS SequencesExt

VARIABLES
  queue,          \* the numbers of the frames that are on their way
  transmitted     \* the numbers of the frames that left, in order

linkVars == <<queue, transmitted>>

Init == queue = <<>> /\ transmitted = <<>>

\* Frames are numbered in the order in which they arrive.
Arrive ==
  /\ Len(queue') = Len(queue) + 1
  /\ Front(queue') = queue
  /\ \A n \in Range(queue) \cup Range(transmitted) : n < Last(queue')
  /\ UNCHANGED transmitted

Transmit ==
  /\ queue # <<>>
  /\ transmitted' = Append(transmitted, Head(queue))
  /\ queue' = Tail(queue)

Lose ==
  /\ Len(queue') = Len(queue) - 1
  /\ \E i \in DOMAIN queue : queue' = RemoveAt(queue, i)
  /\ UNCHANGED transmitted

Next == Arrive \/ Transmit \/ Lose

Spec == Init /\ [][Next]_linkVars
=============================================================================
