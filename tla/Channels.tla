------------------------------ MODULE Channels -------------------------------
(***************************************************************************)
(* What Microkit promises to the protection domains of a system, without   *)
(* kernel objects, event loops or a monitor.                               *)
(*                                                                         *)
(* A domain runs one entry point at a time.  A notification on a channel   *)
(* makes notified run with that channel's number, at least once for all    *)
(* the notifications sent since it last began to run and at most once for  *)
(* each.  A protected call blocks its caller until protected has run for   *)
(* it in the callee, with the callee's number of the channel, and has      *)
(* returned; a callee serves one call at a time and nothing else meanwhile.*)
(***************************************************************************)
EXTENDS Naturals

CONSTANTS PD, Id, None,
          Signals,   \* <<p, i, q, j>>: p may notify q's channel j
          Interrupts,\* <<q, j>>: an interrupt may notify q's channel j
          Calls      \* <<p, i, q, j>>: p may call q, which sees channel j

VARIABLES
  entry,    \* the entry point each domain is in, <<name, channel>> or None
  undelivered, \* notifications sent and not delivered: none, one or more
  call,     \* of each domain: None, <<callee, channel>> before the callee
            \* serves it, <<callee>> from then on
  serving   \* the caller each domain owes a reply to

absVars == <<entry, undelivered, call, serving>>

Init ==
  /\ entry = [p \in PD |-> <<"init", None>>]
  /\ undelivered = [p \in PD |-> [i \in Id |-> 0]]
  /\ call = [p \in PD |-> None]
  /\ serving = [p \in PD |-> None]

\* Two notifications merge if the first one is undelivered; they need not.
Send(q, j) ==
  /\ \E n \in 1..2 :
       /\ undelivered[q][j] <= n /\ n <= undelivered[q][j] + 1
       /\ undelivered' = [undelivered EXCEPT ![q][j] = n]
  /\ UNCHANGED <<entry, call, serving>>

Active(p) == entry[p] # None /\ call[p] = None

Notify(p) == Active(p) /\ \E s \in Signals : s[1] = p /\ Send(s[3], s[4])

Interrupt == \E s \in Interrupts : Send(s[1], s[2])

Deliver(p, i) ==
  /\ entry[p] = None /\ serving[p] = None
  /\ undelivered[p][i] > 0
  /\ undelivered' = [undelivered EXCEPT ![p][i] = @ - 1]
  /\ entry' = [entry EXCEPT ![p] = <<"notified", i>>]
  /\ UNCHANGED <<call, serving>>

Request(p) ==
  /\ Active(p)
  /\ \E s \in Calls :
       s[1] = p /\ call' = [call EXCEPT ![p] = <<s[3], s[4]>>]
  /\ UNCHANGED <<entry, undelivered, serving>>

Serve(p, c) ==
  /\ entry[p] = None /\ serving[p] = None
  /\ \E i \in Id :
       /\ call[c] = <<p, i>>
       /\ entry' = [entry EXCEPT ![p] = <<"protected", i>>]
  /\ call' = [call EXCEPT ![c] = <<p>>]
  /\ serving' = [serving EXCEPT ![p] = c]
  /\ UNCHANGED undelivered

Return(p) ==
  /\ Active(p)
  /\ entry' = [entry EXCEPT ![p] = None]
  /\ UNCHANGED <<undelivered, call, serving>>

Reply(p) ==
  /\ entry[p] = None /\ serving[p] # None
  /\ call' = [call EXCEPT ![serving[p]] = None]
  /\ serving' = [serving EXCEPT ![p] = None]
  /\ UNCHANGED <<entry, undelivered>>

Next ==
  \/ \E p \in PD : Notify(p) \/ Request(p) \/ Return(p) \/ Reply(p)
  \/ \E p \in PD, i \in Id : Deliver(p, i)
  \/ \E p, c \in PD : Serve(p, c)
  \/ Interrupt

Spec == Init /\ [][Next]_absVars
=============================================================================
