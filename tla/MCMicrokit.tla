----------------------------- MODULE MCMicrokit -----------------------------
(***************************************************************************)
(* Small systems for TLC.  The channel numbers start at 0, like those of   *)
(* the examples, and the two ends of a channel use different ones.         *)
(***************************************************************************)
EXTENDS MicrokitChannels, TLC

CONSTANTS client, driver, server   \* the protection domains, model values

channel(p, i, q, j) == [a |-> p, ida |-> i, b |-> q, idb |-> j]

MCPD == {client, driver, server}

\* Ascending, as the manual asks of a domain that calls another one.
MCPriority == (client :> 1) @@ (driver :> 2) @@ (server :> 3)

\* A chain of servers: the client calls the driver, which calls the server.
\* The driver has an interrupt as well.
ChainChannels == {channel(client, 1, driver, 0), channel(driver, 1, server, 0)}
ChainIrqs == {<<driver, 2>>}
ChainCalls == {<<client, 1, driver, 0>>, <<driver, 1, server, 0>>}

\* Both ends of a channel with pp set: the tool hands out both endpoint
\* capabilities, and the two servers use them.
CycleCalls == {<<driver, 1, server, 0>>, <<server, 0, driver, 1>>}
=============================================================================
