----------------------------- MODULE MCIoAwaitables ---------------------------
(* A server that answers what a client writes over a pair of sockets, another *)
(* coroutine that writes to the server's end meanwhile, and one that awaits   *)
(* two timers.                                                                *)
EXTENDS IoAwaitables, TLC

CONSTANTS left, right, tick, tock, client, server, other, ticker

MCPeer == left :> right @@ right :> left
Await(kind, fd) == [kind |-> kind, fd |-> fd]
MCPlan == client :> <<Await("write", right)>>
          @@ server :> <<Await("read", left), Await("write", left)>>
          @@ other :> <<Await("write", left)>>
          @@ ticker :> <<Await("timer", tick), Await("timer", tock)>>
=============================================================================
