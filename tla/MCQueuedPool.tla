----------------------------- MODULE MCQueuedPool -----------------------------
(* QueuedPool with two clients: c1 submits p1, whose task submits p2, and c2   *)
(* awaits the chain of coroutine steps s1, s2 (thread_pool_tests.cpp,          *)
(* "submit_task").                                                             *)
EXTENDS QueuedPool, TLC

CONSTANTS c1, c2, s1, s2, p1, p2

MCClients == {c1, c2}
MCTasks == {s1, s2, p1, p2}
MCAsync == {s1, s2}
MCSubmits == c1 :> <<p1>> @@ p1 :> <<p2>> @@ c2 :> <<s1>> @@ s1 :> <<s2>>
             @@ [t \in {s2, p2} |-> <<>>]
=============================================================================
