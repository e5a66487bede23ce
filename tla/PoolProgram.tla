----------------------------- MODULE PoolProgram ------------------------------
(***************************************************************************)
(* The program that uses a ThreadPool: its threads, the pool's, the tasks, *)
(* and who submits what.  A task may submit tasks while it runs, and a     *)
(* coroutine resumed by a worker may run_async again.                      *)
(***************************************************************************)
EXTENDS Sequences, FiniteSets, Naturals

CONSTANTS Workers,   \* threads_
          Clients,   \* the program's threads that submit
          Owner,     \* the thread that destroys the pool
          Tasks, NoTask,
          Async,     \* the tasks that run_async pushes; submit pushes the rest
          Throwing,  \* the tasks whose callable may throw
          Submits,   \* the tasks each client and each task submits, in order
          Asserts    \* TRUE: a failed assert aborts; FALSE: NDEBUG

Actors == Workers \cup Clients \cup {Owner}

ASSUME ActorsAssumption ==
    /\ Workers # {} /\ IsFiniteSet(Workers)   \* assert(no_of_threads > 0)
    /\ Workers \cap Clients = {} /\ Owner \notin Workers \cup Clients
ASSUME TasksAssumption ==
    /\ NoTask \notin Tasks /\ Clients \cap Tasks = {}
    /\ Async \subseteq Tasks /\ Throwing \subseteq Tasks
    /\ Submits \in [Clients \cup Tasks -> Seq(Tasks)]
    /\ Asserts \in BOOLEAN
(* A task is submitted once; co_await of a run_async suspends the submitter *)
(* in that coroutine, so nothing comes after it.                            *)
ASSUME SubmitsAssumption ==
    \A a, b \in Clients \cup Tasks :
        \A i \in DOMAIN Submits[a], j \in DOMAIN Submits[b] :
            /\ Submits[a][i] = Submits[b][j] => a = b /\ i = j
            /\ Submits[a][i] \in Async => i = Len(Submits[a])
=============================================================================
