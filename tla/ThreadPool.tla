----------------------------- MODULE ThreadPool ------------------------------
(***************************************************************************)
(* ThreadPool: workers that pop tasks from a ConcurrentQueue and run them, *)
(* submit (a packaged_task with a future), run_async (a coroutine that is  *)
(* resumed by the worker) and the destructor: close, join, assert.         *)
(*                                                                         *)
(* The queue is the FifoChannel that ConcurrentQueue implements.  The      *)
(* program destroys the pool when its own threads no longer call it; what  *)
(* the tasks still do then is up to them.                                  *)
(***************************************************************************)
EXTENDS PoolProgram

VARIABLES items, closed, op, arg, ret,  \* tasks_
          wpc,      \* wpc[w]: where worker w is in run()
          task,     \* task[w]: the task w runs
          todo,     \* todo[a]: what a has still to submit
          fut,      \* fut[t]: the state of t's future or awaitable
          owner,    \* where the destructor is
          aborted   \* how the process died, if it did

queue == <<items, closed, op, arg, ret>>
pool == <<wpc, task, todo, fut, owner, aborted>>
vars == <<queue, pool>>

Q == INSTANCE FifoChannel WITH Threads <- Actors, Values <- Tasks, NoValue <- NoTask

TypeOK ==
    /\ Q!TypeOK
    /\ wpc \in [Workers -> {"loop", "pop", "run", "exited"}]
    /\ task \in [Workers -> Tasks \cup {NoTask}]
    /\ todo \in [Workers \cup Clients -> Seq(Tasks)]
    /\ fut \in [Tasks -> {"none", "pending", "value", "exception", "broken"}]
    /\ owner \in {"alive", "closing", "joining", "done"}
    /\ aborted \in {"no", "assert", "terminate"}
    /\ \A w \in Workers : wpc[w] = "run" => task[w] \in Tasks

Init ==
    /\ Q!Init
    /\ wpc = [w \in Workers |-> "loop"]
    /\ task = [w \in Workers |-> NoTask]
    /\ todo = [a \in Workers \cup Clients |->
                  IF a \in Clients THEN Submits[a] ELSE <<>>]
    /\ fut = [t \in Tasks |-> "none"]
    /\ owner = "alive" /\ aborted = "no"

-----------------------------------------------------------------------------
(* submit and await_suspend of run_async, up to the call of push. *)
Submit(a) ==
    /\ todo[a] # <<>>
    /\ Q!Call(a, "push", Head(todo[a]))
    /\ fut' = [fut EXCEPT ![Head(todo[a])] = "pending"]
    /\ UNCHANGED <<wpc, task, todo, owner, aborted>>

PushAdmit(a) == Q!Admit(a) /\ UNCHANGED pool

PushInsert(a) ==
    /\ Q!Insert(a)
    /\ todo' = [todo EXCEPT ![a] = Tail(@)]
    /\ UNCHANGED <<wpc, task, fut, owner, aborted>>

(* push returned false: assert(result).  Without asserts the packaged_task *)
(* dies with its promise unkept, the coroutine is never resumed.           *)
PushRefused(a) ==
    /\ Q!Refuse(a)
    /\ IF Asserts
         THEN aborted' = "assert" /\ UNCHANGED <<todo, fut>>
         ELSE /\ fut' = [fut EXCEPT ![arg[a]] = "broken"]
              /\ todo' = [todo EXCEPT ![a] = Tail(@)]
              /\ UNCHANGED aborted
    /\ UNCHANGED <<wpc, task, owner>>

-----------------------------------------------------------------------------
WorkerPop(w) ==
    /\ wpc[w] = "loop"
    /\ Q!Call(w, "pop", NoTask)
    /\ wpc' = [wpc EXCEPT ![w] = "pop"]
    /\ UNCHANGED <<task, todo, fut, owner, aborted>>

(* The pop returned a task and the worker invokes it.  What the callable   *)
(* of run_async throws escapes the wrapper and run(): std::terminate.      *)
WorkerStart(w) ==
    /\ Q!Take(w)
    /\ LET t == Head(items) IN
       /\ wpc' = [wpc EXCEPT ![w] = "run"]
       /\ task' = [task EXCEPT ![w] = t]
       /\ todo' = [todo EXCEPT ![w] = Submits[t]]
       /\ \/ UNCHANGED aborted
          \/ t \in Async \cap Throwing /\ aborted' = "terminate"
    /\ UNCHANGED <<fut, owner>>

(* The task returns, or it throws, at any point, into its packaged_task. *)
WorkerFinish(w) ==
    /\ wpc[w] = "run" /\ op[w] = "idle"
    /\ wpc' = [wpc EXCEPT ![w] = "loop"]
    /\ task' = [task EXCEPT ![w] = NoTask]
    /\ todo' = [todo EXCEPT ![w] = <<>>]
    /\ \/ todo[w] = <<>> /\ fut' = [fut EXCEPT ![task[w]] = "value"]
       \/ /\ task[w] \in Throwing \ Async
          /\ fut' = [fut EXCEPT ![task[w]] = "exception"]
    /\ UNCHANGED <<queue, owner, aborted>>

(* The pop returned nullopt. *)
WorkerExit(w) ==
    /\ Q!Drained(w)
    /\ wpc' = [wpc EXCEPT ![w] = "exited"]
    /\ UNCHANGED <<task, todo, fut, owner, aborted>>

-----------------------------------------------------------------------------
(* The program's threads call the pool no more when they destroy it. *)
ClientsDone == \A c \in Clients : todo[c] = <<>> /\ op[c] = "idle"

DtorClose ==
    /\ owner = "alive" /\ ClientsDone
    /\ Q!Call(Owner, "close", NoTask)
    /\ owner' = "closing"
    /\ UNCHANGED <<wpc, task, todo, fut, aborted>>

DtorClosed ==
    /\ Q!Close(Owner)
    /\ owner' = "joining"
    /\ UNCHANGED <<wpc, task, todo, fut, aborted>>

(* The last join returned: assert(tasks_.empty()), then the members die    *)
(* and with them the promises of what is still in the queue.               *)
DtorDone ==
    /\ owner = "joining" /\ \A w \in Workers : wpc[w] = "exited"
    /\ IF Asserts /\ items # <<>>
         THEN aborted' = "assert" /\ UNCHANGED <<owner, fut>>
         ELSE /\ owner' = "done"
              /\ fut' = [t \in Tasks |->
                            IF \E i \in DOMAIN items : items[i] = t
                              THEN "broken" ELSE fut[t]]
              /\ UNCHANGED aborted
    /\ UNCHANGED <<queue, wpc, task, todo>>

-----------------------------------------------------------------------------
InPush(a) == PushAdmit(a) \/ PushInsert(a) \/ PushRefused(a)
Push(a) == Submit(a) \/ InPush(a)
Work(w) == WorkerPop(w) \/ WorkerStart(w) \/ WorkerFinish(w) \/ WorkerExit(w)
Destroy == DtorClose \/ DtorClosed \/ DtorDone

Running == aborted = "no"

(* The pool is gone, or the process is. *)
Finished == (owner = "done" \/ ~Running) /\ UNCHANGED vars

Next ==
    \/ /\ Running
       /\ \/ \E a \in Workers \cup Clients : Push(a)
          \/ \E w \in Workers : Work(w)
          \/ Destroy
    \/ Finished

Spec == Init /\ [][Next]_vars

-----------------------------------------------------------------------------
(* A worker leaves for good only when the queue is closed and empty, but   *)
(* another may have been admitted by push before the close and insert      *)
(* later: it must be that one that drains it.  As long as a task is queued *)
(* or about to be, some worker is left to run it.                          *)
SomebodyLeft ==
    (items # <<>> \/ \E a \in Actors : op[a] = "admitted") =>
        \E w \in Workers : wpc[w] # "exited"

(* The destructor's promise: when it is done, the queue is empty           *)
(* (assert(tasks_.empty())) and no future of an accepted task is pending.  *)
DestructorDrains ==
    owner = "done" => items = <<>> /\ \A t \in Tasks : fut[t] # "pending"

(* A future is pending exactly while its task is in somebody's hands - the *)
(* submitter's, the queue's, a worker's - and a task has one holder.       *)
Holders(t) ==
    Cardinality({a \in Workers \cup Clients : arg[a] = t})
    + Cardinality({i \in DOMAIN items : items[i] = t})
    + Cardinality({w \in Workers : task[w] = t})
OneHolder ==
    Running => \A t \in Tasks : Holders(t) = IF fut[t] = "pending" THEN 1 ELSE 0

(* A destruction that began comes to an end: with the pool gone, or with   *)
(* the process, when what run_async invoked throws.  (QueuedPool has the   *)
(* fairness, and checks it: it takes the wakeups of the queue.)            *)
DestructorReturns == (owner = "closing") ~> (owner = "done" \/ ~Running)

(* No future stays pending: the task runs, or its refusal is reported. *)
EveryFutureReady ==
    \A t \in Tasks : (fut[t] = "pending") ~> (fut[t] # "pending" \/ ~Running)

(* All of it together: what users of the pool may rely on.  A task changes *)
(* hands in one direction only (offered, queued, running, done), starts in *)
(* the order of the queue and on one worker, whatever the calls of the     *)
(* queue, the workers that leave and the destructor do in between.         *)
Stage == IF owner = "done" THEN "over" ELSE IF closed THEN "closed" ELSE "open"
EX == INSTANCE Executor WITH Slots <- Workers, waiting <- items, running <- task,
                             outcome <- fut, stage <- Stage
IsExecutor == EX!Spec
=============================================================================
