------------------------------ MODULE QueuedPool ------------------------------
(***************************************************************************)
(* The thread pool over the queue of the code: ThreadPool's program, whose *)
(* calls of push, pop and close take the steps of ConcurrentQueue (flag,   *)
(* mutex, condition variable) instead of one effect each.  A thread goes   *)
(* on with its own code in the step in which its call returns.             *)
(***************************************************************************)
EXTENDS PoolProgram

CONSTANTS NoThread, NotifyUnderLock,  \* as in ConcurrentQueue, and its bounds
          MaxCalls, MaxSpurious

ASSUME QueueAssumption ==
    /\ IsFiniteSet(Clients) /\ NoThread \notin Actors
    /\ NotifyUnderLock \in BOOLEAN /\ MaxCalls \in Nat /\ MaxSpurious \in Nat

VARIABLES q, closed, mutex, pc, arg, ret, calls, spurious,  \* the queue
          wpc, task, todo, fut, owner, aborted              \* the pool

queue == <<q, closed, mutex, pc, arg, ret, calls, spurious>>
pool == <<wpc, task, todo, fut, owner, aborted>>
vars == <<queue, pool>>

C == INSTANCE ConcurrentQueue WITH Threads <- Actors, Values <- Tasks,
                                   NoValue <- NoTask, owner <- mutex

Init ==
    /\ C!Init
    /\ wpc = [w \in Workers |-> "loop"]
    /\ task = [w \in Workers |-> NoTask]
    /\ todo = [a \in Workers \cup Clients |->
                  IF a \in Clients THEN Submits[a] ELSE <<>>]
    /\ fut = [t \in Tasks |-> "none"]
    /\ owner = "alive" /\ aborted = "no"

Returns(a) == pc'[a] = "idle"

(* A step of the queue's code that does not end the call. *)
Inside(a) == C!Step(a) /\ ~Returns(a) /\ UNCHANGED pool
Spurious(a) == C!SpuriousWake(a) /\ UNCHANGED pool

-----------------------------------------------------------------------------
Submit(a) ==
    /\ todo[a] # <<>>
    /\ C!Call(a, "push", Head(todo[a]))
    /\ fut' = [fut EXCEPT ![Head(todo[a])] = "pending"]
    /\ UNCHANGED <<wpc, task, todo, owner, aborted>>

Pushed(a) ==
    /\ (C!PushInsert(a) \/ C!PushNotify(a)) /\ Returns(a)
    /\ todo' = [todo EXCEPT ![a] = Tail(@)]
    /\ UNCHANGED <<wpc, task, fut, owner, aborted>>

Refused(a) ==
    /\ C!PushCheck(a) /\ Returns(a)
    /\ IF Asserts
         THEN aborted' = "assert" /\ UNCHANGED <<todo, fut>>
         ELSE /\ fut' = [fut EXCEPT ![arg[a]] = "broken"]
              /\ todo' = [todo EXCEPT ![a] = Tail(@)]
              /\ UNCHANGED aborted
    /\ UNCHANGED <<wpc, task, owner>>

-----------------------------------------------------------------------------
WorkerPop(w) ==
    /\ wpc[w] = "loop"
    /\ C!Call(w, "pop", NoTask)
    /\ wpc' = [wpc EXCEPT ![w] = "pop"]
    /\ UNCHANGED <<task, todo, fut, owner, aborted>>

WorkerStart(w) ==
    /\ C!PopTake(w) /\ ret'[w].tag = "popped"
    /\ LET t == ret'[w].val IN
       /\ wpc' = [wpc EXCEPT ![w] = "run"]
       /\ task' = [task EXCEPT ![w] = t]
       /\ todo' = [todo EXCEPT ![w] = Submits[t]]
       /\ \/ UNCHANGED aborted
          \/ t \in Async \cap Throwing /\ aborted' = "terminate"
    /\ UNCHANGED <<fut, owner>>

WorkerFinish(w) ==
    /\ wpc[w] = "run" /\ pc[w] = "idle"
    /\ wpc' = [wpc EXCEPT ![w] = "loop"]
    /\ task' = [task EXCEPT ![w] = NoTask]
    /\ todo' = [todo EXCEPT ![w] = <<>>]
    /\ \/ todo[w] = <<>> /\ fut' = [fut EXCEPT ![task[w]] = "value"]
       \/ /\ task[w] \in Throwing \ Async
          /\ fut' = [fut EXCEPT ![task[w]] = "exception"]
    /\ UNCHANGED <<queue, owner, aborted>>

(* Mistake: the worker invokes what it got without looking. *)
WorkerExitUnchecked(w) ==
    /\ C!PopTake(w) /\ ret'[w].tag = "nullopt"
    /\ wpc' = [wpc EXCEPT ![w] = "run"]
    /\ UNCHANGED <<task, todo, fut, owner, aborted>>

WorkerExit(w) ==
    /\ C!PopTake(w) /\ ret'[w].tag = "nullopt"
    /\ wpc' = [wpc EXCEPT ![w] = "exited"]
    /\ UNCHANGED <<task, todo, fut, owner, aborted>>

-----------------------------------------------------------------------------
ClientsDone == \A c \in Clients : todo[c] = <<>> /\ pc[c] = "idle"

DtorClose ==
    /\ owner = "alive" /\ ClientsDone
    /\ C!Call(Owner, "close", NoTask)
    /\ owner' = "closing"
    /\ UNCHANGED <<wpc, task, todo, fut, aborted>>

DtorClosed ==
    /\ C!CloseNotify(Owner)
    /\ owner' = "joining"
    /\ UNCHANGED <<wpc, task, todo, fut, aborted>>

(* The workers are gone: nobody contends with the call of empty(). *)
DtorDone ==
    /\ owner = "joining" /\ \A w \in Workers : wpc[w] = "exited"
    /\ IF Asserts /\ q # <<>>
         THEN aborted' = "assert" /\ UNCHANGED <<owner, fut>>
         ELSE /\ owner' = "done"
              /\ fut' = [t \in Tasks |->
                            IF \E i \in DOMAIN q : q[i] = t THEN "broken" ELSE fut[t]]
              /\ UNCHANGED aborted
    /\ UNCHANGED <<queue, wpc, task, todo>>

-----------------------------------------------------------------------------
InCall(a) == Inside(a) \/ Pushed(a) \/ Refused(a)
Work(w) ==
    \/ Submit(w) \/ InCall(w)
    \/ WorkerPop(w) \/ WorkerStart(w) \/ WorkerFinish(w) \/ WorkerExit(w)
Destroy == Inside(Owner) \/ DtorClosed \/ DtorDone

Running == aborted = "no"
Finished == (owner = "done" \/ ~Running) /\ UNCHANGED vars

Next ==
    \/ /\ Running
       /\ \/ \E w \in Workers : Work(w) \/ Spurious(w)
          \/ \E c \in Clients : Submit(c) \/ InCall(c)
          \/ DtorClose \/ Destroy
    \/ Finished

Spec == Init /\ [][Next]_vars

(* A thread inside a call of the pool goes on, a task returns, and so does  *)
(* the destructor once it began; nothing obliges the program to submit or   *)
(* to destroy.  A thread that waits for the mutex is alone with it in the   *)
(* end, since the tasks and so the calls are finitely many.                 *)
FairSpec ==
    /\ Spec
    /\ \A w \in Workers : WF_vars(Running /\ Work(w))
    /\ \A c \in Clients : WF_vars(Running /\ InCall(c))
    /\ WF_vars(Running /\ Destroy)

-----------------------------------------------------------------------------
(* The refinement mapping: a call of the queue takes effect where          *)
(* ConcurrentQueue says; between that step and the return the caller's     *)
(* list, and the destructor, are ahead of the code.                        *)
TP == INSTANCE ThreadPool
        WITH items <- q,
             op <- [a \in Actors |-> C!Phase(pc[a])],
             todo <- [a \in Workers \cup Clients |->
                         IF pc[a] = "push_notify" THEN Tail(todo[a]) ELSE todo[a]],
             owner <- IF pc[Owner] = "close_notify" THEN "joining" ELSE owner

TypeOK == C!TypeOK /\ TP!TypeOK

(* Mutex and condition variable bring no behaviour that the pool over the  *)
(* channel does not have: what is proved of that one holds of the code's.  *)
IsThreadPool == TP!Spec

(* So a pending task is in one pair of hands (the submitter's, the queue's *)
(* or a worker's), and the users of the pool have the executor they rely   *)
(* on, whoever sleeps, is woken or leaves meanwhile.                       *)
OneHolder == TP!OneHolder
IsExecutor == TP!IsExecutor

(* Progress does not follow from it, but from the wakeups: nobody sleeps   *)
(* in pop for ever while there is something to run or the pool is to end.  *)
(* A destruction that began comes to an end, and no future stays pending.  *)
DestructorReturns == TP!DestructorReturns
EveryFutureReady == TP!EveryFutureReady

(* What submit and run_async assert (lines 68 and 94): push is not refused. *)
SubmitNeverRefused == aborted # "assert"
=============================================================================
