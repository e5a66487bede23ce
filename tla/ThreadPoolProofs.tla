--------------------------- MODULE ThreadPoolProofs ---------------------------
(***************************************************************************)
(* Theorems about ThreadPool, for any number of workers and clients and    *)
(* any program of submissions.                                             *)
(*                                                                         *)
(* The argument: a worker leaves only when the queue is closed and empty,  *)
(* the queue is closed only after the program's own threads are done, so   *)
(* whoever still pushes is a worker, and a worker that pushes comes back   *)
(* to pop.  Hence the last worker leaves an empty queue, and a pending     *)
(* future, which always has a holder, has none left to hold it.            *)
(***************************************************************************)
EXTENDS ThreadPool, FiniteSetTheorems, TLAPS

(* Who may be in which call, and what goes with it. *)
WorkerInv ==
    \A w \in Workers :
        /\ wpc[w] = "loop" => op[w] = "idle"
        /\ wpc[w] = "pop" <=> op[w] = "pop"
        /\ wpc[w] = "run" => op[w] \in {"idle", "push", "admitted"}
        /\ wpc[w] = "exited" => op[w] = "idle" /\ closed
        /\ wpc[w] # "run" => todo[w] = <<>> /\ task[w] = NoTask
        /\ op[w] \in {"push", "admitted"} => todo[w] # <<>>

ClientInv ==
    \A c \in Clients : /\ op[c] \in {"idle", "push", "admitted"}
                       /\ op[c] # "idle" => todo[c] # <<>>

OwnerInv ==
    /\ op[Owner] = IF owner = "closing" THEN "close" ELSE "idle"
    /\ closed => owner \in {"joining", "done"}
    /\ owner # "alive" => ClientsDone
    /\ owner = "done" => Running /\ \A w \in Workers : wpc[w] = "exited"

ArgInv ==
    \A a \in Actors : IF op[a] \in {"push", "admitted"} THEN arg[a] \in Tasks
                                                        ELSE arg[a] = NoTask

(* A pending future has a holder: the existence half of OneHolder. *)
Held(t) == \/ \E a \in Actors : arg[a] = t
           \/ \E i \in DOMAIN items : items[i] = t
           \/ \E w \in Workers : task[w] = t
HeldInv == Running => \A t \in Tasks : fut[t] = "pending" => Held(t)

IInv == /\ TypeOK /\ WorkerInv /\ ClientInv /\ OwnerInv /\ ArgInv
        /\ SomebodyLeft /\ HeldInv

-----------------------------------------------------------------------------
(* The channel's results are results. *)
LEMMA ResultType ==
    ASSUME NEW tag \in Q!Tags, NEW v \in Tasks \cup {NoTask}
    PROVE  Q!Result(tag, v) \in Q!Results
  BY DEF Q!Result, Q!Results

(* A call and a return change one caller. *)
LEMMA ReturnType ==
    ASSUME Q!TypeOK, NEW a \in Actors, NEW tag \in Q!Tags,
           NEW v \in Tasks \cup {NoTask}, Q!Return(a, tag, v)
    PROVE  /\ op' \in [Actors -> Q!Phases]
           /\ arg' \in [Actors -> Tasks \cup {NoTask}]
           /\ ret' \in [Actors -> Q!Results]
<1>1. Q!Result(tag, v) \in Q!Results
  BY ResultType
<1> QED BY <1>1 DEF Q!TypeOK, Q!Return, Q!Phases

LEMMA CallType ==
    ASSUME Q!TypeOK, NEW a \in Actors, NEW o \in Q!Operations,
           NEW v \in Tasks \cup {NoTask}, Q!Call(a, o, v)
    PROVE  Q!TypeOK'
<1>1. Q!NoResult \in Q!Results
  BY ResultType DEF Q!NoResult, Q!Tags
<1>2. ret' \in [Actors -> Q!Results]
  BY <1>1 DEF Q!TypeOK, Q!Call
<1>3. op' \in [Actors -> Q!Phases] /\ arg' \in [Actors -> Tasks \cup {NoTask}]
  BY DEF Q!TypeOK, Q!Call, Q!Phases
<1>4. UNCHANGED <<items, closed>>
  BY DEF Q!Call
<1> QED BY <1>2, <1>3, <1>4 DEF Q!TypeOK

(* The submissions have the types of the model. *)
LEMMA SubmitsType == /\ \A c \in Clients : Submits[c] \in Seq(Tasks)
                     /\ \A t \in Tasks : Submits[t] \in Seq(Tasks)
  BY TasksAssumption

(* Every initial state satisfies the invariant. *)
LEMMA InitInv == Init => IInv
<1> SUFFICES ASSUME Init PROVE IInv
  OBVIOUS
<1>1. Q!TypeOK
  <2>1. Q!NoResult \in Q!Results
    BY ResultType DEF Q!NoResult, Q!Tags
  <2>2. "idle" \in Q!Phases
    BY DEF Q!Phases
  <2>3. items \in Seq(Tasks)
    BY DEF Init, Q!Init
  <2> QED BY <2>1, <2>2, <2>3 DEF Init, Q!Init, Q!TypeOK
<1>2. TypeOK
  <2>1. todo \in [Workers \cup Clients -> Seq(Tasks)]
    BY SubmitsType DEF Init
  <2> QED BY <1>1, <2>1 DEF Init, TypeOK
<1>3. WorkerInv /\ ClientInv /\ OwnerInv /\ ArgInv
  BY ActorsAssumption
  DEF Init, Q!Init, WorkerInv, ClientInv, OwnerInv, ArgInv, Actors
<1>4. SomebodyLeft /\ HeldInv
  BY DEF Init, Q!Init, SomebodyLeft, HeldInv
<1> QED BY <1>2, <1>3, <1>4 DEF IInv

-----------------------------------------------------------------------------
(* Whoever is in a push has something to submit. *)
LEMMA Pushing ==
    ASSUME IInv, NEW a \in Workers \cup Clients, op[a] \in {"push", "admitted"}
    PROVE  /\ todo[a] \in Seq(Tasks) /\ todo[a] # <<>> /\ Tail(todo[a]) \in Seq(Tasks)
           /\ arg[a] \in Tasks
<1>1. todo[a] \in Seq(Tasks) /\ todo[a] # <<>>
  BY DEF IInv, TypeOK, WorkerInv, ClientInv
<1>2. arg[a] \in Tasks
  BY DEF IInv, ArgInv, Actors
<1> QED BY <1>1, <1>2

(* Every step keeps the types. *)
LEMMA NextType == IInv /\ [Next]_vars => TypeOK'
<1> SUFFICES ASSUME IInv, [Next]_vars PROVE TypeOK'
  OBVIOUS
<1>0. TypeOK /\ WorkerInv /\ ArgInv /\ Q!TypeOK
  BY DEF IInv, TypeOK
<1>1. CASE UNCHANGED vars
  BY <1>0, <1>1 DEF TypeOK, Q!TypeOK, vars, queue, pool
<1>2. ASSUME NEW a \in Workers \cup Clients, Submit(a) PROVE TypeOK'
  <2>1. Head(todo[a]) \in Tasks
    BY <1>0, <1>2 DEF Submit, TypeOK
  <2>2. Q!TypeOK'
    BY <1>0, <1>2, <2>1, CallType DEF Submit, Actors, Q!Operations
  <2>3. fut' \in [Tasks -> {"none", "pending", "value", "exception", "broken"}]
    BY <1>0, <1>2, <2>1 DEF Submit, TypeOK
  <2> QED BY <1>0, <1>2, <2>2, <2>3 DEF Submit, TypeOK
<1>3. ASSUME NEW a \in Workers \cup Clients, PushAdmit(a) PROVE TypeOK'
  BY <1>0, <1>3 DEF PushAdmit, Q!Admit, TypeOK, Q!TypeOK, Q!Phases, pool, Actors
<1>4. ASSUME NEW a \in Workers \cup Clients, PushInsert(a) PROVE TypeOK'
  <2>1. arg[a] \in Tasks /\ Tail(todo[a]) \in Seq(Tasks)
    BY <1>4, Pushing DEF PushInsert, Q!Insert
  <2>2. /\ op' \in [Actors -> Q!Phases]
        /\ arg' \in [Actors -> Tasks \cup {NoTask}]
        /\ ret' \in [Actors -> Q!Results]
    BY <1>0, <1>4, ReturnType DEF PushInsert, Q!Insert, Actors, Q!Tags
  <2>3. items' \in Seq(Tasks) /\ closed' \in BOOLEAN
    BY <1>0, <1>4, <2>1 DEF PushInsert, Q!Insert, Q!TypeOK
  <2>4. todo' \in [Workers \cup Clients -> Seq(Tasks)]
    BY <1>0, <1>4, <2>1 DEF PushInsert, TypeOK
  <2> QED BY <1>0, <1>4, <2>2, <2>3, <2>4 DEF PushInsert, TypeOK, Q!TypeOK
<1>5. ASSUME NEW a \in Workers \cup Clients, PushRefused(a) PROVE TypeOK'
  <2>1. arg[a] \in Tasks /\ Tail(todo[a]) \in Seq(Tasks)
    BY <1>5, Pushing DEF PushRefused, Q!Refuse
  <2>2. /\ op' \in [Actors -> Q!Phases]
        /\ arg' \in [Actors -> Tasks \cup {NoTask}]
        /\ ret' \in [Actors -> Q!Results]
    BY <1>0, <1>5, ReturnType DEF PushRefused, Q!Refuse, Actors, Q!Tags
  <2>3. Q!TypeOK'
    BY <1>0, <1>5, <2>2 DEF PushRefused, Q!Refuse, Q!TypeOK
  <2>4. todo' \in [Workers \cup Clients -> Seq(Tasks)]
    BY <1>0, <1>5, <2>1 DEF PushRefused, TypeOK
  <2>5. fut' \in [Tasks -> {"none", "pending", "value", "exception", "broken"}]
    BY <1>0, <1>5, <2>1 DEF PushRefused, TypeOK
  <2>6. aborted' \in {"no", "assert", "terminate"}
    BY <1>0, <1>5 DEF PushRefused, TypeOK
  <2> QED BY <1>0, <1>5, <2>3, <2>4, <2>5, <2>6 DEF PushRefused, TypeOK
<1>6. ASSUME NEW w \in Workers, WorkerPop(w) PROVE TypeOK'
  <2>1. Q!TypeOK'
    BY <1>0, <1>6, CallType DEF WorkerPop, Actors, Q!Operations
  <2> QED BY <1>0, <1>6, <2>1 DEF WorkerPop, TypeOK
<1>7. ASSUME NEW w \in Workers, WorkerStart(w) PROVE TypeOK'
  <2>1. Head(items) \in Tasks /\ Tail(items) \in Seq(Tasks)
    BY <1>0, <1>7 DEF WorkerStart, Q!Take, Q!TypeOK
  <2>2. /\ op' \in [Actors -> Q!Phases]
        /\ arg' \in [Actors -> Tasks \cup {NoTask}]
        /\ ret' \in [Actors -> Q!Results]
    BY <1>0, <1>7, <2>1, ReturnType DEF WorkerStart, Q!Take, Actors, Q!Tags
  <2>3. Q!TypeOK'
    BY <1>0, <1>7, <2>1, <2>2 DEF WorkerStart, Q!Take, Q!TypeOK
  <2>4. todo' \in [Workers \cup Clients -> Seq(Tasks)]
    BY <1>0, <1>7, <2>1, SubmitsType DEF WorkerStart, TypeOK
  <2>5. task' \in [Workers -> Tasks \cup {NoTask}]
    BY <1>0, <1>7, <2>1 DEF WorkerStart, TypeOK
  <2>6. /\ wpc' \in [Workers -> {"loop", "pop", "run", "exited"}]
        /\ aborted' \in {"no", "assert", "terminate"}
        /\ UNCHANGED <<fut, owner>>
    BY <1>0, <1>7 DEF WorkerStart, TypeOK
  <2>7. \A u \in Workers : wpc'[u] = "run" => task'[u] \in Tasks
    BY <1>0, <1>7, <2>1 DEF WorkerStart, TypeOK
  <2> QED BY <1>0, <2>3, <2>4, <2>5, <2>6, <2>7 DEF TypeOK
<1>8. ASSUME NEW w \in Workers, WorkerFinish(w) PROVE TypeOK'
  <2>1. task' \in [Workers -> Tasks \cup {NoTask}]
    BY <1>0, <1>8 DEF WorkerFinish, TypeOK
  <2>2. wpc' \in [Workers -> {"loop", "pop", "run", "exited"}]
    BY <1>0, <1>8 DEF WorkerFinish, TypeOK
  <2>3. fut' \in [Tasks -> {"none", "pending", "value", "exception", "broken"}]
    BY <1>0, <1>8 DEF WorkerFinish, TypeOK
  <2>4. todo' \in [Workers \cup Clients -> Seq(Tasks)]
    BY <1>0, <1>8 DEF WorkerFinish, TypeOK
  <2>5. UNCHANGED <<owner, aborted>> /\ Q!TypeOK'
    BY <1>0, <1>8 DEF WorkerFinish, queue, Q!TypeOK
  <2>6. \A u \in Workers : wpc'[u] = "run" => task'[u] \in Tasks
    BY <1>0, <1>8 DEF WorkerFinish, TypeOK
  <2> QED BY <1>0, <2>1, <2>2, <2>3, <2>4, <2>5, <2>6 DEF TypeOK
<1>9. ASSUME NEW w \in Workers, WorkerExit(w) PROVE TypeOK'
  <2>1. /\ op' \in [Actors -> Q!Phases]
        /\ arg' \in [Actors -> Tasks \cup {NoTask}]
        /\ ret' \in [Actors -> Q!Results]
    BY <1>0, <1>9, ReturnType DEF WorkerExit, Q!Drained, Actors, Q!Tags
  <2>2. Q!TypeOK'
    BY <1>0, <1>9, <2>1 DEF WorkerExit, Q!Drained, Q!TypeOK
  <2> QED BY <1>0, <1>9, <2>2 DEF WorkerExit, TypeOK
<1>10. CASE DtorClose
  <2>1. Q!TypeOK'
    BY <1>0, <1>10, CallType DEF DtorClose, Actors, Q!Operations
  <2> QED BY <1>0, <1>10, <2>1 DEF DtorClose, TypeOK
<1>11. CASE DtorClosed
  <2>1. /\ op' \in [Actors -> Q!Phases]
        /\ arg' \in [Actors -> Tasks \cup {NoTask}]
        /\ ret' \in [Actors -> Q!Results]
    BY <1>0, <1>11, ReturnType DEF DtorClosed, Q!Close, Actors, Q!Tags
  <2>2. Q!TypeOK'
    BY <1>0, <1>11, <2>1 DEF DtorClosed, Q!Close, Q!TypeOK
  <2> QED BY <1>0, <1>11, <2>2 DEF DtorClosed, TypeOK
<1>12. CASE DtorDone
  <2>1. fut' \in [Tasks -> {"none", "pending", "value", "exception", "broken"}]
    BY <1>0, <1>12 DEF DtorDone, TypeOK
  <2>2. Q!TypeOK'
    BY <1>0, <1>12 DEF DtorDone, queue, Q!TypeOK
  <2> QED BY <1>0, <1>12, <2>1, <2>2 DEF DtorDone, TypeOK
<1> QED
  BY <1>1, <1>2, <1>3, <1>4, <1>5, <1>6, <1>7, <1>8, <1>9, <1>10, <1>11, <1>12
  DEF Next, Push, InPush, Work, Destroy, Finished

-----------------------------------------------------------------------------
(* Every step keeps the relations between the calls and the pool's state. *)
LEMMA NextCalls ==
    IInv /\ [Next]_vars => WorkerInv' /\ ClientInv' /\ OwnerInv' /\ ArgInv'
<1> SUFFICES ASSUME IInv, [Next]_vars
             PROVE  WorkerInv' /\ ClientInv' /\ OwnerInv' /\ ArgInv'
  OBVIOUS
<1>0. TypeOK /\ WorkerInv /\ ClientInv /\ OwnerInv /\ ArgInv
  BY DEF IInv
<1> USE ActorsAssumption, TasksAssumption
<1>1. CASE UNCHANGED vars
  BY <1>0, <1>1 DEF vars, queue, pool, WorkerInv, ClientInv, OwnerInv, ArgInv,
                     ClientsDone, Running
<1>2. ASSUME NEW a \in Workers \cup Clients, Submit(a)
      PROVE  WorkerInv' /\ ClientInv' /\ OwnerInv' /\ ArgInv'
  <2>1. WorkerInv'
    BY <1>0, <1>2 DEF Submit, Q!Call, TypeOK, Q!TypeOK, Actors, WorkerInv
  <2>2. ClientInv' /\ ArgInv'
    BY <1>0, <1>2 DEF Submit, Q!Call, TypeOK, Q!TypeOK, Actors, ClientInv, ArgInv
  <2>3. OwnerInv'
    BY <1>0, <1>2 DEF Submit, Q!Call, TypeOK, Q!TypeOK, Actors, OwnerInv, WorkerInv,
                      ClientsDone, Running
  <2> QED BY <2>1, <2>2, <2>3
<1>3. ASSUME NEW a \in Workers \cup Clients, PushAdmit(a)
      PROVE  WorkerInv' /\ ClientInv' /\ OwnerInv' /\ ArgInv'
  <2>1. WorkerInv' /\ ClientInv' /\ ArgInv'
    BY <1>0, <1>3 DEF PushAdmit, Q!Admit, pool, TypeOK, Q!TypeOK, Actors, WorkerInv,
                      ClientInv, ArgInv
  <2>2. OwnerInv'
    BY <1>0, <1>3 DEF PushAdmit, Q!Admit, pool, TypeOK, Q!TypeOK, Actors, OwnerInv,
                      ClientsDone, Running
  <2> QED BY <2>1, <2>2
<1>4. ASSUME NEW a \in Workers \cup Clients, PushInsert(a) \/ PushRefused(a)
      PROVE  WorkerInv' /\ ClientInv' /\ OwnerInv' /\ ArgInv'
  <2>0. /\ op[a] \in {"push", "admitted"} /\ op' = [op EXCEPT ![a] = "idle"]
        /\ arg' = [arg EXCEPT ![a] = NoTask]
        /\ UNCHANGED <<closed, wpc, task, owner>>
        /\ todo' \in {todo, [todo EXCEPT ![a] = Tail(@)]}
    BY <1>4 DEF PushInsert, PushRefused, Q!Insert, Q!Refuse, Q!Return
  <2>1. WorkerInv'
    BY <1>0, <2>0 DEF TypeOK, Q!TypeOK, Actors, WorkerInv
  <2>2. ClientInv' /\ ArgInv'
    BY <1>0, <2>0 DEF TypeOK, Q!TypeOK, Actors, ClientInv, ArgInv
  <2>3. OwnerInv'
    <3>1. owner # "done"
      BY <1>0, <2>0 DEF OwnerInv, ClientsDone, WorkerInv
    <3> QED BY <1>0, <2>0, <3>1 DEF TypeOK, Q!TypeOK, Actors, OwnerInv, ClientsDone
  <2> QED BY <2>1, <2>2, <2>3
<1>5. ASSUME NEW w \in Workers, WorkerPop(w)
      PROVE  WorkerInv' /\ ClientInv' /\ OwnerInv' /\ ArgInv'
  <2>1. WorkerInv'
    BY <1>0, <1>5 DEF WorkerPop, Q!Call, TypeOK, Q!TypeOK, Actors, WorkerInv
  <2>2. ClientInv' /\ OwnerInv' /\ ArgInv'
    BY <1>0, <1>5 DEF WorkerPop, Q!Call, TypeOK, Q!TypeOK, Actors, ClientInv, OwnerInv,
                      ArgInv, ClientsDone, Running
  <2> QED BY <2>1, <2>2
<1>6. ASSUME NEW w \in Workers, WorkerStart(w)
      PROVE  WorkerInv' /\ ClientInv' /\ OwnerInv' /\ ArgInv'
  <2>0. /\ op[w] = "pop" /\ op' = [op EXCEPT ![w] = "idle"]
        /\ arg' = [arg EXCEPT ![w] = NoTask]
        /\ wpc' = [wpc EXCEPT ![w] = "run"]
        /\ task' = [task EXCEPT ![w] = Head(items)]
        /\ todo' = [todo EXCEPT ![w] = Submits[Head(items)]]
        /\ UNCHANGED <<closed, owner>>
    BY <1>6 DEF WorkerStart, Q!Take, Q!Return
  <2>1. WorkerInv'
    BY <1>0, <2>0 DEF TypeOK, Q!TypeOK, Actors, WorkerInv
  <2>2. ClientInv' /\ OwnerInv' /\ ArgInv'
    BY <1>0, <2>0 DEF TypeOK, Q!TypeOK, Actors, ClientInv, OwnerInv, WorkerInv, ArgInv,
                      ClientsDone, Running
  <2> QED BY <2>1, <2>2
<1>7. ASSUME NEW w \in Workers, WorkerFinish(w)
      PROVE  WorkerInv' /\ ClientInv' /\ OwnerInv' /\ ArgInv'
  <2>1. WorkerInv'
    BY <1>0, <1>7 DEF WorkerFinish, queue, TypeOK, Q!TypeOK, WorkerInv
  <2>2. ClientInv' /\ OwnerInv' /\ ArgInv'
    BY <1>0, <1>7 DEF WorkerFinish, queue, TypeOK, Q!TypeOK, Actors, ClientInv, OwnerInv,
                      ArgInv, ClientsDone, Running
  <2> QED BY <2>1, <2>2
<1>8. ASSUME NEW w \in Workers, WorkerExit(w)
      PROVE  WorkerInv' /\ ClientInv' /\ OwnerInv' /\ ArgInv'
  <2>0. /\ op[w] = "pop" /\ closed /\ op' = [op EXCEPT ![w] = "idle"]
        /\ arg' = [arg EXCEPT ![w] = NoTask]
        /\ wpc' = [wpc EXCEPT ![w] = "exited"]
        /\ UNCHANGED <<closed, owner, task, todo, aborted>>
    BY <1>8 DEF WorkerExit, Q!Drained, Q!Return
  <2>1. WorkerInv'
    BY <1>0, <2>0 DEF TypeOK, Q!TypeOK, Actors, WorkerInv
  <2>2. ClientInv' /\ OwnerInv' /\ ArgInv'
    BY <1>0, <2>0 DEF TypeOK, Q!TypeOK, Actors, ClientInv, OwnerInv,
                      ArgInv, ClientsDone, Running
  <2> QED BY <2>1, <2>2
<1>9. CASE DtorClose
  <2>1. WorkerInv' /\ ClientInv'
    BY <1>0, <1>9 DEF DtorClose, Q!Call, TypeOK, Q!TypeOK, Actors, WorkerInv, ClientInv
  <2>2. OwnerInv' /\ ArgInv'
    BY <1>0, <1>9 DEF DtorClose, Q!Call, TypeOK, Q!TypeOK, Actors, OwnerInv,
                      ArgInv, ClientsDone, Running
  <2> QED BY <2>1, <2>2
<1>10. CASE DtorClosed
  <2>1. WorkerInv' /\ ClientInv'
    BY <1>0, <1>10 DEF DtorClosed, Q!Close, Q!Return, TypeOK, Q!TypeOK, Actors, WorkerInv,
                       ClientInv
  <2>2. OwnerInv' /\ ArgInv'
    BY <1>0, <1>10 DEF DtorClosed, Q!Close, Q!Return, TypeOK, Q!TypeOK, Actors, OwnerInv,
                       ArgInv, ClientsDone, Running
  <2> QED BY <2>1, <2>2
<1>11. CASE Running /\ DtorDone
  BY <1>0, <1>11 DEF DtorDone, queue, TypeOK, Q!TypeOK, WorkerInv, ClientInv, OwnerInv,
                     ArgInv, ClientsDone, Running
<1> QED
  BY <1>1, <1>2, <1>3, <1>4, <1>5, <1>6, <1>7, <1>8, <1>9, <1>10, <1>11
  DEF Next, Push, InPush, Work, Destroy, Finished

(* A worker that leaves sees an empty closed queue; who is still to insert *)
(* is then a worker, and it is running a task.                             *)
LEMMA NextLeft == IInv /\ [Next]_vars => SomebodyLeft'
<1> SUFFICES ASSUME IInv, [Next]_vars,
                    (items # <<>> \/ \E a \in Actors : op[a] = "admitted")'
             PROVE  \E w \in Workers : wpc'[w] # "exited"
  BY DEF SomebodyLeft
<1>0. /\ TypeOK /\ WorkerInv /\ ClientInv /\ OwnerInv /\ Q!TypeOK
      /\ (items # <<>> \/ \E a \in Actors : op[a] = "admitted") =>
             \E w \in Workers : wpc[w] # "exited"
  BY DEF IInv, TypeOK, SomebodyLeft
<1> USE ActorsAssumption
<1>1. CASE UNCHANGED vars
  BY <1>0, <1>1 DEF vars, queue, pool
<1>2. ASSUME NEW a \in Workers \cup Clients, PushAdmit(a)
      PROVE  \E w \in Workers : wpc'[w] # "exited"
  <2>1. \A w \in Workers : wpc[w] # "exited"
    BY <1>0, <1>2 DEF PushAdmit, Q!Admit, WorkerInv
  <2> QED BY <1>2, <2>1 DEF PushAdmit, pool
<1>3. ASSUME NEW a \in Workers \cup Clients,
             Submit(a) \/ PushInsert(a) \/ PushRefused(a)
      PROVE  \E w \in Workers : wpc'[w] # "exited"
  <2>1. items # <<>> \/ \E b \in Actors : op[b] = "admitted"
    BY <1>0, <1>3 DEF Submit, PushInsert, PushRefused, Q!Call, Q!Insert, Q!Refuse,
                      Q!Return, Q!TypeOK, Actors
  <2> QED BY <1>0, <1>3, <2>1 DEF Submit, PushInsert, PushRefused
<1>4. ASSUME NEW w \in Workers, WorkerPop(w) \/ WorkerStart(w) \/ WorkerFinish(w)
      PROVE  \E u \in Workers : wpc'[u] # "exited"
  <2>1. wpc'[w] # "exited"
    BY <1>0, <1>4 DEF WorkerPop, WorkerStart, WorkerFinish, TypeOK
  <2> QED BY <2>1
<1>5. ASSUME NEW w \in Workers, WorkerExit(w)
      PROVE  \E u \in Workers : wpc'[u] # "exited"
  <2>1. closed /\ items' = <<>> /\ op' = [op EXCEPT ![w] = "idle"]
    BY <1>5 DEF WorkerExit, Q!Drained, Q!Return
  <2>2. PICK a \in Actors : op'[a] = "admitted"
    BY <2>1
  <2>3. a # w /\ op[a] = "admitted"
    BY <1>0, <2>1, <2>2 DEF Q!TypeOK
  <2>4. a \in Workers
    BY <1>0, <2>1, <2>3 DEF OwnerInv, ClientsDone, Actors
  <2>5. wpc[a] # "exited"
    BY <1>0, <2>3, <2>4 DEF WorkerInv
  <2> QED BY <1>0, <1>5, <2>3, <2>4, <2>5 DEF WorkerExit, TypeOK
<1>6. ASSUME DtorClose \/ DtorClosed \/ DtorDone
      PROVE  \E w \in Workers : wpc'[w] # "exited"
  <2>1. items # <<>> \/ \E b \in Actors : op[b] = "admitted"
    BY <1>0, <1>6 DEF DtorClose, DtorClosed, DtorDone, Q!Call, Q!Close, Q!Return, queue,
                      Q!TypeOK, Actors
  <2> QED BY <1>0, <1>6, <2>1 DEF DtorClose, DtorClosed, DtorDone
<1> QED
  BY <1>1, <1>2, <1>3, <1>4, <1>5, <1>6
  DEF Next, Push, InPush, Work, Destroy, Finished

-----------------------------------------------------------------------------
(* A task goes from hand to hand: submitter, queue, worker. *)
LEMMA NextHeld == IInv /\ [Next]_vars => HeldInv'
<1> SUFFICES ASSUME IInv, [Next]_vars, Running', NEW t \in Tasks, fut'[t] = "pending"
             PROVE  Held(t)'
  BY DEF HeldInv
<1>0. /\ TypeOK /\ Q!TypeOK /\ WorkerInv /\ ArgInv
      /\ Running /\ fut[t] = "pending" => Held(t)
  BY DEF IInv, TypeOK, HeldInv
<1> USE <1>0
<1> USE ActorsAssumption, TasksAssumption DEF Held
<1>1. CASE UNCHANGED vars
  BY <1>1 DEF vars, queue, pool, Running
<1>2. ASSUME NEW a \in Workers \cup Clients, Running, Submit(a) PROVE Held(t)'
  <2>1. CASE t = Head(todo[a])
    BY <1>2, <2>1 DEF Submit, Q!Call, Q!TypeOK, Actors
  <2>2. CASE t # Head(todo[a])
    <3>1. fut[t] = "pending" /\ arg[a] = NoTask
      BY <1>2, <2>2 DEF Submit, Q!Call, TypeOK, ArgInv, Actors
    <3> QED BY <1>2, <3>1 DEF Submit, Q!Call, Q!TypeOK, Actors
  <2> QED BY <2>1, <2>2
<1>3. ASSUME NEW a \in Workers \cup Clients, Running, PushAdmit(a) PROVE Held(t)'
  BY <1>3 DEF PushAdmit, Q!Admit, pool
<1>4. ASSUME NEW a \in Workers \cup Clients, Running, PushInsert(a) PROVE Held(t)'
  <2>1. /\ items' = Append(items, arg[a]) /\ arg' = [arg EXCEPT ![a] = NoTask]
        /\ UNCHANGED <<task, fut>> /\ items \in Seq(Tasks) /\ arg[a] \in Tasks
    BY <1>4, Pushing DEF PushInsert, Q!Insert, Q!Return, Q!TypeOK
  <2>2. CASE arg[a] = t
    <3>1. Len(items) + 1 \in DOMAIN items' /\ items'[Len(items) + 1] = t
      BY <2>1, <2>2
    <3> QED BY <3>1
  <2>3. CASE \E i \in DOMAIN items : items[i] = t
    <3>1. PICK i \in DOMAIN items : items[i] = t
      BY <2>3
    <3>2. i \in DOMAIN items' /\ items'[i] = t
      BY <2>1, <3>1
    <3> QED BY <3>2
  <2>4. CASE \E w \in Workers : task[w] = t
    BY <2>1, <2>4
  <2>5. CASE \E b \in Actors : b # a /\ arg[b] = t
    BY <2>1, <2>5 DEF Q!TypeOK
  <2> QED BY <1>4, <2>1, <2>2, <2>3, <2>4, <2>5
<1>5. ASSUME NEW a \in Workers \cup Clients, Running, PushRefused(a) PROVE Held(t)'
  <2>1. /\ arg[a] \in Tasks /\ arg' = [arg EXCEPT ![a] = NoTask]
        /\ fut' = [fut EXCEPT ![arg[a]] = "broken"] /\ UNCHANGED <<items, task>>
    BY <1>5, Pushing DEF PushRefused, Q!Refuse, Q!Return, Running
  <2>2. t # arg[a] /\ fut[t] = "pending"
    BY <2>1 DEF TypeOK
  <2> QED BY <1>5, <2>1, <2>2 DEF Q!TypeOK
<1>6. ASSUME NEW w \in Workers, Running, WorkerPop(w) PROVE Held(t)'
  <2>1. arg' = arg
    BY <1>6 DEF WorkerPop, Q!Call, Q!TypeOK, WorkerInv, ArgInv, Actors
  <2> QED BY <1>6, <2>1 DEF WorkerPop, Q!Call
<1>7. ASSUME NEW w \in Workers, Running, WorkerStart(w) PROVE Held(t)'
  <2>1. /\ items # <<>> /\ items' = Tail(items) /\ items \in Seq(Tasks)
        /\ arg[w] = NoTask /\ arg' = [arg EXCEPT ![w] = NoTask]
        /\ task[w] = NoTask /\ task' = [task EXCEPT ![w] = Head(items)]
        /\ fut' = fut
    BY <1>7 DEF WorkerStart, Q!Take, Q!Return, Q!TypeOK, WorkerInv, ArgInv, Actors
  <2>2. CASE Head(items) = t
    BY <2>1, <2>2 DEF TypeOK
  <2>3. CASE \E i \in DOMAIN items : items[i] = t /\ i # 1
    <3>1. PICK i \in DOMAIN items : items[i] = t /\ i # 1
      BY <2>3
    <3>2. i - 1 \in DOMAIN items' /\ items'[i - 1] = t
      BY <2>1, <3>1
    <3> QED BY <3>2
  <2>4. CASE \E a \in Actors : arg[a] = t
    BY <2>1, <2>4 DEF Q!TypeOK
  <2>5. CASE \E u \in Workers : task[u] = t
    BY <2>1, <2>5 DEF TypeOK
  <2>6. items[1] = Head(items)
    BY <2>1
  <2> QED BY <1>7, <2>1, <2>2, <2>3, <2>4, <2>5, <2>6
<1>8. ASSUME NEW w \in Workers, Running, WorkerFinish(w) PROVE Held(t)'
  <2>1. t # task[w] /\ fut[t] = "pending"
    BY <1>8 DEF WorkerFinish, TypeOK
  <2> QED BY <1>8, <2>1 DEF WorkerFinish, queue, TypeOK
<1>9. ASSUME NEW w \in Workers, Running, WorkerExit(w) PROVE Held(t)'
  BY <1>9 DEF WorkerExit, Q!Drained, Q!Return, Q!TypeOK, WorkerInv, ArgInv, Actors
<1>10. ASSUME Running, DtorClose \/ DtorClosed PROVE Held(t)'
  <2>1. /\ arg' = [arg EXCEPT ![Owner] = NoTask] /\ arg[Owner] = NoTask
        /\ UNCHANGED <<items, task, fut>>
    BY <1>10 DEF DtorClose, DtorClosed, Q!Call, Q!Close, Q!Return, ArgInv, Actors
  <2> QED BY <1>10, <2>1 DEF Q!TypeOK
<1>11. ASSUME Running, DtorDone PROVE Held(t)'
  <2>1. fut[t] = "pending"
    BY <1>11 DEF DtorDone, TypeOK, Running
  <2> QED BY <1>11, <2>1 DEF DtorDone, queue
<1> QED
  BY <1>1, <1>2, <1>3, <1>4, <1>5, <1>6, <1>7, <1>8, <1>9, <1>10, <1>11
  DEF Next, Push, InPush, Work, Destroy, Finished

-----------------------------------------------------------------------------
(* IInv holds in every reachable state. *)
LEMMA Invariance == Spec => []IInv
<1>1. IInv /\ [Next]_vars => IInv'
  BY NextType, NextCalls, NextLeft, NextHeld DEF IInv
<1> QED BY <1>1, InitInv, PTL DEF Spec

(* Type correctness: submissions, calls and results of run() and submit. *)
THEOREM TypeCorrect == Spec => []TypeOK
  BY Invariance, PTL DEF IInv

(* While a task is queued, or about to be, a worker is left to run it. *)
THEOREM SomebodyIsLeft == Spec => []SomebodyLeft
  BY Invariance, PTL DEF IInv

(* ~ThreadPool's assert(tasks_.empty()) holds, and no accepted task's      *)
(* future is pending when the destructor is done.                          *)
THEOREM DestructorHasDrained == Spec => []DestructorDrains
<1>1. IInv => DestructorDrains
  <2> SUFFICES ASSUME IInv, owner = "done"
               PROVE  items = <<>> /\ \A t \in Tasks : fut[t] # "pending"
    BY DEF DestructorDrains
  <2>1. /\ TypeOK /\ WorkerInv /\ ClientInv /\ ArgInv /\ HeldInv
        /\ Running /\ ClientsDone /\ \A w \in Workers : wpc[w] = "exited"
        /\ op[Owner] = "idle" /\ items = <<>>
    BY DEF IInv, OwnerInv, SomebodyLeft
  <2>2. \A a \in Actors : arg[a] \notin Tasks
    BY <2>1, TasksAssumption DEF ArgInv, WorkerInv, ClientsDone, Actors
  <2>3. \A w \in Workers : task[w] \notin Tasks
    BY <2>1, TasksAssumption DEF WorkerInv
  <2> QED BY <2>1, <2>2, <2>3 DEF HeldInv, Held
<1> QED BY <1>1, Invariance, PTL

-----------------------------------------------------------------------------
(* One holder.  A task has one place in one submitter's list, its          *)
(* submitter starts at most once, and what an unstarted or unfinished      *)
(* submitter has still to submit is in nobody's hands.                     *)
Submitters == Workers \cup Clients
Pushes(a) == op[a] \in {"push", "admitted"}
Source(a) == IF a \in Clients THEN a ELSE task[a]

PlacesInv ==
    /\ \A a, b \in Actors : arg[a] \in Tasks /\ arg[a] = arg[b] => a = b
    /\ \A i, j \in DOMAIN items : items[i] = items[j] => i = j
    /\ \A w, u \in Workers : task[w] \in Tasks /\ task[w] = task[u] => w = u
    /\ \A a \in Actors, i \in DOMAIN items : items[i] # arg[a]
    /\ \A a \in Actors, w \in Workers : arg[a] \in Tasks => task[w] # arg[a]
    /\ \A i \in DOMAIN items, w \in Workers : items[i] # task[w]
    /\ \A t \in Tasks : Held(t) => fut[t] = "pending"

TodoInv ==
    \A a \in Submitters :
        /\ Pushes(a) => arg[a] = todo[a][1]
        /\ \A i \in DOMAIN todo[a] :
              /\ \E j \in DOMAIN Submits[Source(a)] : Submits[Source(a)][j] = todo[a][i]
              /\ \A j \in DOMAIN todo[a] : todo[a][i] = todo[a][j] => i = j
              /\ fut[todo[a][i]] = "none" \/ (i = 1 /\ Pushes(a))

UnstartedInv ==
    \A b \in Tasks :
        fut[b] \in {"none", "pending"} /\ (\A w \in Workers : task[w] # b) =>
            \A i \in DOMAIN Submits[b] : fut[Submits[b][i]] = "none"

HolderInv == Running => PlacesInv /\ TodoInv /\ UnstartedInv

LEMMA InitHolder == Init => HolderInv
<1> SUFFICES ASSUME Init PROVE PlacesInv /\ TodoInv /\ UnstartedInv
  BY DEF HolderInv
<1>1. /\ \A a \in Actors : arg[a] = NoTask /\ op[a] = "idle"
      /\ items = <<>> /\ \A w \in Workers : task[w] = NoTask
      /\ \A t \in Tasks : fut[t] = "none"
      /\ \A w \in Workers : todo[w] = IF w \in Clients THEN Submits[w] ELSE <<>>
      /\ \A c \in Clients : todo[c] = Submits[c]
  BY DEF Init, Q!Init
<1>2. PlacesInv
  BY <1>1, TasksAssumption DEF PlacesInv, Held
<1>3. UnstartedInv
  BY <1>1, TasksAssumption DEF UnstartedInv
<1>4. TodoInv
  <2> SUFFICES ASSUME NEW a \in Submitters
               PROVE  /\ Pushes(a) => arg[a] = todo[a][1]
                      /\ \A i \in DOMAIN todo[a] :
                            /\ \E j \in DOMAIN Submits[Source(a)] :
                                   Submits[Source(a)][j] = todo[a][i]
                            /\ \A j \in DOMAIN todo[a] : todo[a][i] = todo[a][j] => i = j
                            /\ fut[todo[a][i]] = "none" \/ (i = 1 /\ Pushes(a))
    BY DEF TodoInv
  <2>1. ~Pushes(a)
    BY <1>1 DEF Pushes, Submitters, Actors
  <2>2. CASE a \in Clients
    <3>1. todo[a] = Submits[a] /\ Source(a) = a /\ Submits[a] \in Seq(Tasks)
      BY <1>1, <2>2, TasksAssumption DEF Source
    <3>2. \A i, j \in DOMAIN Submits[a] : Submits[a][i] = Submits[a][j] => i = j
      BY <2>2, SubmitsAssumption
    <3>3. \A i \in DOMAIN Submits[a] : Submits[a][i] \in Tasks
      BY <3>1
    <3> QED BY <1>1, <2>1, <3>1, <3>2, <3>3
  <2>3. CASE a \notin Clients
    BY <1>1, <2>1, <2>3 DEF Submitters
  <2> QED BY <2>2, <2>3
<1> QED BY <1>2, <1>3, <1>4

(* A task is on one submitter's list, and that submitter is at work.       *)
LEMMA SourceType ==
    ASSUME IInv, TodoInv, NEW a \in Submitters, NEW i \in DOMAIN todo[a]
    PROVE  /\ Source(a) \in Clients \cup Tasks
           /\ a \notin Clients => a \in Workers /\ Source(a) = task[a] /\ task[a] \in Tasks
           /\ todo[a] \in Seq(Tasks) /\ todo[a][i] \in Tasks
<1>1. todo[a] \in Seq(Tasks)
  BY DEF IInv, TypeOK, Submitters
<1>2. todo[a] # <<>>
  BY <1>1
<1>3. a \notin Clients => task[a] \in Tasks
  BY <1>2 DEF IInv, TypeOK, WorkerInv, Submitters
<1> QED BY <1>1, <1>3 DEF Source, Submitters

LEMMA SourceUnique ==
    ASSUME IInv, TodoInv, PlacesInv, NEW a \in Submitters, NEW i \in DOMAIN todo[a]
    PROVE  /\ \A b \in Submitters : \A j \in DOMAIN todo[b] :
                 todo[b][j] = todo[a][i] => b = a
           /\ \A b \in Tasks : \A j \in DOMAIN Submits[b] :
                 Submits[b][j] = todo[a][i] => a \in Workers /\ task[a] = b
<1>1. PICK k \in DOMAIN Submits[Source(a)] : Submits[Source(a)][k] = todo[a][i]
  BY DEF TodoInv
<1>2. ASSUME NEW b \in Submitters, NEW j \in DOMAIN todo[b], todo[b][j] = todo[a][i]
      PROVE  b = a
  <2>1. PICK l \in DOMAIN Submits[Source(b)] : Submits[Source(b)][l] = todo[b][j]
    BY DEF TodoInv
  <2>2. Source(a) = Source(b)
    BY <1>1, <1>2, <2>1, SourceType, SubmitsAssumption
  <2>3. /\ a \notin Clients => a \in Workers /\ Source(a) = task[a] /\ task[a] \in Tasks
        /\ b \notin Clients => b \in Workers /\ Source(b) = task[b] /\ task[b] \in Tasks
    BY SourceType
  <2>4. /\ a \in Clients => Source(a) = a
        /\ b \in Clients => Source(b) = b
    BY DEF Source
  <2>5. Clients \cap Tasks = {}
    BY TasksAssumption
  <2>6. \A w, u \in Workers : task[w] \in Tasks /\ task[w] = task[u] => w = u
    BY DEF PlacesInv
  <2> QED BY <2>2, <2>3, <2>4, <2>5, <2>6
<1>3. ASSUME NEW b \in Tasks, NEW j \in DOMAIN Submits[b], Submits[b][j] = todo[a][i]
      PROVE  a \in Workers /\ task[a] = b
  <2>1. Source(a) = b
    BY <1>1, <1>3, SourceType, SubmitsAssumption
  <2>2. a \notin Clients
    BY <2>1, TasksAssumption DEF Source
  <2> QED BY <2>1, <2>2, SourceType
<1> QED BY <1>2, <1>3

-----------------------------------------------------------------------------
(* Steps that move no task. *)
LEMMA QuietHolder ==
    ASSUME PlacesInv, TodoInv, UnstartedInv, TypeOK, UNCHANGED <<items, task, todo, arg>>,
           \A t \in Tasks : fut'[t] = fut[t],
           \A a \in Submitters : Pushes(a)' = Pushes(a)
    PROVE  PlacesInv' /\ TodoInv' /\ UnstartedInv'
<1>1. PlacesInv'
  BY DEF PlacesInv, Held
<1>2. UnstartedInv'
  <2>1. \A b \in Tasks : \A i \in DOMAIN Submits[b] : Submits[b][i] \in Tasks
    BY TasksAssumption
  <2> QED BY <2>1 DEF UnstartedInv
<1>3. TodoInv'
  <2>1. \A a \in Submitters : \A i \in DOMAIN todo[a] : todo[a][i] \in Tasks
    BY DEF TypeOK, Submitters
  <2>2. \A a \in Submitters : Source(a)' = Source(a)
    BY DEF Source
  <2> QED BY <2>1, <2>2 DEF TodoInv
<1> QED BY <1>1, <1>2, <1>3

(* A submission takes the next task of the submitter's list. *)
LEMMA SubmitHolder ==
    ASSUME IInv, PlacesInv, TodoInv, UnstartedInv, NEW a \in Submitters, Submit(a)
    PROVE  PlacesInv' /\ TodoInv' /\ UnstartedInv'
<1> DEFINE t == todo[a][1]
<1>0. TypeOK /\ WorkerInv /\ ArgInv /\ Q!TypeOK /\ a \in Actors
  BY DEF IInv, TypeOK, Submitters, Actors
<1>1. todo[a] \in Seq(Tasks) /\ todo[a] # <<>> /\ 1 \in DOMAIN todo[a] /\ t \in Tasks
      /\ t = Head(todo[a])
  BY <1>0 DEF Submit, TypeOK, Submitters
<1>2. /\ op[a] = "idle" /\ op' = [op EXCEPT ![a] = "push"] /\ arg[a] = NoTask
      /\ arg' = [arg EXCEPT ![a] = t] /\ fut' = [fut EXCEPT ![t] = "pending"]
      /\ UNCHANGED <<items, task, todo>>
  BY <1>0, <1>1 DEF Submit, Q!Call, ArgInv
<1>3. /\ \A b \in Actors : arg'[b] = IF b = a THEN t ELSE arg[b]
      /\ \A u \in Tasks : fut'[u] = IF u = t THEN "pending" ELSE fut[u]
      /\ \A b \in Submitters : Pushes(b)' <=> b = a \/ Pushes(b)
  BY <1>0, <1>1, <1>2 DEF Q!TypeOK, TypeOK, Pushes, Submitters, Actors
<1>4. fut[t] = "none" /\ ~Held(t)
  BY <1>1, <1>2 DEF TodoInv, Pushes, PlacesInv
<1>5. PlacesInv'
  <2>1. /\ \A b \in Actors : arg[b] # t
        /\ \A w \in Workers : task[w] # t
        /\ \A i \in DOMAIN items : items[i] # t
    BY <1>4 DEF Held
  <2>2. \A u \in Tasks : Held(u)' => u = t \/ Held(u)
    BY <1>2, <1>3 DEF Held
  <2>3. \A u \in Tasks : Held(u)' => fut'[u] = "pending"
    BY <1>3, <2>2 DEF PlacesInv
  <2>4. \A b, c \in Actors : arg'[b] \in Tasks /\ arg'[b] = arg'[c] => b = c
    BY <1>3, <2>1 DEF PlacesInv
  <2>5. \A b \in Actors, i \in DOMAIN items : items[i] # arg'[b]
    BY <1>3, <2>1 DEF PlacesInv
  <2>6. \A b \in Actors, w \in Workers : arg'[b] \in Tasks => task[w] # arg'[b]
    BY <1>3, <2>1 DEF PlacesInv
  <2> QED BY <1>2, <2>3, <2>4, <2>5, <2>6 DEF PlacesInv
<1>6. TodoInv'
  <2> SUFFICES ASSUME NEW b \in Submitters
               PROVE  /\ Pushes(b)' => arg'[b] = todo[b][1]
                      /\ \A i \in DOMAIN todo[b] :
                            fut'[todo[b][i]] = "none" \/ (i = 1 /\ Pushes(b)')
    BY <1>2 DEF TodoInv, Source
  <2>1. b \in Actors
    BY DEF Submitters, Actors
  <2>2. Pushes(b)' => arg'[b] = todo[b][1]
    BY <1>3, <2>1 DEF TodoInv
  <2>3. ASSUME NEW i \in DOMAIN todo[b]
        PROVE  fut'[todo[b][i]] = "none" \/ (i = 1 /\ Pushes(b)')
    <3>1. todo[b][i] \in Tasks
      BY SourceType
    <3>2. CASE todo[b][i] = t
      <4>1. b = a
        BY <1>1, <3>2, SourceUnique
      <4>2. i = 1
        BY <1>1, <3>2, <4>1 DEF TodoInv
      <4> QED BY <1>3, <4>1, <4>2
    <3>3. CASE todo[b][i] # t
      BY <1>3, <3>1, <3>3 DEF TodoInv
    <3> QED BY <3>2, <3>3
  <2> QED BY <2>2, <2>3
<1>7. UnstartedInv'
  <2> SUFFICES ASSUME NEW b \in Tasks, fut'[b] \in {"none", "pending"},
                      \A w \in Workers : task[w] # b, NEW i \in DOMAIN Submits[b]
               PROVE  fut'[Submits[b][i]] = "none"
    BY <1>2 DEF UnstartedInv
  <2>1. fut[b] \in {"none", "pending"}
    BY <1>3, <1>4
  <2>2. fut[Submits[b][i]] = "none" /\ Submits[b][i] \in Tasks
    BY <2>1, TasksAssumption DEF UnstartedInv
  <2>3. Submits[b][i] # t
    BY <1>1, SourceUnique
  <2> QED BY <1>3, <2>2, <2>3
<1> QED BY <1>5, <1>6, <1>7

(* The insertion moves the task from the submitter to the queue. *)
LEMMA InsertHolder ==
    ASSUME IInv, PlacesInv, TodoInv, UnstartedInv, NEW a \in Submitters, PushInsert(a)
    PROVE  PlacesInv' /\ TodoInv' /\ UnstartedInv'
<1> DEFINE t == arg[a]
<1>0. TypeOK /\ Q!TypeOK /\ a \in Actors /\ NoTask \notin Tasks
  BY TasksAssumption DEF IInv, TypeOK, Submitters, Actors
<1>1. /\ op[a] = "admitted" /\ op' = [op EXCEPT ![a] = "idle"]
      /\ arg' = [arg EXCEPT ![a] = NoTask] /\ items' = Append(items, t)
      /\ todo' = [todo EXCEPT ![a] = Tail(@)] /\ UNCHANGED <<task, fut>>
  BY DEF PushInsert, Q!Insert, Q!Return
<1>2. t \in Tasks /\ todo[a] \in Seq(Tasks) /\ todo[a] # <<>> /\ items \in Seq(Tasks)
  BY <1>0, <1>1, Pushing DEF Submitters, Q!TypeOK
<1>3. /\ \A b \in Actors : arg'[b] = IF b = a THEN NoTask ELSE arg[b]
      /\ \A b \in Submitters : Pushes(b)' <=> b # a /\ Pushes(b)
      /\ \A b \in Submitters : todo'[b] = IF b = a THEN Tail(todo[a]) ELSE todo[b]
  BY <1>0, <1>1 DEF Q!TypeOK, TypeOK, Pushes, Submitters, Actors
<1>4. /\ DOMAIN items' = DOMAIN items \cup {Len(items) + 1}
      /\ Len(items) + 1 \notin DOMAIN items /\ items'[Len(items) + 1] = t
      /\ \A i \in DOMAIN items : items'[i] = items[i]
  BY <1>1, <1>2
<1>5. PlacesInv'
  <2>1. /\ \A i \in DOMAIN items : items[i] # t
        /\ \A w \in Workers : task[w] # t
        /\ \A b \in Actors : b # a => arg[b] # t
    BY <1>0, <1>2 DEF PlacesInv
  <2>2. \A u \in Tasks : Held(u)' => Held(u)
    BY <1>0, <1>1, <1>3, <1>4 DEF Held
  <2>3. \A i, j \in DOMAIN items' : items'[i] = items'[j] => i = j
    BY <1>4, <2>1 DEF PlacesInv
  <2>4. \A b \in Actors, i \in DOMAIN items' : items'[i] # arg'[b]
    <3>1. \A i \in DOMAIN items : items[i] \in Tasks
      BY <1>2
    <3> QED BY <1>0, <1>2, <1>3, <1>4, <2>1, <3>1 DEF PlacesInv
  <2>5. /\ \A b, c \in Actors : arg'[b] \in Tasks /\ arg'[b] = arg'[c] => b = c
        /\ \A b \in Actors, w \in Workers : arg'[b] \in Tasks => task[w] # arg'[b]
    BY <1>0, <1>3 DEF PlacesInv
  <2>6. \A i \in DOMAIN items', w \in Workers : items'[i] # task[w]
    BY <1>4, <2>1 DEF PlacesInv
  <2> QED BY <1>1, <2>2, <2>3, <2>4, <2>5, <2>6 DEF PlacesInv
<1>6. TodoInv'
  <2>1. \A b \in Submitters : b # a => todo'[b] = todo[b] /\ (Pushes(b)' <=> Pushes(b))
                                   /\ arg'[b] = arg[b]
    BY <1>3 DEF Submitters, Actors
  <2>2. ~Pushes(a)'
    BY <1>3
  <2>3. \A i \in DOMAIN todo'[a] : i + 1 \in DOMAIN todo[a] /\ i + 1 # 1
                                  /\ todo'[a][i] = todo[a][i + 1] /\ i \in Nat
    <3>1. todo'[a] = Tail(todo[a])
      BY <1>3
    <3> HIDE DEF t
    <3> QED BY <1>2, <3>1
  <2>4. \A b \in Submitters : Source(b)' = Source(b)
    BY <1>1 DEF Source
  <2>5. ASSUME NEW i \in DOMAIN todo'[a]
        PROVE  /\ \E j \in DOMAIN Submits[Source(a)'] : Submits[Source(a)'][j] = todo'[a][i]
               /\ \A j \in DOMAIN todo'[a] : todo'[a][i] = todo'[a][j] => i = j
               /\ fut'[todo'[a][i]] = "none"
    <3>1. \E j \in DOMAIN Submits[Source(a)] : Submits[Source(a)][j] = todo[a][i + 1]
      BY <2>3 DEF TodoInv
    <3>2. \A j \in DOMAIN todo'[a] : todo[a][i + 1] = todo[a][j + 1] => i + 1 = j + 1
      BY <2>3 DEF TodoInv
    <3>3. fut'[todo'[a][i]] = "none"
      BY <1>1, <2>3 DEF TodoInv
    <3>4. \A j \in DOMAIN todo'[a] : todo'[a][i] = todo'[a][j] => i = j
      <4> SUFFICES ASSUME NEW j \in DOMAIN todo'[a], todo'[a][i] = todo'[a][j] PROVE i = j
        OBVIOUS
      <4>1. i + 1 = j + 1 /\ i \in Nat /\ j \in Nat
        BY <2>3, <3>2
      <4> QED BY <4>1
    <3>5. \E j \in DOMAIN Submits[Source(a)'] : Submits[Source(a)'][j] = todo'[a][i]
      BY <2>3, <2>4, <3>1
    <3> QED BY <3>3, <3>4, <3>5
  <2> QED BY <1>1, <2>1, <2>2, <2>4, <2>5 DEF TodoInv
<1>7. UnstartedInv'
  BY <1>1 DEF UnstartedInv
<1> QED BY <1>5, <1>6, <1>7

(* The refusal breaks the promise of the task (or ends the process). *)
LEMMA RefusedHolder ==
    ASSUME IInv, PlacesInv, TodoInv, UnstartedInv, NEW a \in Submitters,
           PushRefused(a), Running'
    PROVE  PlacesInv' /\ TodoInv' /\ UnstartedInv'
<1> DEFINE t == arg[a]
<1>0. TypeOK /\ Q!TypeOK /\ a \in Actors /\ NoTask \notin Tasks
  BY TasksAssumption DEF IInv, TypeOK, Submitters, Actors
<1>1. /\ op[a] = "push" /\ op' = [op EXCEPT ![a] = "idle"]
      /\ arg' = [arg EXCEPT ![a] = NoTask] /\ UNCHANGED items
      /\ todo' = [todo EXCEPT ![a] = Tail(@)]
      /\ fut' = [fut EXCEPT ![t] = "broken"] /\ UNCHANGED task
  BY DEF PushRefused, Q!Refuse, Q!Return, Running
<1>2. t \in Tasks /\ todo[a] \in Seq(Tasks) /\ todo[a] # <<>> /\ fut[t] = "pending"
  BY <1>0, <1>1, Pushing DEF Submitters, PlacesInv, Held
<1>3. /\ \A b \in Actors : arg'[b] = IF b = a THEN NoTask ELSE arg[b]
      /\ \A b \in Submitters : Pushes(b)' <=> b # a /\ Pushes(b)
      /\ \A b \in Submitters : todo'[b] = IF b = a THEN Tail(todo[a]) ELSE todo[b]
      /\ \A u \in Tasks : fut'[u] = IF u = t THEN "broken" ELSE fut[u]
  BY <1>0, <1>1, <1>2 DEF Q!TypeOK, TypeOK, Pushes, Submitters, Actors
<1>4. PlacesInv'
  <2>1. /\ \A i \in DOMAIN items : items[i] # t
        /\ \A w \in Workers : task[w] # t
        /\ \A b \in Actors : b # a => arg[b] # t
    BY <1>0, <1>2 DEF PlacesInv
  <2>2. \A u \in Tasks : Held(u)' => Held(u) /\ u # t
    BY <1>0, <1>1, <1>3, <2>1 DEF Held
  <2>3. \A u \in Tasks : Held(u)' => fut'[u] = "pending"
    BY <1>3, <2>2 DEF PlacesInv
  <2>4. \A b \in Actors, i \in DOMAIN items : items[i] # arg'[b]
    <3>1. \A i \in DOMAIN items : items[i] \in Tasks
      BY <1>0 DEF Q!TypeOK
    <3> QED BY <1>0, <1>3, <3>1 DEF PlacesInv
  <2>5. /\ \A b, c \in Actors : arg'[b] \in Tasks /\ arg'[b] = arg'[c] => b = c
        /\ \A b \in Actors, w \in Workers : arg'[b] \in Tasks => task[w] # arg'[b]
    BY <1>0, <1>3 DEF PlacesInv
  <2> QED BY <1>1, <2>3, <2>4, <2>5 DEF PlacesInv
<1>5. TodoInv'
  <2>1. \A b \in Submitters : b # a => todo'[b] = todo[b] /\ (Pushes(b)' <=> Pushes(b))
                                   /\ arg'[b] = arg[b]
    BY <1>3 DEF Submitters, Actors
  <2>2. ~Pushes(a)'
    BY <1>3
  <2>3. \A i \in DOMAIN todo'[a] : i + 1 \in DOMAIN todo[a] /\ i + 1 # 1
                                  /\ todo'[a][i] = todo[a][i + 1] /\ i \in Nat
    <3>1. todo'[a] = Tail(todo[a])
      BY <1>3
    <3> HIDE DEF t
    <3> QED BY <1>2, <3>1
  <2>4. \A b \in Submitters : Source(b)' = Source(b)
    BY <1>1 DEF Source
  <2>5. \A u \in Tasks : fut[u] = "none" => fut'[u] = "none"
    BY <1>2, <1>3
  <2>6. ASSUME NEW i \in DOMAIN todo'[a]
        PROVE  /\ \E j \in DOMAIN Submits[Source(a)'] : Submits[Source(a)'][j] = todo'[a][i]
               /\ \A j \in DOMAIN todo'[a] : todo'[a][i] = todo'[a][j] => i = j
               /\ fut'[todo'[a][i]] = "none"
    <3>1. \E j \in DOMAIN Submits[Source(a)] : Submits[Source(a)][j] = todo[a][i + 1]
      BY <2>3 DEF TodoInv
    <3>2. \A j \in DOMAIN todo'[a] : todo[a][i + 1] = todo[a][j + 1] => i + 1 = j + 1
      BY <2>3 DEF TodoInv
    <3>3. fut'[todo'[a][i]] = "none"
      <4>1. todo[a][i + 1] \in Tasks /\ fut[todo[a][i + 1]] = "none"
        BY <2>3, SourceType DEF TodoInv
      <4> QED BY <2>3, <2>5, <4>1
    <3>4. \A j \in DOMAIN todo'[a] : todo'[a][i] = todo'[a][j] => i = j
      <4> SUFFICES ASSUME NEW j \in DOMAIN todo'[a], todo'[a][i] = todo'[a][j] PROVE i = j
        OBVIOUS
      <4>1. i + 1 = j + 1 /\ i \in Nat /\ j \in Nat
        BY <2>3, <3>2
      <4> QED BY <4>1
    <3>5. \E j \in DOMAIN Submits[Source(a)'] : Submits[Source(a)'][j] = todo'[a][i]
      BY <2>3, <2>4, <3>1
    <3> QED BY <3>3, <3>4, <3>5
  <2>7. ASSUME NEW b \in Submitters, b # a, NEW i \in DOMAIN todo[b]
        PROVE  fut'[todo[b][i]] = "none" \/ (i = 1 /\ Pushes(b)')
    BY <2>1, <2>5, <2>7, SourceType DEF TodoInv
  <2> QED BY <2>1, <2>2, <2>4, <2>6, <2>7 DEF TodoInv
<1>6. UnstartedInv'
  <2> SUFFICES ASSUME NEW b \in Tasks, fut'[b] \in {"none", "pending"},
                      \A w \in Workers : task[w] # b, NEW i \in DOMAIN Submits[b]
               PROVE  fut'[Submits[b][i]] = "none"
    BY <1>1 DEF UnstartedInv
  <2>1. fut[b] \in {"none", "pending"}
    BY <1>2, <1>3
  <2>2. fut[Submits[b][i]] = "none" /\ Submits[b][i] \in Tasks
    BY <2>1, TasksAssumption DEF UnstartedInv
  <2> QED BY <1>2, <1>3, <2>2
<1> QED BY <1>4, <1>5, <1>6

(* The worker takes the task from the queue, with what it will submit. *)
LEMMA StartHolder ==
    ASSUME IInv, PlacesInv, TodoInv, UnstartedInv, NEW w \in Workers, WorkerStart(w)
    PROVE  PlacesInv' /\ TodoInv' /\ UnstartedInv'
<1> DEFINE t == items[1]
<1>0. TypeOK /\ Q!TypeOK /\ WorkerInv /\ ArgInv /\ w \in Actors /\ w \in Submitters
      /\ NoTask \notin Tasks /\ w \notin Clients
  BY TasksAssumption, ActorsAssumption DEF IInv, TypeOK, Actors, Submitters
<1>1. /\ op[w] = "pop" /\ op' = [op EXCEPT ![w] = "idle"] /\ arg[w] = NoTask
      /\ arg' = [arg EXCEPT ![w] = NoTask] /\ items # <<>> /\ items' = Tail(items)
      /\ items \in Seq(Tasks) /\ task[w] = NoTask
      /\ task' = [task EXCEPT ![w] = Head(items)]
      /\ todo' = [todo EXCEPT ![w] = Submits[Head(items)]] /\ UNCHANGED fut
  BY <1>0 DEF WorkerStart, Q!Take, Q!Return, Q!TypeOK, WorkerInv, ArgInv
<1>2. /\ t \in Tasks /\ Head(items) = t /\ 1 \in DOMAIN items
      /\ \A i \in DOMAIN items' : i + 1 \in DOMAIN items /\ i + 1 # 1 /\ i \in Nat
                                 /\ items'[i] = items[i + 1]
  BY <1>1
<1>3. /\ \A a \in Actors : arg'[a] = arg[a]
      /\ \A u \in Workers : task'[u] = IF u = w THEN t ELSE task[u]
      /\ \A a \in Submitters : Pushes(a)' <=> Pushes(a)
      /\ \A a \in Submitters : todo'[a] = IF a = w THEN Submits[t] ELSE todo[a]
  BY <1>0, <1>1, <1>2 DEF Q!TypeOK, TypeOK, Pushes, Submitters, Actors
<1>4. /\ fut[t] = "pending" /\ \A u \in Workers : task[u] # t
      /\ \A a \in Actors : arg[a] # t
  BY <1>2 DEF PlacesInv, Held
<1>5. PlacesInv'
  <2>1. \A i \in DOMAIN items' : items'[i] # t
    BY <1>2 DEF PlacesInv
  <2>2. \A u \in Tasks : Held(u)' => Held(u)
    BY <1>2, <1>3 DEF Held
  <2>3. \A i, j \in DOMAIN items' : items'[i] = items'[j] => i = j
    <3> SUFFICES ASSUME NEW i \in DOMAIN items', NEW j \in DOMAIN items',
                        items'[i] = items'[j]
                 PROVE  i = j
      OBVIOUS
    <3>1. i + 1 = j + 1 /\ i \in Nat /\ j \in Nat
      BY <1>2 DEF PlacesInv
    <3> QED BY <3>1
  <2>4. \A u, v \in Workers : task'[u] \in Tasks /\ task'[u] = task'[v] => u = v
    BY <1>3, <1>4 DEF PlacesInv
  <2>5. \A a \in Actors, i \in DOMAIN items' : items'[i] # arg'[a]
    BY <1>2, <1>3 DEF PlacesInv
  <2>6. \A a \in Actors, u \in Workers : arg'[a] \in Tasks => task'[u] # arg'[a]
    BY <1>3, <1>4 DEF PlacesInv
  <2>7. \A i \in DOMAIN items', u \in Workers : items'[i] # task'[u]
    BY <1>2, <1>3, <2>1 DEF PlacesInv
  <2>8. \A a, b \in Actors : arg'[a] \in Tasks /\ arg'[a] = arg'[b] => a = b
    BY <1>3 DEF PlacesInv
  <2> QED BY <1>1, <2>2, <2>3, <2>4, <2>5, <2>6, <2>7, <2>8 DEF PlacesInv
<1>6. TodoInv'
  <2>1. \A a \in Submitters : a # w => /\ Source(a)' = Source(a) /\ todo'[a] = todo[a]
                                     /\ a \in Actors /\ arg'[a] = arg[a]
    BY <1>3 DEF Source, Submitters, Actors
  <2>2. Source(w)' = t /\ ~Pushes(w) /\ todo'[w] = Submits[t]
    BY <1>0, <1>1, <1>3 DEF Source, Pushes
  <2>3. \A i \in DOMAIN Submits[t] : fut[Submits[t][i]] = "none"
    BY <1>2, <1>4 DEF UnstartedInv
  <2>4. \A i, j \in DOMAIN Submits[t] : Submits[t][i] = Submits[t][j] => i = j
    BY <1>2, SubmitsAssumption
  <2>5. ASSUME NEW a \in Submitters, a # w
        PROVE  /\ Pushes(a)' => arg'[a] = todo'[a][1]
               /\ \A i \in DOMAIN todo'[a] :
                     /\ \E j \in DOMAIN Submits[Source(a)'] : Submits[Source(a)'][j] = todo'[a][i]
                     /\ \A j \in DOMAIN todo'[a] : todo'[a][i] = todo'[a][j] => i = j
                     /\ fut'[todo'[a][i]] = "none" \/ (i = 1 /\ Pushes(a)')
    BY <1>1, <1>3, <2>1, <2>5 DEF TodoInv
  <2>6. ASSUME NEW i \in DOMAIN todo'[w]
        PROVE  /\ \E j \in DOMAIN Submits[Source(w)'] : Submits[Source(w)'][j] = todo'[w][i]
               /\ \A j \in DOMAIN todo'[w] : todo'[w][i] = todo'[w][j] => i = j
               /\ fut'[todo'[w][i]] = "none"
    BY <1>1, <2>2, <2>3, <2>4
  <2>7. ~Pushes(w)'
    BY <1>0, <1>3, <2>2
  <2> QED BY <2>5, <2>6, <2>7 DEF TodoInv
<1>7. UnstartedInv'
  <2>1. ASSUME NEW b \in Tasks, \A u \in Workers : task'[u] # b
        PROVE  \A u \in Workers : task[u] # b
    BY <1>0, <1>1, <1>3, <2>1
  <2> QED BY <1>1, <2>1 DEF UnstartedInv
<1> QED BY <1>5, <1>6, <1>7

(* The task's future becomes ready; what it has not submitted, it never    *)
(* will.                                                                   *)
LEMMA FinishHolder ==
    ASSUME IInv, PlacesInv, TodoInv, UnstartedInv, NEW w \in Workers, WorkerFinish(w)
    PROVE  PlacesInv' /\ TodoInv' /\ UnstartedInv'
<1> DEFINE t == task[w]
<1>0. TypeOK /\ w \in Submitters /\ NoTask \notin Tasks
  BY TasksAssumption DEF IInv, TypeOK, Submitters
<1>1. /\ op[w] = "idle" /\ t \in Tasks /\ task' = [task EXCEPT ![w] = NoTask]
      /\ todo' = [todo EXCEPT ![w] = <<>>] /\ UNCHANGED <<items, op, arg>>
      /\ fut' = [fut EXCEPT ![t] = "value"] \/ fut' = [fut EXCEPT ![t] = "exception"]
  BY <1>0 DEF WorkerFinish, TypeOK, queue
<1>2. /\ \A u \in Workers : task'[u] = IF u = w THEN NoTask ELSE task[u]
      /\ \A a \in Submitters : Pushes(a)' <=> Pushes(a)
      /\ \A a \in Submitters : todo'[a] = IF a = w THEN <<>> ELSE todo[a]
      /\ \A u \in Tasks : u # t => fut'[u] = fut[u]
      /\ fut'[t] \in {"value", "exception"}
  BY <1>0, <1>1 DEF TypeOK, Pushes, Submitters
<1>3. fut[t] = "pending"
  BY <1>1 DEF PlacesInv, Held
<1>4. PlacesInv'
  <2>1. /\ \A i \in DOMAIN items : items[i] # t
        /\ \A u \in Workers : u # w => task[u] # t
        /\ \A a \in Actors : arg[a] # t
    BY <1>1 DEF PlacesInv
  <2>2. \A u \in Tasks : Held(u)' => Held(u) /\ u # t
    BY <1>0, <1>1, <1>2, <2>1 DEF Held
  <2>3. \A u \in Tasks : Held(u)' => fut'[u] = "pending"
    BY <1>2, <2>2 DEF PlacesInv
  <2>4. \A i \in DOMAIN items, u \in Workers : items[i] # task'[u]
    <3>1. \A i \in DOMAIN items : items[i] \in Tasks
      BY <1>0 DEF TypeOK, Q!TypeOK
    <3> QED BY <1>0, <1>2, <3>1 DEF PlacesInv
  <2>5. \A u, v \in Workers : task'[u] \in Tasks /\ task'[u] = task'[v] => u = v
    BY <1>0, <1>2 DEF PlacesInv
  <2>6. \A a \in Actors, u \in Workers : arg[a] \in Tasks => task'[u] # arg[a]
    BY <1>0, <1>2 DEF PlacesInv
  <2> QED BY <1>1, <2>3, <2>4, <2>5, <2>6 DEF PlacesInv
<1>5. TodoInv'
  <2>1. \A a \in Submitters : a # w => Source(a)' = Source(a)
    BY <1>2 DEF Source, Submitters
  <2>2. \A u \in Tasks : fut[u] = "none" => fut'[u] = "none"
    BY <1>2, <1>3
  <2>3. ~Pushes(w)'
    BY <1>0, <1>1 DEF Pushes
  <2>4. ASSUME NEW a \in Submitters, a # w, NEW i \in DOMAIN todo[a]
        PROVE  fut'[todo[a][i]] = "none" \/ (i = 1 /\ Pushes(a)')
    BY <1>2, <2>2, SourceType DEF TodoInv
  <2> QED BY <1>1, <1>2, <2>1, <2>3, <2>4 DEF TodoInv
<1>6. UnstartedInv'
  <2> SUFFICES ASSUME NEW b \in Tasks, fut'[b] \in {"none", "pending"},
                      \A u \in Workers : task'[u] # b, NEW i \in DOMAIN Submits[b]
               PROVE  fut'[Submits[b][i]] = "none"
    BY DEF UnstartedInv
  <2>1. b # t
    BY <1>2
  <2>2. fut[b] \in {"none", "pending"} /\ \A u \in Workers : task[u] # b
    BY <1>2, <2>1
  <2>3. fut[Submits[b][i]] = "none"
    BY <2>2 DEF UnstartedInv
  <2>4. Submits[b][i] \in Tasks
    BY TasksAssumption
  <2> QED BY <1>2, <1>3, <2>3, <2>4
<1> QED BY <1>4, <1>5, <1>6

LEMMA NextHolder == IInv /\ IInv' /\ HolderInv /\ [Next]_vars => HolderInv'
<1> SUFFICES ASSUME IInv, IInv', HolderInv, [Next]_vars, Running'
             PROVE  PlacesInv' /\ TodoInv' /\ UnstartedInv'
  BY DEF HolderInv
<1>0. TypeOK /\ Q!TypeOK /\ WorkerInv /\ ArgInv /\ OwnerInv /\ SomebodyLeft
  BY DEF IInv, TypeOK
<1>1. Running
  BY DEF Next, Running, Finished, vars, pool
<1>2. PlacesInv /\ TodoInv /\ UnstartedInv
  BY <1>1 DEF HolderInv
<1>3. CASE UNCHANGED vars
  BY <1>0, <1>2, <1>3, QuietHolder DEF vars, queue, pool, Pushes
<1>4. ASSUME NEW a \in Submitters, PushAdmit(a)
      PROVE  PlacesInv' /\ TodoInv' /\ UnstartedInv'
  <2>1. UNCHANGED <<items, task, todo, arg, fut>>
    BY <1>4 DEF PushAdmit, Q!Admit, pool
  <2>2. op[a] = "push" /\ op' = [op EXCEPT ![a] = "admitted"]
    BY <1>4 DEF PushAdmit, Q!Admit
  <2>3. \A b \in Submitters : Pushes(b)' = Pushes(b)
    BY <1>0, <2>2 DEF Pushes, Q!TypeOK, Submitters, Actors
  <2> QED BY <1>0, <1>2, <2>1, <2>3, QuietHolder
<1>5. ASSUME NEW w \in Workers, WorkerPop(w) \/ WorkerExit(w)
      PROVE  PlacesInv' /\ TodoInv' /\ UnstartedInv'
  <2>1. UNCHANGED <<items, task, todo, fut>>
    BY <1>5 DEF WorkerPop, WorkerExit, Q!Call, Q!Drained
  <2>2. /\ op[w] \in {"idle", "pop"} /\ arg[w] = NoTask /\ arg' = [arg EXCEPT ![w] = NoTask]
        /\ op' = [op EXCEPT ![w] = "pop"] \/ op' = [op EXCEPT ![w] = "idle"]
    BY <1>0, <1>5 DEF WorkerPop, WorkerExit, Q!Call, Q!Drained, Q!Return, ArgInv, Actors
  <2>3. arg' = arg
    BY <1>0, <2>2 DEF Q!TypeOK
  <2>4. \A b \in Submitters : Pushes(b)' = Pushes(b)
    BY <1>0, <2>2 DEF Pushes, Q!TypeOK, Submitters, Actors
  <2> QED BY <1>0, <1>2, <2>1, <2>3, <2>4, QuietHolder
<1>6. CASE DtorClose \/ DtorClosed
  <2>1. UNCHANGED <<items, task, todo, fut>>
    BY <1>6 DEF DtorClose, DtorClosed, Q!Call, Q!Close
  <2>2. /\ arg[Owner] = NoTask /\ arg' = [arg EXCEPT ![Owner] = NoTask]
        /\ op' = [op EXCEPT ![Owner] = "close"] \/ op' = [op EXCEPT ![Owner] = "idle"]
    BY <1>0, <1>6 DEF DtorClose, DtorClosed, Q!Call, Q!Close, Q!Return, ArgInv, Actors
  <2>3. arg' = arg
    BY <1>0, <2>2 DEF Q!TypeOK
  <2>4. \A b \in Submitters : Pushes(b)' = Pushes(b)
    BY <1>0, <2>2, ActorsAssumption DEF Pushes, Q!TypeOK, Submitters, Actors
  <2> QED BY <1>0, <1>2, <2>1, <2>3, <2>4, QuietHolder
<1>7. CASE DtorDone
  <2>1. UNCHANGED <<items, task, todo, arg, op>>
    BY <1>7 DEF DtorDone, queue
  <2>2. items = <<>>
    BY <1>0, <1>7 DEF DtorDone, SomebodyLeft
  <2>3. \A t \in Tasks : fut'[t] = fut[t]
    BY <1>7, <2>2 DEF DtorDone
  <2> QED BY <1>0, <1>2, <2>1, <2>3, QuietHolder DEF Pushes
<1> QED
  BY <1>1, <1>2, <1>3, <1>4, <1>5, <1>6, <1>7, SubmitHolder, InsertHolder, RefusedHolder,
     StartHolder, FinishHolder
  DEF Next, Push, InPush, Work, Destroy, Finished, Submitters

LEMMA HolderInvariance == Spec => []HolderInv
<1>1. IInv /\ IInv' /\ HolderInv /\ [Next]_vars => HolderInv'
  BY NextHolder
<1> QED BY <1>1, InitHolder, Invariance, PTL DEF Spec

LEMMA AtMostOne ==
    ASSUME NEW S, \A x, y \in S : x = y
    PROVE  Cardinality(S) = IF S = {} THEN 0 ELSE 1
<1>1. CASE S = {}
  BY <1>1, FS_EmptySet
<1>2. CASE S # {}
  <2>1. PICK x : S = {x}
    BY <1>2
  <2> QED BY <1>2, <2>1, FS_Singleton
<1> QED BY <1>1, <1>2

(* A task whose future is pending is in exactly one place: in one call of  *)
(* submit or run_async, once in the queue, or with one worker.  No task is *)
(* duplicated, and none is lost before its future is ready.                *)
THEOREM TaskHasOneHolder == Spec => []OneHolder
<1>1. ASSUME IInv, HolderInv, Running, NEW t \in Tasks
      PROVE  Holders(t) = IF fut[t] = "pending" THEN 1 ELSE 0
  <2> DEFINE P == {a \in Workers \cup Clients : arg[a] = t}
             I == {i \in DOMAIN items : items[i] = t}
             W == {w \in Workers : task[w] = t}
  <2>1. PlacesInv /\ NoTask \notin Tasks /\ arg[Owner] # t
    BY <1>1, TasksAssumption DEF HolderInv, IInv, OwnerInv, ArgInv, Actors
  <2>2. (\A x, y \in P : x = y) /\ (\A x, y \in I : x = y) /\ (\A x, y \in W : x = y)
    BY <2>1 DEF PlacesInv, Actors
  <2>3. /\ Cardinality(P) = IF P = {} THEN 0 ELSE 1
        /\ Cardinality(I) = IF I = {} THEN 0 ELSE 1
        /\ Cardinality(W) = IF W = {} THEN 0 ELSE 1
    <3> HIDE DEF P, I, W
    <3> QED BY <2>2, AtMostOne
  <2>4. P = {} \/ I = {}
    BY <2>1 DEF PlacesInv, Actors
  <2>5. P = {} \/ W = {}
    BY <2>1 DEF PlacesInv, Actors
  <2>6. I = {} \/ W = {}
    BY <2>1 DEF PlacesInv
  <2>7. P # {} \/ I # {} \/ W # {} <=> Held(t)
    BY <2>1 DEF Held, Actors
  <2>8. Held(t) <=> fut[t] = "pending"
    BY <1>1, <2>1 DEF PlacesInv, IInv, HeldInv
  <2>9. Holders(t) = Cardinality(P) + Cardinality(I) + Cardinality(W)
    BY DEF Holders
  <2> HIDE DEF P, I, W
  <2> QED BY <2>3, <2>4, <2>5, <2>6, <2>7, <2>8, <2>9
<1>2. IInv /\ HolderInv => OneHolder
  BY <1>1 DEF OneHolder
<1> QED BY <1>2, Invariance, HolderInvariance, PTL

-----------------------------------------------------------------------------
(* The refinement.  What users may rely on is a statement about one state  *)
(* and the next; the calls of the queue, who left and what the destructor  *)
(* waits for are hidden, and the steps that only concern them stutter.     *)
LEMMA StageIs ==
    ASSUME IInv
    PROVE  /\ owner # "done" <=> Stage # "over"
           /\ closed /\ owner # "done" <=> Stage = "closed"
           /\ ~closed /\ owner # "done" <=> Stage = "open"
  BY DEF Stage, IInv, TypeOK, Q!TypeOK

(* Whoever still calls the pool, or works for it, does so before its end. *)
LEMMA NotOver ==
    ASSUME IInv, NEW a \in Workers \cup Clients, todo[a] # <<>> \/ op[a] # "idle"
    PROVE  owner # "done"
<1> SUFFICES ASSUME owner = "done" PROVE FALSE
  OBVIOUS
<1>1. /\ \A w \in Workers : op[w] = "idle" /\ todo[w] = <<>>
      /\ \A c \in Clients : op[c] = "idle" /\ todo[c] = <<>>
  BY DEF IInv, OwnerInv, WorkerInv, ClientsDone
<1> QED BY <1>1

(* What a submitter has in hand is offered. *)
LEMMA InHandIsOffered ==
    ASSUME PlacesInv, NEW a \in Actors, arg[a] \in Tasks
    PROVE  EX!Offered(arg[a])
<1>1. fut[arg[a]] = "pending"
  BY DEF PlacesInv, Held
<1> QED BY <1>1 DEF PlacesInv, EX!Offered

LEMMA ExecutorInit == Init => EX!Init
<1> SUFFICES ASSUME Init PROVE EX!Init
  OBVIOUS
<1>1. Stage = "open"
  BY DEF Init, Q!Init, Stage
<1> QED BY <1>1 DEF Init, Q!Init, EX!Init

LEMMA SubmitOffers ==
    ASSUME IInv, TodoInv, NEW a \in Workers \cup Clients, Submit(a)
    PROVE  EX!Next
<1> DEFINE t == Head(todo[a])
<1>1. /\ op[a] = "idle" /\ todo[a] # <<>> /\ todo[a] \in Seq(Tasks) /\ a \in Submitters
      /\ fut' = [fut EXCEPT ![t] = "pending"] /\ UNCHANGED <<items, closed, task, owner>>
  BY DEF Submit, Q!Call, IInv, TypeOK, Submitters
<1>2. t \in Tasks /\ 1 \in DOMAIN todo[a] /\ t = todo[a][1]
  BY <1>1
<1>3. fut[t] = "none"
  BY <1>1, <1>2 DEF TodoInv, Pushes
<1>4. Stage # "over" /\ Stage' = Stage
  BY <1>1, NotOver, StageIs DEF Stage
<1>5. EX!Offer(t)
  BY <1>1, <1>3, <1>4 DEF EX!Offer
<1> QED BY <1>2, <1>5 DEF EX!Next

LEMMA InsertEnqueues ==
    ASSUME IInv, PlacesInv, NEW a \in Workers \cup Clients, PushInsert(a)
    PROVE  EX!Next
<1>1. /\ arg[a] \in Tasks /\ a \in Actors
      /\ items' = Append(items, arg[a]) /\ UNCHANGED <<closed, task, fut, owner>>
  BY Pushing DEF PushInsert, Q!Insert, Q!Return, Actors
<1>2. EX!Enqueue(arg[a])
  BY <1>1, InHandIsOffered DEF EX!Enqueue, Stage
<1> QED BY <1>1, <1>2 DEF EX!Next

LEMMA RefusalRefuses ==
    ASSUME IInv, PlacesInv, NEW a \in Workers \cup Clients, PushRefused(a)
    PROVE  EX!Next \/ UNCHANGED EX!vars
<1>1. /\ op[a] = "push" /\ closed /\ arg[a] \in Tasks /\ a \in Actors
      /\ UNCHANGED <<items, closed, task, owner>>
  BY Pushing DEF PushRefused, Q!Refuse, Q!Return, Actors
<1>2. CASE Asserts
  BY <1>1, <1>2 DEF PushRefused, EX!vars, Stage
<1>3. CASE ~Asserts
  <2>1. fut' = [fut EXCEPT ![arg[a]] = "broken"]
    BY <1>3 DEF PushRefused
  <2>2. Stage = "closed" /\ Stage' = Stage
    BY <1>1, NotOver, StageIs DEF Stage
  <2>3. EX!Refuse(arg[a])
    BY <1>1, <2>1, <2>2, InHandIsOffered DEF EX!Refuse
  <2> QED BY <1>1, <2>3 DEF EX!Next
<1> QED BY <1>2, <1>3

LEMMA WorkSteps ==
    ASSUME IInv, NEW w \in Workers, WorkerStart(w) \/ WorkerFinish(w)
    PROVE  EX!Next
<1>0. TypeOK /\ WorkerInv /\ NoTask \notin Tasks
  BY TasksAssumption DEF IInv
<1>1. CASE WorkerStart(w)
  <2>1. /\ task[w] = NoTask /\ items # <<>> /\ items' = Tail(items)
        /\ task' = [task EXCEPT ![w] = Head(items)] /\ UNCHANGED <<closed, fut, owner>>
    BY <1>0, <1>1 DEF WorkerStart, Q!Take, Q!Return, WorkerInv
  <2>2. EX!Start(w)
    BY <2>1 DEF EX!Start, Stage
  <2> QED BY <2>2 DEF EX!Next
<1>2. CASE WorkerFinish(w)
  <2>1. /\ task[w] \in Tasks /\ task' = [task EXCEPT ![w] = NoTask]
        /\ UNCHANGED <<items, closed, owner>>
        /\ \E o \in {"value", "exception"} : fut' = [fut EXCEPT ![task[w]] = o]
    BY <1>0, <1>2 DEF WorkerFinish, TypeOK, queue
  <2>2. EX!Finish(w)
    BY <1>0, <2>1 DEF EX!Finish, Stage
  <2> QED BY <2>2 DEF EX!Next
<1> QED BY <1>1, <1>2

LEMMA DestroySteps ==
    ASSUME IInv, Running, Destroy
    PROVE  EX!Next \/ UNCHANGED EX!vars
<1>0. TypeOK /\ OwnerInv
  BY DEF IInv
<1>1. CASE DtorClose
  <2>1. /\ owner = "alive" /\ owner' = "closing" /\ UNCHANGED <<items, closed, task, fut>>
    BY <1>1 DEF DtorClose, Q!Call
  <2> QED BY <2>1 DEF Stage, EX!vars
<1>2. CASE DtorClosed
  <2>1. /\ op[Owner] = "close" /\ closed' = TRUE /\ owner' = "joining"
        /\ UNCHANGED <<items, task, fut>>
    BY <1>2 DEF DtorClosed, Q!Close, Q!Return
  <2>2. owner = "closing" /\ ~closed
    BY <1>0, <2>1 DEF OwnerInv
  <2>3. Stage = "open" /\ Stage' = "closed"
    BY <2>1, <2>2 DEF Stage
  <2>4. EX!Close
    BY <2>1, <2>3 DEF EX!Close
  <2> QED BY <2>4 DEF EX!Next
<1>3. CASE DtorDone
  <2>1. /\ owner = "joining" /\ \A w \in Workers : wpc[w] = "exited"
        /\ UNCHANGED <<items, closed, task>>
    BY <1>3 DEF DtorDone, queue
  <2>2. items = <<>> /\ \A w \in Workers : task[w] = NoTask
    BY <2>1 DEF IInv, SomebodyLeft, WorkerInv
  <2>3. \A w \in Workers : op[w] = "idle" /\ closed
    BY <2>1 DEF IInv, WorkerInv
  <2>4. owner' = "done" /\ fut' = [t \in Tasks |-> fut[t]]
    BY <1>3, <2>2 DEF DtorDone
  <2>5. fut' = fut
    BY <1>0, <2>4 DEF TypeOK
  <2>6. Stage = "closed" /\ Stage' = "over"
    BY <2>1, <2>3, <2>4, ActorsAssumption DEF Stage
  <2>7. \A t \in Tasks : fut[t] # "pending"
    <3>1. ClientsDone /\ op[Owner] = "idle"
      BY <1>0, <2>1 DEF OwnerInv
    <3>2. \A a \in Actors : arg[a] = NoTask
      BY <2>3, <3>1 DEF IInv, ArgInv, ClientsDone, Actors
    <3> QED BY <2>2, <3>2, TasksAssumption DEF IInv, HeldInv, Held, Running
  <2>8. EX!End
    BY <2>1, <2>2, <2>5, <2>6, <2>7 DEF EX!End
  <2> QED BY <2>8 DEF EX!Next
<1> QED BY <1>1, <1>2, <1>3 DEF Destroy

LEMMA ExecutorStep ==
    IInv /\ HolderInv /\ [Next]_vars => EX!Next \/ UNCHANGED EX!vars
<1> SUFFICES ASSUME IInv, HolderInv, [Next]_vars
             PROVE  EX!Next \/ UNCHANGED EX!vars
  OBVIOUS
<1>1. CASE UNCHANGED vars
  BY <1>1 DEF vars, queue, pool, EX!vars, Stage
<1>2. ASSUME Running, NEW a \in Workers \cup Clients, Push(a)
      PROVE  EX!Next \/ UNCHANGED EX!vars
  <2>1. PlacesInv /\ TodoInv
    BY <1>2 DEF HolderInv
  <2>2. CASE PushAdmit(a)
    BY <2>2 DEF PushAdmit, Q!Admit, pool, EX!vars, Stage
  <2> QED BY <1>2, <2>1, <2>2, SubmitOffers, InsertEnqueues, RefusalRefuses DEF Push, InPush
<1>3. ASSUME NEW w \in Workers, Work(w)
      PROVE  EX!Next \/ UNCHANGED EX!vars
  <2>1. CASE WorkerPop(w)
    BY <2>1 DEF WorkerPop, Q!Call, EX!vars, Stage
  <2>2. CASE WorkerExit(w)
    BY <2>2 DEF WorkerExit, Q!Drained, EX!vars, Stage
  <2> QED BY <1>3, <2>1, <2>2, WorkSteps DEF Work
<1> QED BY <1>1, <1>2, <1>3, DestroySteps DEF Next, Finished

(* The pool implements the executor: every step of a submitter, a worker   *)
(* or the destructor is a step of the abstract one, or one it cannot see.  *)
THEOREM ThreadPoolIsExecutor == Spec => IsExecutor
<1>1. Init => EX!Init
  BY ExecutorInit
<1>2. IInv /\ HolderInv /\ [Next]_vars => [EX!Next]_(EX!vars)
  BY ExecutorStep
<1> QED BY <1>1, <1>2, Invariance, HolderInvariance, PTL DEF Spec, IsExecutor, EX!Spec

=============================================================================
