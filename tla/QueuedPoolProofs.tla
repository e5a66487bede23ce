--------------------------- MODULE QueuedPoolProofs ---------------------------
(***************************************************************************)
(* Theorems about QueuedPool: the pool over the code's queue implements    *)
(* ThreadPool, the pool over the channel.  The invariants are those of the *)
(* two parts: every step is a step of ConcurrentQueue, or leaves its state *)
(* alone, so the theorems about the queue hold here (CP); what is added    *)
(* says which operation of the queue each thread may be in.                *)
(***************************************************************************)
EXTENDS QueuedPool, FiniteSetTheorems, TLAPS

CP == INSTANCE ConcurrentQueueProofs
        WITH Threads <- Actors, Values <- Tasks, NoValue <- NoTask, owner <- mutex
TPP == INSTANCE ThreadPoolProofs
         WITH items <- q,
              op <- [a \in Actors |-> C!Phase(pc[a])],
              todo <- [a \in Workers \cup Clients |->
                          IF pc[a] = "push_notify" THEN Tail(todo[a]) ELSE todo[a]],
              owner <- IF pc[Owner] = "close_notify" THEN "joining" ELSE owner

Pushing == {"push_check", "push_lock", "push_insert", "push_notify"}
Popping == {"pop_lock", "pop_test", "pop_sleep", "pop_wait", "pop_wake", "pop_take"}
Closing == {"close_lock", "close_store", "close_notify"}

PlaceInv ==
    /\ \A w \in Workers : pc[w] \in {"idle"} \cup Pushing \cup Popping
    /\ \A c \in Clients : pc[c] \in {"idle"} \cup Pushing
    /\ pc[Owner] \in {"idle"} \cup Closing
    /\ pc[Owner] # "idle" => owner = "closing"

TodoType == todo \in [Workers \cup Clients -> Seq(Tasks)]

(* Who is in push holds the task it pushes at the head of its list. *)
TodoInv == \A a \in Workers \cup Clients : pc[a] \in Pushing => todo[a] # <<>>

Inv == PlaceInv /\ TodoType /\ TodoInv

-----------------------------------------------------------------------------
(* The queue in the pool is the queue that ConcurrentQueueProofs is about. *)
LEMMA QueueAssumptions ==
    /\ CP!IsFiniteSet(Actors) /\ NoThread \notin Actors /\ NoTask \notin Tasks
    /\ NotifyUnderLock \in BOOLEAN /\ MaxCalls \in Nat /\ MaxSpurious \in Nat
<1>1. IsFiniteSet(Actors)
  BY ActorsAssumption, QueueAssumption, FS_Union, FS_Singleton DEF Actors
<1>2. CP!IsFiniteSet(Actors)
  BY <1>1 DEF IsFiniteSet, CP!IsFiniteSet
<1> QED BY <1>2, ActorsAssumption, TasksAssumption, QueueAssumption

LEMMA SameQueue ==
    /\ C!Init <=> CP!Init
    /\ [C!Next]_(C!vars) <=> [CP!Next]_(CP!vars)
<1>1. C!Init <=> CP!Init
  BY DEF C!Init, CP!Init, C!Result, CP!Result
<1>2. C!Next <=> CP!Next
  BY DEF C!Next, CP!Next, C!CallAny, CP!CallAny, C!Step, CP!Step,
         C!SpuriousWake, CP!SpuriousWake, C!Acquire, CP!Acquire,
         C!PushCheck, CP!PushCheck, C!PushInsert, CP!PushInsert,
         C!PushNotify, CP!PushNotify, C!PopTest, CP!PopTest,
         C!PopSleep, CP!PopSleep, C!PopTake, CP!PopTake, C!TryBusy, CP!TryBusy,
         C!TryTest, CP!TryTest, C!CloseStore, CP!CloseStore,
         C!CloseNotify, CP!CloseNotify, C!EmptyRead, CP!EmptyRead,
         C!IsClosed, CP!IsClosed, C!Call, CP!Call, C!At, CP!At, C!Goto, CP!Goto,
         C!Decide, CP!Decide, C!Waiting, CP!Waiting, C!Truth, CP!Truth,
         C!NotifyOne, CP!NotifyOne, C!Result, CP!Result, C!Entry, CP!Entry,
         C!Section, CP!Section, C!Operations, CP!Operations
<1> QED BY <1>1, <1>2 DEF C!vars, CP!vars

(* What is used of the queue's invariant. *)
QueueInv ==
    /\ q \in Seq(Tasks) /\ closed \in BOOLEAN
    /\ pc \in [Actors -> C!Critical \cup C!Outside]
    /\ arg \in [Actors -> Tasks \cup {NoTask}]
    /\ ret \in [Actors -> C!Results]
    /\ \A a \in Actors : /\ pc[a] = "pop_take" => q # <<>> \/ closed
                         /\ pc[a] \in {"push_check", "push_insert"} => arg[a] \in Tasks

LEMMA QueueInvIs == CP!IInv => QueueInv
  BY DEF CP!IInv, CP!TypeOK, CP!AnswerStillValid, CP!At, CP!Critical, CP!Outside,
         CP!Results, CP!Tags, CP!ArgInv, CP!Pushing,
         C!Critical, C!Outside, C!Results, C!Tags, QueueInv

LEMMA QueueInvNext == CP!IInv' => QueueInv'
  BY DEF CP!IInv, CP!TypeOK, CP!AnswerStillValid, CP!At, CP!Critical, CP!Outside,
         CP!Results, CP!Tags, CP!ArgInv, CP!Pushing,
         C!Critical, C!Outside, C!Results, C!Tags, QueueInv

(* Every step of the pool is one of its queue's, or leaves it alone. *)
LEMMA QueueStep == ASSUME TodoType, [Next]_vars PROVE [C!Next]_(C!vars)
<1>1. ASSUME NEW a \in Workers \cup Clients, todo[a] # <<>>
      PROVE  Head(todo[a]) \in Tasks
  BY <1>1 DEF TodoType
<1>2. ASSUME NEW a \in Actors, \/ C!Step(a) \/ C!SpuriousWake(a) \/ C!CallAny(a)
      PROVE  C!Next
  BY <1>2 DEF C!Next
<1>3. ASSUME NEW a \in Workers \cup Clients, Submit(a) PROVE C!CallAny(a)
  BY <1>1, <1>3 DEF Submit, C!CallAny
<1>4. ASSUME NEW a \in Actors, InCall(a) \/ Spurious(a) PROVE C!Next
  BY <1>2, <1>4 DEF InCall, Inside, Pushed, Refused, Spurious, C!Step
<1>5. ASSUME NEW w \in Workers, WorkerPop(w) PROVE C!CallAny(w)
  BY <1>5 DEF WorkerPop, C!CallAny, C!Operations, C!Entry
<1>6. ASSUME NEW w \in Workers, WorkerStart(w) \/ WorkerExit(w) PROVE C!Step(w)
  BY <1>6 DEF WorkerStart, WorkerExit, C!Step
<1>7. ASSUME NEW w \in Workers, WorkerFinish(w) PROVE UNCHANGED C!vars
  BY <1>7 DEF WorkerFinish, queue, C!vars
<1>8. CASE DtorClose
  BY <1>2, <1>8 DEF DtorClose, C!CallAny, C!Operations, C!Entry, Actors
<1>9. CASE Destroy
  <2>1. CASE DtorDone
    BY <2>1 DEF DtorDone, queue, C!vars
  <2>2. CASE Inside(Owner) \/ DtorClosed
    BY <1>2, <2>2 DEF Inside, DtorClosed, C!Step, Actors
  <2> QED BY <1>9, <2>1, <2>2 DEF Destroy
<1>10. CASE UNCHANGED vars
  BY <1>10 DEF vars, queue, C!vars
<1> QED
  BY <1>2, <1>3, <1>4, <1>5, <1>6, <1>7, <1>8, <1>9, <1>10
  DEF Next, Work, Finished, Actors

-----------------------------------------------------------------------------
(* A step of a call stays in the operation's code or ends the call; of the *)
(* other threads it can only wake some that sleep in pop.                  *)
Woken(b) == pc[b] = "pop_wait" /\ pc'[b] = "pop_wake"
Stays(S, a) == pc[a] \in S => pc'[a] \in S \cup {"idle"}

LEMMA NotifyMoves ==
    ASSUME QueueInv, NEW a \in Actors, C!NotifyOne(a), pc[a] # "pop_wait"
    PROVE  pc'[a] = "idle" /\ \A b \in Actors : b # a => pc'[b] = pc[b] \/ Woken(b)
  BY DEF QueueInv, C!NotifyOne, C!Waiting, C!Goto, Woken

LEMMA StepMoves ==
    ASSUME QueueInv, NEW a \in Actors, C!Step(a) \/ C!SpuriousWake(a)
    PROVE  /\ pc[a] # "idle"
           /\ Stays(Pushing, a) /\ Stays(Popping, a) /\ Stays(Closing, a)
           /\ \A b \in Actors : b # a => pc'[b] = pc[b] \/ Woken(b)
<1>1. CASE C!Acquire(a)
  BY <1>1 DEF QueueInv, C!Acquire, C!Section, C!Goto, Stays, Pushing, Popping, Closing
<1>2. CASE C!PushCheck(a)
  BY <1>2 DEF QueueInv, C!PushCheck, C!Decide, C!Goto, C!At, Stays, Pushing, Popping, Closing
<1>3. CASE C!PushInsert(a) \/ C!PushNotify(a)
  <2>1. C!NotifyOne(a) \/ C!Goto(a, "push_notify")
    BY <1>3 DEF C!PushInsert, C!PushNotify
  <2>2. pc[a] \in {"push_insert", "push_notify"}
    BY <1>3 DEF C!PushInsert, C!PushNotify, C!At
  <2>3. CASE C!NotifyOne(a)
    BY <2>2, <2>3, NotifyMoves DEF Stays, Pushing, Popping, Closing
  <2>4. CASE C!Goto(a, "push_notify")
    BY <2>2, <2>4 DEF QueueInv, C!Goto, Stays, Pushing, Popping, Closing
  <2> QED BY <2>1, <2>3, <2>4
<1>4. CASE C!PopTest(a) \/ C!PopSleep(a) \/ C!SpuriousWake(a)
  BY <1>4 DEF QueueInv, C!PopTest, C!PopSleep, C!SpuriousWake, C!Goto, C!At,
              Stays, Pushing, Popping, Closing
<1>5. CASE C!PopTake(a)
  BY <1>5 DEF QueueInv, C!PopTake, C!Decide, C!Goto, C!At, Stays, Pushing, Popping, Closing
<1>6. CASE C!TryBusy(a) \/ C!TryTest(a) \/ C!EmptyRead(a) \/ C!IsClosed(a)
  <2>1. pc[a] \in {"try_lock", "try_test", "empty_read", "is_closed"}
    BY <1>6 DEF C!TryBusy, C!TryTest, C!EmptyRead, C!IsClosed, C!At
  <2>2. C!Goto(a, "idle")
    BY <1>6 DEF C!TryBusy, C!TryTest, C!EmptyRead, C!IsClosed, C!Decide
  <2> QED BY <2>1, <2>2 DEF QueueInv, C!Goto, Stays, Pushing, Popping, Closing
<1>7. CASE C!CloseStore(a)
  BY <1>7 DEF QueueInv, C!CloseStore, C!Decide, C!Goto, C!At, Stays, Pushing, Popping, Closing
<1>8. CASE C!CloseNotify(a)
  BY <1>8 DEF QueueInv, C!CloseNotify, C!Waiting, C!At, Woken, Stays, Pushing, Popping, Closing
<1> QED BY <1>1, <1>2, <1>3, <1>4, <1>5, <1>6, <1>7, <1>8 DEF C!Step

(* So everybody is in an operation that its part of the pool calls. *)
LEMMA CallKeepsPlaces ==
    ASSUME QueueInv, PlaceInv, NEW a \in Actors, C!Step(a) \/ C!SpuriousWake(a),
           a = Owner => owner' = owner \/ pc'[Owner] = "idle",
           a # Owner => owner' = owner
    PROVE  PlaceInv'
<1>1. \A b \in Actors \ {a} : pc'[b] = pc[b] \/ Woken(b)
  BY StepMoves
<1>2. \A w \in Workers : pc'[w] \in {"idle"} \cup Pushing \cup Popping
  <2>1. ASSUME NEW w \in Workers PROVE pc'[w] \in {"idle"} \cup Pushing \cup Popping
    <3>1. CASE w = a
      BY <3>1, StepMoves DEF PlaceInv, Stays
    <3>2. CASE w # a
      BY <1>1, <3>2 DEF PlaceInv, Woken, Actors, Popping
    <3> QED BY <3>1, <3>2
  <2> QED BY <2>1
<1>3. \A c \in Clients : pc'[c] \in {"idle"} \cup Pushing
  <2>1. ASSUME NEW c \in Clients PROVE pc'[c] \in {"idle"} \cup Pushing
    <3>1. CASE c = a
      BY <3>1, StepMoves DEF PlaceInv, Stays
    <3>2. CASE c # a
      BY <1>1, <3>2 DEF PlaceInv, Woken, Actors, Pushing
    <3> QED BY <3>1, <3>2
  <2> QED BY <2>1
<1>4. pc'[Owner] \in {"idle"} \cup Closing
  <2>1. CASE Owner = a
    BY <2>1, StepMoves DEF PlaceInv, Stays
  <2>2. CASE Owner # a
    BY <1>1, <2>2 DEF PlaceInv, Woken, Actors, Closing
  <2> QED BY <2>1, <2>2
<1>5. pc'[Owner] # "idle" => owner' = "closing"
  <2>1. CASE Owner = a
    BY <2>1, StepMoves DEF PlaceInv
  <2>2. CASE Owner # a
    BY <1>1, <2>2 DEF PlaceInv, Woken, Actors, Closing
  <2> QED BY <2>1, <2>2
<1> QED BY <1>2, <1>3, <1>4, <1>5 DEF PlaceInv

(* A call is that of an operation which the caller may be in. *)
LEMMA CallsKeepPlaces ==
    ASSUME QueueInv, PlaceInv, NEW a \in Actors, NEW o, NEW v, C!Call(a, o, v),
           \/ o = "push" /\ a \in Workers \cup Clients /\ owner' = owner
           \/ o = "pop" /\ a \in Workers /\ owner' = owner
           \/ o = "close" /\ a = Owner /\ owner' = "closing"
    PROVE  PlaceInv'
<1>1. pc' = [pc EXCEPT ![a] = C!Entry[o]]
  BY DEF C!Call, C!Goto
<1>2. /\ C!Entry["push"] = "push_check" /\ C!Entry["pop"] = "pop_lock"
      /\ C!Entry["close"] = "close_lock"
  BY DEF C!Entry
<1>3. Owner \notin Workers \cup Clients /\ Workers \cap Clients = {}
  BY ActorsAssumption
<1> QED BY <1>1, <1>2, <1>3 DEF QueueInv, PlaceInv, Actors, Pushing, Popping, Closing

LEMMA PlaceStep == ASSUME QueueInv, Inv, [Next]_vars PROVE PlaceInv'
<1>1. ASSUME NEW a \in Workers \cup Clients, Submit(a) PROVE PlaceInv'
  BY <1>1, CallsKeepPlaces DEF Submit, Inv, Actors
<1>2. ASSUME NEW a \in Workers \cup Clients, InCall(a) \/ Spurious(a) PROVE PlaceInv'
  <2>1. C!Step(a) \/ C!SpuriousWake(a)
    BY <1>2 DEF InCall, Inside, Pushed, Refused, Spurious, C!Step
  <2>2. owner' = owner
    BY <1>2 DEF InCall, Inside, Pushed, Refused, Spurious, pool
  <2> QED BY <2>1, <2>2, CallKeepsPlaces DEF Inv, Actors
<1>3. ASSUME NEW w \in Workers, WorkerPop(w) PROVE PlaceInv'
  BY <1>3, CallsKeepPlaces DEF WorkerPop, Inv, Actors
<1>4. ASSUME NEW w \in Workers, WorkerStart(w) \/ WorkerExit(w) PROVE PlaceInv'
  BY <1>4, CallKeepsPlaces DEF WorkerStart, WorkerExit, C!Step, Inv, Actors
<1>5. ASSUME NEW w \in Workers, WorkerFinish(w) PROVE PlaceInv'
  BY <1>5 DEF WorkerFinish, queue, Inv, PlaceInv
<1>6. CASE DtorClose
  BY <1>6, CallsKeepPlaces DEF DtorClose, Inv, Actors
<1>7. CASE Inside(Owner)
  BY <1>7, CallKeepsPlaces DEF Inside, pool, Inv, Actors
<1>8. CASE DtorClosed
  <2>1. pc'[Owner] = "idle"
    BY <1>8 DEF DtorClosed, C!CloseNotify, Actors
  <2> QED BY <1>8, <2>1, CallKeepsPlaces DEF DtorClosed, C!Step, Inv, Actors
<1>9. CASE DtorDone
  BY <1>9 DEF DtorDone, queue, Inv, PlaceInv
<1>10. CASE UNCHANGED vars
  BY <1>10 DEF vars, queue, pool, Inv, PlaceInv
<1> QED
  BY <1>1, <1>2, <1>3, <1>4, <1>5, <1>6, <1>7, <1>8, <1>9, <1>10
  DEF Next, Work, Destroy, Finished

(* What is left to submit are tasks, and who pushes has one. *)
LEMMA TodoStep == ASSUME QueueInv, QueueInv', Inv, [Next]_vars PROVE TodoType' /\ TodoInv'
<1>0. Owner \notin Workers \cup Clients /\ Workers \cap Clients = {}
  BY ActorsAssumption
<1>1. ASSUME NEW a \in Actors, C!Step(a) \/ C!SpuriousWake(a),
             \A b \in Workers \cup Clients :
                 pc'[b] \in Pushing /\ b = a => todo'[b] = todo[b],
             \A b \in Workers \cup Clients : b # a => todo'[b] = todo[b]
      PROVE  TodoInv'
  <2> SUFFICES ASSUME NEW b \in Workers \cup Clients, pc'[b] \in Pushing
               PROVE  todo'[b] # <<>>
    BY DEF TodoInv
  <2>1. pc[b] \in Pushing
    <3>1. CASE b = a
      BY <1>1, <3>1, StepMoves DEF Inv, PlaceInv, Stays, Pushing, Popping
    <3>2. CASE b # a
      BY <1>1, <3>2, StepMoves DEF Woken, Actors, Pushing
    <3> QED BY <3>1, <3>2
  <2> QED BY <1>1, <2>1 DEF Inv, TodoInv
<1>2. ASSUME NEW a \in Workers \cup Clients, Submit(a) PROVE TodoType' /\ TodoInv'
  <2>1. todo' = todo /\ todo[a] # <<>> /\ pc' = [pc EXCEPT ![a] = C!Entry["push"]]
    BY <1>2 DEF Submit, C!Call, C!Goto
  <2> QED BY <2>1 DEF QueueInv, Inv, TodoType, TodoInv, Actors
<1>3. ASSUME NEW a \in Actors, Inside(a) \/ Spurious(a) PROVE TodoType' /\ TodoInv'
  BY <1>1, <1>3 DEF Inside, Spurious, pool, Inv, TodoType
<1>4. ASSUME NEW a \in Workers \cup Clients, Pushed(a) \/ Refused(a)
      PROVE  TodoType' /\ TodoInv'
  <2>1. todo' = todo \/ todo' = [todo EXCEPT ![a] = Tail(@)]
    BY <1>4 DEF Pushed, Refused
  <2>2. C!Step(a) /\ pc'[a] = "idle"
    BY <1>4 DEF Pushed, Refused, C!Step, Returns
  <2>3. pc[a] \in Pushing
    BY <1>4 DEF Pushed, Refused, C!PushInsert, C!PushNotify, C!PushCheck, C!At, Pushing
  <2>4. Tail(todo[a]) \in Seq(Tasks)
    BY <2>3 DEF Inv, TodoType, TodoInv
  <2> QED BY <1>1, <2>1, <2>2, <2>4 DEF Inv, TodoType, Actors, Pushing
<1>5. ASSUME NEW w \in Workers, WorkerPop(w) PROVE TodoType' /\ TodoInv'
  <2>1. todo' = todo /\ pc' = [pc EXCEPT ![w] = "pop_lock"]
    BY <1>5 DEF WorkerPop, C!Call, C!Goto, C!Entry
  <2> QED BY <2>1 DEF QueueInv, Inv, TodoType, TodoInv, Actors, Pushing
<1>6. ASSUME NEW w \in Workers, WorkerStart(w) \/ WorkerExit(w)
      PROVE  TodoType' /\ TodoInv'
  <2>1. C!Step(w) /\ pc'[w] = "idle"
    BY <1>6 DEF WorkerStart, WorkerExit, C!Step, C!PopTake, C!Decide, C!Goto, QueueInv, Actors
  <2>2. CASE WorkerStart(w)
    <3>1. q # <<>> /\ ret'[w].val = Head(q)
      BY <2>2 DEF WorkerStart, C!PopTake, C!Decide, C!Result, C!At, QueueInv, Actors
    <3>2. Submits[ret'[w].val] \in Seq(Tasks)
      BY <3>1, TasksAssumption DEF QueueInv
    <3>3. todo' = [todo EXCEPT ![w] = Submits[ret'[w].val]]
      BY <2>2 DEF WorkerStart
    <3> QED BY <1>1, <2>1, <3>2, <3>3 DEF Inv, TodoType, Actors, Pushing
  <2>3. CASE WorkerExit(w)
    BY <1>1, <2>1, <2>3 DEF WorkerExit, Inv, TodoType, Actors
  <2> QED BY <1>6, <2>2, <2>3
<1>7. ASSUME NEW w \in Workers, WorkerFinish(w) PROVE TodoType' /\ TodoInv'
  BY <1>7 DEF WorkerFinish, queue, Inv, TodoType, TodoInv, Pushing
<1>8. CASE DtorClose
  <2>1. todo' = todo /\ pc' = [pc EXCEPT ![Owner] = "close_lock"]
    BY <1>8 DEF DtorClose, C!Call, C!Goto, C!Entry
  <2> QED BY <1>0, <2>1 DEF QueueInv, Inv, TodoType, TodoInv, Actors
<1>9. CASE DtorClosed
  BY <1>0, <1>1, <1>9 DEF DtorClosed, C!Step, Inv, TodoType, Actors
<1>10. CASE DtorDone \/ UNCHANGED vars
  BY <1>10 DEF DtorDone, queue, pool, vars, Inv, TodoType, TodoInv
<1>11. Owner \in Actors /\ Workers \subseteq Actors /\ Clients \subseteq Actors
  BY DEF Actors
<1> QED
  BY <1>2, <1>3, <1>4, <1>5, <1>6, <1>7, <1>8, <1>9, <1>10, <1>11
  DEF Next, Work, InCall, Destroy, Finished

LEMMA InitInv == Init => Inv
  BY ActorsAssumption, TasksAssumption
  DEF Init, C!Init, Inv, PlaceInv, TodoType, TodoInv, Pushing, Actors

(* Both parts' invariants hold together: the queue's because every step is *)
(* one of its steps, the pool's because the queue's does.                  *)
LEMMA NextInv == CP!IInv /\ Inv /\ [Next]_vars => CP!IInv' /\ Inv'
<1> SUFFICES ASSUME CP!IInv, Inv, [Next]_vars PROVE CP!IInv' /\ Inv'
  OBVIOUS
<1>1. QueueInv
  BY QueueInvIs
<1>2. [CP!Next]_(CP!vars)
  BY QueueStep, SameQueue DEF Inv
<1>3. CP!IInv'
  BY <1>2, QueueAssumptions, CP!NextInv
<1>4. QueueInv'
  BY <1>3, QueueInvNext
<1> QED BY <1>1, <1>3, <1>4, PlaceStep, TodoStep DEF Inv

LEMMA Invariance == Spec => []CP!IInv /\ []Inv
<1>1. Init => CP!IInv /\ Inv
  <2>1. CP!Init => CP!IInv
    BY QueueAssumptions, CP!InitInv
  <2> QED BY <2>1, InitInv, SameQueue DEF Init
<1> QED BY <1>1, NextInv, PTL DEF Spec

-----------------------------------------------------------------------------
(* What ThreadPool sees of the calls, of the lists and of the destructor. *)
opBar == [a \in Actors |-> C!Phase(pc[a])]
todoBar == [a \in Workers \cup Clients |->
               IF pc[a] = "push_notify" THEN Tail(todo[a]) ELSE todo[a]]
ownerBar == IF pc[Owner] = "close_notify" THEN "joining" ELSE owner

(* A wakeup is no step of the pool: both places are inside pop. *)
Others(a) == \A b \in Actors : b # a => pc'[b] = pc[b] \/ Woken(b)

LEMMA BarMoves ==
    ASSUME NEW a \in Actors, Others(a)
    PROVE  /\ opBar' = [opBar EXCEPT ![a] = C!Phase(pc'[a])]
           /\ \A x \in Seq(Tasks) :
                 /\ todo' = [todo EXCEPT ![a] = x]
                 /\ TodoType
                 => todoBar' = [todoBar EXCEPT ![a] =
                                   IF pc'[a] = "push_notify" THEN Tail(x) ELSE x]
           /\ UNCHANGED todo /\ (pc[a] = "push_notify" <=> pc'[a] = "push_notify")
                 => UNCHANGED todoBar
           /\ UNCHANGED owner /\ (a = Owner => pc[a] # "close_notify" /\ pc'[a] # "close_notify")
                 => UNCHANGED ownerBar
<1>1. opBar' = [opBar EXCEPT ![a] = C!Phase(pc'[a])]
  <2>1. \A b \in Actors : b # a => C!Phase(pc'[b]) = C!Phase(pc[b])
    BY DEF Others, Woken, C!Phase
  <2> QED BY <2>1 DEF opBar
<1>2. ASSUME NEW x \in Seq(Tasks), todo' = [todo EXCEPT ![a] = x], TodoType
      PROVE  todoBar' = [todoBar EXCEPT ![a] =
                             IF pc'[a] = "push_notify" THEN Tail(x) ELSE x]
  BY <1>2 DEF Others, Woken, todoBar, TodoType, Actors
<1>3. ASSUME UNCHANGED todo, pc[a] = "push_notify" <=> pc'[a] = "push_notify"
      PROVE  UNCHANGED todoBar
  BY <1>3 DEF Others, Woken, todoBar, Actors
<1>4. ASSUME UNCHANGED owner, a = Owner => pc[a] # "close_notify" /\ pc'[a] # "close_notify"
      PROVE  UNCHANGED ownerBar
  BY <1>4 DEF Others, Woken, ownerBar, Actors
<1> QED BY <1>1, <1>2, <1>3, <1>4

LEMMA Phases ==
    /\ C!Phase("idle") = "idle" /\ C!Phase("push_notify") = "idle"
    /\ C!Phase("close_notify") = "idle"
    /\ C!Phase("push_check") = "push"
    /\ C!Phase("push_lock") = "admitted" /\ C!Phase("push_insert") = "admitted"
    /\ \A p \in Popping : C!Phase(p) = "pop"
    /\ C!Phase("close_lock") = "close" /\ C!Phase("close_store") = "close"
  BY DEF C!Phase, Popping

LEMMA SubmitRefines ==
    ASSUME QueueInv, Inv, NEW a \in Workers \cup Clients, Submit(a)
    PROVE  TP!Submit(a)
<1>1. /\ pc[a] = "idle" /\ a \in Actors /\ a # Owner
      /\ pc' = [pc EXCEPT ![a] = "push_check"]
      /\ arg' = [arg EXCEPT ![a] = Head(todo[a])]
      /\ ret' = [ret EXCEPT ![a] = C!Result("none", NoTask)]
      /\ UNCHANGED <<q, closed, todo, owner, wpc, task, aborted>>
      /\ todo[a] # <<>> /\ fut' = [fut EXCEPT ![Head(todo[a])] = "pending"]
  BY ActorsAssumption DEF Submit, C!Call, C!At, C!Goto, C!Entry, Actors
<1>2. Others(a) /\ pc'[a] = "push_check"
  BY <1>1 DEF Others, QueueInv
<1>3. opBar' = [opBar EXCEPT ![a] = "push"] /\ UNCHANGED <<todoBar, ownerBar>>
  BY <1>1, <1>2, BarMoves, Phases
<1>4. opBar[a] = "idle" /\ todoBar[a] = todo[a]
  BY <1>1, Phases DEF opBar, todoBar
<1>5. C!Result("none", NoTask) = TP!Q!NoResult
  BY DEF C!Result, TP!Q!NoResult, TP!Q!Result
<1> QED
  BY <1>1, <1>3, <1>4, <1>5 DEF TP!Submit, TP!Q!Call, opBar, todoBar, ownerBar

LEMMA InsertRefines ==
    ASSUME QueueInv, Inv, NEW a \in Workers \cup Clients, C!PushInsert(a),
           \/ pc'[a] = "push_notify" /\ UNCHANGED todo
           \/ pc'[a] = "idle" /\ todo' = [todo EXCEPT ![a] = Tail(@)],
           UNCHANGED <<wpc, task, fut, owner, aborted>>
    PROVE  TP!PushInsert(a)
<1>1. /\ pc[a] = "push_insert" /\ a \in Actors /\ a # Owner
      /\ q' = Append(q, arg[a]) /\ UNCHANGED closed
      /\ arg' = [arg EXCEPT ![a] = NoTask]
      /\ ret' = [ret EXCEPT ![a] = C!Result("pushed", NoTask)]
  BY ActorsAssumption DEF C!PushInsert, C!At, Actors
<1>2. Others(a)
  BY <1>1, StepMoves DEF C!Step, Others
<1>3. todo[a] # <<>> /\ todo[a] \in Seq(Tasks) /\ Tail(todo[a]) \in Seq(Tasks)
  BY <1>1 DEF Inv, TodoType, TodoInv, Pushing
<1>4. todoBar[a] = todo[a] /\ opBar[a] = "admitted"
  BY <1>1, Phases DEF todoBar, opBar
<1>5. opBar' = [opBar EXCEPT ![a] = "idle"] /\ UNCHANGED ownerBar
  BY <1>1, <1>2, BarMoves, Phases
<1>6. todoBar' = [todoBar EXCEPT ![a] = Tail(todo[a])]
  <2>1. CASE pc'[a] = "push_notify" /\ UNCHANGED todo
    <3>1. todo' = [todo EXCEPT ![a] = todo[a]]
      BY <2>1 DEF Inv, TodoType
    <3> QED BY <1>2, <1>3, <2>1, <3>1, <1>1, BarMoves DEF Inv
  <2>2. CASE pc'[a] = "idle" /\ todo' = [todo EXCEPT ![a] = Tail(@)]
    BY <1>1, <1>2, <1>3, <2>2, BarMoves DEF Inv
  <2> QED BY <2>1, <2>2
<1>7. TP!Q!Insert(a)
  BY <1>1, <1>4, <1>5 DEF TP!Q!Insert, TP!Q!Return, TP!Q!Result, C!Result, opBar
<1> QED BY <1>4, <1>6, <1>7, <1>5 DEF TP!PushInsert, todoBar, ownerBar

(* The steps inside a call: the two of push and close that take effect. *)
LEMMA InsideRefines ==
    ASSUME QueueInv, QueueInv', Inv, NEW a \in Actors, Inside(a) \/ Spurious(a)
    PROVE  \/ a \in Workers \cup Clients /\ (TP!PushAdmit(a) \/ TP!PushInsert(a))
           \/ TP!DtorClosed
           \/ UNCHANGED TP!vars
<1>0. UNCHANGED pool
  BY DEF Inside, Spurious
<1>1. Others(a)
  BY StepMoves DEF Inside, Spurious, Others
<1>2. ASSUME UNCHANGED <<q, closed, arg, ret>>, C!Phase(pc'[a]) = C!Phase(pc[a]),
             pc[a] \notin {"push_notify", "close_notify"},
             pc'[a] \notin {"push_notify", "close_notify"}
      PROVE  UNCHANGED TP!vars
  <2>1. UNCHANGED <<todoBar, ownerBar>>
    BY <1>0, <1>1, <1>2, BarMoves DEF pool
  <2>2. UNCHANGED opBar
    <3>1. opBar' = [opBar EXCEPT ![a] = C!Phase(pc'[a])]
      BY <1>1, BarMoves
    <3> QED BY <1>2, <3>1 DEF opBar
  <2> QED BY <1>0, <1>2, <2>1, <2>2
          DEF TP!vars, TP!queue, TP!pool, pool, opBar, todoBar, ownerBar
<1>3. CASE C!Acquire(a)
  <2>1. /\ UNCHANGED <<q, closed, arg, ret>> /\ pc[a] \in DOMAIN C!Section
        /\ pc'[a] = C!Section[pc[a]]
    BY <1>3 DEF C!Acquire, C!Goto, QueueInv
  <2>2. pc[a] \in Pushing \cup Popping \cup Closing
    BY <2>1 DEF Inv, PlaceInv, Actors, C!Section, Pushing, Popping, Closing
  <2>3. /\ pc[a] \in {"push_lock", "pop_lock", "pop_wake", "close_lock"}
        /\ pc'[a] = CASE pc[a] = "push_lock" -> "push_insert"
                      [] pc[a] \in {"pop_lock", "pop_wake"} -> "pop_test"
                      [] pc[a] = "close_lock" -> "close_store"
    BY <2>1, <2>2 DEF C!Section, Pushing, Popping, Closing
  <2>4. C!Phase(pc'[a]) = C!Phase(pc[a])
    BY <2>3, Phases DEF Popping
  <2> QED BY <1>2, <2>1, <2>3, <2>4
<1>4. CASE C!PushCheck(a) /\ Inside(a)
  <2>1. /\ pc[a] = "push_check" /\ ~closed /\ pc'[a] = "push_lock"
        /\ UNCHANGED <<q, closed, arg, ret>>
    BY <1>4 DEF C!PushCheck, C!Decide, C!Goto, C!At, Inside, Returns, QueueInv
  <2>2. a \in Workers \cup Clients /\ a # Owner
    BY <2>1 DEF Inv, PlaceInv, Actors, Closing
  <2>3. /\ opBar[a] = "push" /\ opBar' = [opBar EXCEPT ![a] = "admitted"]
        /\ UNCHANGED <<todoBar, ownerBar>>
    <3>1. opBar[a] = "push"
      BY <2>1, Phases DEF opBar
    <3> QED BY <1>0, <1>1, <2>1, <2>2, <3>1, BarMoves, Phases DEF pool
  <2>4. TP!PushAdmit(a)
    BY <1>0, <2>1, <2>3
    DEF TP!PushAdmit, TP!Q!Admit, TP!pool, pool, opBar, todoBar, ownerBar
  <2> QED BY <2>2, <2>4
<1>5. CASE C!PushInsert(a) /\ Inside(a)
  <2>1. pc[a] = "push_insert" /\ pc'[a] = "push_notify"
    BY <1>5 DEF C!PushInsert, C!NotifyOne, C!Waiting, C!Goto, C!At, Inside, Returns, QueueInv
  <2>2. a \in Workers \cup Clients
    BY <2>1 DEF Inv, PlaceInv, Actors, Closing
  <2> QED BY <1>0, <1>5, <2>1, <2>2, InsertRefines DEF pool
<1>6. CASE C!PopTest(a) \/ C!PopSleep(a) \/ C!SpuriousWake(a)
  <2>1. UNCHANGED <<q, closed, arg, ret>> /\ pc[a] \in Popping /\ pc'[a] \in Popping
    BY <1>6 DEF C!PopTest, C!PopSleep, C!SpuriousWake, C!Goto, C!At, QueueInv, Popping
  <2>2. C!Phase(pc'[a]) = C!Phase(pc[a])
    BY <2>1, Phases
  <2> QED BY <1>2, <2>1, <2>2 DEF Popping
<1>7. CASE C!CloseStore(a) /\ Inside(a)
  <2>1. /\ pc[a] = "close_store" /\ pc'[a] = "close_notify" /\ closed' = TRUE
        /\ arg' = [arg EXCEPT ![a] = NoTask] /\ UNCHANGED q
        /\ ret' = [ret EXCEPT ![a] = C!Result("void", NoTask)]
    BY <1>7 DEF C!CloseStore, C!Decide, C!Goto, C!At, QueueInv
  <2>2. a = Owner
    BY <2>1 DEF Inv, PlaceInv, Actors, Pushing, Popping
  <2>3. ownerBar' = "joining" /\ UNCHANGED todoBar
    BY <1>0, <1>1, <2>1, <2>2, BarMoves DEF ownerBar, pool
  <2>4. opBar[Owner] = "close" /\ opBar' = [opBar EXCEPT ![Owner] = "idle"]
    <3>1. opBar[Owner] = "close"
      BY <2>1, <2>2, Phases DEF opBar
    <3> QED BY <1>1, <2>1, <2>2, <3>1, BarMoves, Phases
  <2>5. TP!Q!Close(Owner)
    BY <2>1, <2>2, <2>4 DEF TP!Q!Close, TP!Q!Return, TP!Q!Result, C!Result, opBar
  <2> QED BY <1>0, <2>3, <2>5 DEF TP!DtorClosed, pool, todoBar, ownerBar
<1>8. CASE /\ Inside(a)
           /\ \/ C!PushNotify(a) \/ C!PopTake(a) \/ C!TryBusy(a) \/ C!TryTest(a)
              \/ C!CloseNotify(a) \/ C!EmptyRead(a) \/ C!IsClosed(a)
  <2>1. pc'[a] = "idle"
    BY <1>8 DEF C!PushNotify, C!NotifyOne, C!Waiting, C!PopTake, C!TryBusy, C!TryTest, C!At,
                C!CloseNotify, C!EmptyRead, C!IsClosed, C!Decide, C!Goto, QueueInv
  <2> QED BY <1>8, <2>1 DEF Inside, Returns
<1> QED
  BY <1>3, <1>4, <1>5, <1>6, <1>7, <1>8 DEF Inside, Spurious, C!Step

LEMMA PushedRefines ==
    ASSUME QueueInv, Inv, NEW a \in Workers \cup Clients, Pushed(a)
    PROVE  TP!PushInsert(a) \/ UNCHANGED TP!vars
<1>1. CASE C!PushInsert(a)
  BY <1>1, InsertRefines DEF Pushed, Returns
<1>2. CASE C!PushNotify(a)
  <2>1. /\ pc[a] = "push_notify" /\ pc'[a] = "idle" /\ UNCHANGED <<q, closed, arg, ret>>
        /\ todo' = [todo EXCEPT ![a] = Tail(@)]
        /\ UNCHANGED <<wpc, task, fut, owner, aborted>> /\ a \in Actors /\ a # Owner
    BY <1>2, ActorsAssumption DEF Pushed, Returns, C!PushNotify, C!At, Actors
  <2>2. Others(a)
    BY <1>2, <2>1, StepMoves DEF C!Step, Others
  <2>3. Tail(todo[a]) \in Seq(Tasks)
    BY <2>1 DEF Inv, TodoType, TodoInv, Pushing
  <2>4. UNCHANGED todoBar
    <3>1. todoBar' = [todoBar EXCEPT ![a] = Tail(todo[a])]
      BY <2>1, <2>2, <2>3, BarMoves DEF Inv
    <3> QED BY <2>1, <3>1 DEF todoBar
  <2>5. UNCHANGED opBar
    <3>1. opBar' = [opBar EXCEPT ![a] = "idle"] /\ opBar[a] = "idle"
      <4>1. opBar[a] = "idle"
        BY <2>1, Phases DEF opBar
      <4> QED BY <2>1, <2>2, <4>1, BarMoves, Phases
    <3> QED BY <3>1 DEF opBar
  <2>6. UNCHANGED ownerBar
    BY <2>1, <2>2, BarMoves
  <2> QED BY <2>1, <2>4, <2>5, <2>6 DEF TP!vars, TP!queue, TP!pool, opBar, todoBar, ownerBar
<1> QED BY <1>1, <1>2 DEF Pushed

LEMMA RefusedRefines ==
    ASSUME QueueInv, Inv, NEW a \in Workers \cup Clients, Refused(a)
    PROVE  TP!PushRefused(a)
<1>1. /\ pc[a] = "push_check" /\ pc'[a] = "idle" /\ closed /\ UNCHANGED <<q, closed>>
      /\ arg' = [arg EXCEPT ![a] = NoTask] /\ a \in Actors /\ a # Owner
      /\ ret' = [ret EXCEPT ![a] = C!Result("refused", NoTask)]
  BY ActorsAssumption
  DEF Refused, Returns, C!PushCheck, C!Decide, C!Goto, C!At, QueueInv, Actors
<1>2. Others(a)
  BY <1>1, StepMoves DEF Refused, C!Step, Others
<1>3. opBar[a] = "push" /\ todoBar[a] = todo[a]
  BY <1>1, Phases DEF opBar, todoBar
<1>4. opBar' = [opBar EXCEPT ![a] = "idle"] /\ UNCHANGED ownerBar
  BY <1>1, <1>2, BarMoves, Phases DEF Refused
<1>5. TP!Q!Refuse(a)
  BY <1>1, <1>3, <1>4 DEF TP!Q!Refuse, TP!Q!Return, TP!Q!Result, C!Result, opBar
<1>6. Asserts => UNCHANGED todoBar
  BY <1>1, <1>2, BarMoves DEF Refused
<1>7. ~Asserts => todoBar' = [todoBar EXCEPT ![a] = Tail(@)]
  <2>1. todo[a] \in Seq(Tasks) /\ Tail(todo[a]) \in Seq(Tasks)
    BY <1>1 DEF Inv, TodoType, TodoInv, Pushing
  <2> QED BY <1>1, <1>2, <1>3, <2>1, BarMoves DEF Refused, Inv
<1> QED BY <1>4, <1>5, <1>6, <1>7 DEF Refused, TP!PushRefused, todoBar, ownerBar

LEMMA WorkRefines ==
    ASSUME QueueInv, Inv, NEW w \in Workers,
           WorkerPop(w) \/ WorkerStart(w) \/ WorkerFinish(w) \/ WorkerExit(w)
    PROVE  TP!Work(w)
<1>0. w \in Actors /\ w # Owner /\ w \in Workers \cup Clients
  BY ActorsAssumption DEF Actors
<1>1. CASE WorkerPop(w)
  <2>1. /\ pc[w] = "idle" /\ pc' = [pc EXCEPT ![w] = "pop_lock"]
        /\ arg' = [arg EXCEPT ![w] = NoTask]
        /\ ret' = [ret EXCEPT ![w] = C!Result("none", NoTask)]
        /\ UNCHANGED <<q, closed, todo, owner>>
    BY <1>1 DEF WorkerPop, C!Call, C!At, C!Goto, C!Entry
  <2>2. Others(w) /\ pc'[w] = "pop_lock"
    BY <1>0, <2>1 DEF Others, QueueInv
  <2>3. UNCHANGED <<todoBar, ownerBar>>
    BY <1>0, <2>1, <2>2, BarMoves
  <2>4. opBar[w] = "idle" /\ opBar' = [opBar EXCEPT ![w] = "pop"]
    <3>1. opBar[w] = "idle"
      BY <1>0, <2>1, Phases DEF opBar
    <3>2. opBar' = [opBar EXCEPT ![w] = C!Phase("pop_lock")]
      BY <1>0, <2>2, BarMoves
    <3> QED BY <3>1, <3>2, Phases DEF Popping
  <2>5. C!Result("none", NoTask) = TP!Q!NoResult
    BY DEF C!Result, TP!Q!NoResult, TP!Q!Result
  <2> QED
    BY <1>1, <2>1, <2>3, <2>4, <2>5
    DEF WorkerPop, TP!Work, TP!WorkerPop, TP!Q!Call, opBar, todoBar, ownerBar
<1>2. CASE WorkerStart(w)
  <2> DEFINE t == Head(q)
  <2>1. /\ pc[w] = "pop_take" /\ pc'[w] = "idle" /\ C!Step(w)
        /\ q # <<>> /\ q' = Tail(q) /\ UNCHANGED closed
        /\ arg' = [arg EXCEPT ![w] = NoTask]
        /\ ret' = [ret EXCEPT ![w] = C!Result("popped", t)] /\ ret'[w].val = t
    BY <1>0, <1>2
    DEF WorkerStart, C!PopTake, C!Decide, C!Goto, C!At, C!Result, C!Step, QueueInv
  <2>2. Others(w)
    BY <1>0, <2>1, StepMoves DEF Others
  <2>3. Submits[t] \in Seq(Tasks)
    BY <2>1, TasksAssumption DEF QueueInv
  <2>4. todo' = [todo EXCEPT ![w] = Submits[t]] /\ UNCHANGED owner
    BY <1>2, <2>1 DEF WorkerStart
  <2>5. todoBar' = [todoBar EXCEPT ![w] = Submits[t]] /\ UNCHANGED ownerBar
    BY <1>0, <2>1, <2>2, <2>3, <2>4, BarMoves DEF Inv
  <2>6. opBar[w] = "pop" /\ opBar' = [opBar EXCEPT ![w] = "idle"]
    <3>1. opBar[w] = "pop"
      BY <1>0, <2>1, Phases DEF opBar, Popping
    <3> QED BY <1>0, <2>1, <2>2, <3>1, BarMoves, Phases
  <2>7. TP!Q!Take(w)
    BY <2>1, <2>6 DEF TP!Q!Take, TP!Q!Return, TP!Q!Result, C!Result, opBar
  <2>8. TP!WorkerStart(w)
    BY <1>2, <2>1, <2>5, <2>7 DEF WorkerStart, TP!WorkerStart, todoBar, ownerBar
  <2> QED BY <2>8 DEF TP!Work
<1>3. CASE WorkerFinish(w)
  <2>1. pc[w] = "idle" /\ UNCHANGED <<q, closed, pc, arg, ret>> /\ UNCHANGED owner
        /\ todo' = [todo EXCEPT ![w] = <<>>]
    BY <1>3 DEF WorkerFinish, queue
  <2>2. UNCHANGED opBar /\ UNCHANGED ownerBar /\ opBar[w] = "idle" /\ todoBar[w] = todo[w]
    BY <1>0, <2>1, Phases DEF opBar, ownerBar, todoBar
  <2>3. todoBar' = [todoBar EXCEPT ![w] = <<>>]
    BY <1>0, <2>1 DEF todoBar, Inv, TodoType
  <2> QED
    BY <1>3, <2>1, <2>2, <2>3
    DEF WorkerFinish, TP!Work, TP!WorkerFinish, TP!queue, opBar, ownerBar, todoBar
<1>4. CASE WorkerExit(w)
  <2>1. /\ pc[w] = "pop_take" /\ pc'[w] = "idle" /\ C!Step(w)
        /\ q = <<>> /\ closed /\ UNCHANGED <<q, closed, todo, owner>>
        /\ arg' = [arg EXCEPT ![w] = NoTask]
        /\ ret' = [ret EXCEPT ![w] = C!Result("nullopt", NoTask)]
    BY <1>0, <1>4
    DEF WorkerExit, C!PopTake, C!Decide, C!Goto, C!At, C!Result, C!Step, QueueInv
  <2>2. Others(w)
    BY <1>0, <2>1, StepMoves DEF Others
  <2>3. UNCHANGED <<todoBar, ownerBar>>
    BY <1>0, <2>1, <2>2, BarMoves
  <2>4. opBar[w] = "pop" /\ opBar' = [opBar EXCEPT ![w] = "idle"]
    <3>1. opBar[w] = "pop"
      BY <1>0, <2>1, Phases DEF opBar, Popping
    <3> QED BY <1>0, <2>1, <2>2, <3>1, BarMoves, Phases
  <2>5. TP!Q!Drained(w)
    BY <2>1, <2>4 DEF TP!Q!Drained, TP!Q!Return, TP!Q!Result, C!Result, opBar
  <2> QED BY <1>4, <2>3, <2>5 DEF WorkerExit, TP!Work, TP!WorkerExit, todoBar, ownerBar
<1> QED BY <1>1, <1>2, <1>3, <1>4

LEMMA DtorRefines ==
    ASSUME QueueInv, Inv, DtorClose \/ DtorClosed \/ DtorDone
    PROVE  TP!Destroy \/ UNCHANGED TP!vars
<1>0. Owner \in Actors /\ Owner \notin Workers \cup Clients
  BY ActorsAssumption DEF Actors
<1>1. CASE DtorClose
  <2>1. /\ pc[Owner] = "idle" /\ pc' = [pc EXCEPT ![Owner] = "close_lock"]
        /\ arg' = [arg EXCEPT ![Owner] = NoTask]
        /\ ret' = [ret EXCEPT ![Owner] = C!Result("none", NoTask)]
        /\ UNCHANGED <<q, closed, todo>>
    BY <1>1 DEF DtorClose, C!Call, C!At, C!Goto, C!Entry
  <2>2. Others(Owner) /\ pc'[Owner] = "close_lock"
    BY <1>0, <2>1 DEF Others, QueueInv
  <2>3. /\ UNCHANGED todoBar /\ ownerBar = "alive" /\ ownerBar' = "closing"
    BY <1>0, <1>1, <2>1, <2>2, BarMoves DEF ownerBar, DtorClose
  <2>4. opBar[Owner] = "idle" /\ opBar' = [opBar EXCEPT ![Owner] = "close"]
    <3>1. opBar[Owner] = "idle"
      BY <1>0, <2>1, Phases DEF opBar
    <3> QED BY <1>0, <2>2, <3>1, BarMoves, Phases
  <2>5. C!Result("none", NoTask) = TP!Q!NoResult
    BY DEF C!Result, TP!Q!NoResult, TP!Q!Result
  <2>6. TP!Q!Call(Owner, "close", NoTask)
    BY <2>1, <2>4, <2>5 DEF TP!Q!Call, opBar
  <2>7. TP!ClientsDone
    <3>1. ASSUME NEW c \in Clients PROVE todoBar[c] = <<>> /\ opBar[c] = "idle"
      BY <1>1, Phases DEF DtorClose, ClientsDone, todoBar, opBar, Actors
    <3> QED BY <3>1 DEF TP!ClientsDone, todoBar, opBar
  <2> QED BY <1>1, <2>3, <2>6, <2>7 DEF DtorClose, TP!Destroy, TP!DtorClose, todoBar, ownerBar
<1>2. CASE DtorClosed
  <2>1. /\ pc[Owner] = "close_notify" /\ pc'[Owner] = "idle" /\ C!Step(Owner)
        /\ UNCHANGED <<q, closed, arg, ret, todo>> /\ owner' = "joining"
    BY <1>0, <1>2 DEF DtorClosed, C!CloseNotify, C!At, C!Step
  <2>2. Others(Owner)
    BY <1>0, <2>1, StepMoves DEF Others
  <2>3. UNCHANGED todoBar /\ UNCHANGED ownerBar
    BY <1>0, <2>1, <2>2, BarMoves DEF ownerBar
  <2>4. UNCHANGED opBar
    <3>1. opBar' = [opBar EXCEPT ![Owner] = "idle"] /\ opBar[Owner] = "idle"
      <4>1. opBar[Owner] = "idle"
        BY <1>0, <2>1, Phases DEF opBar
      <4> QED BY <1>0, <2>1, <2>2, <4>1, BarMoves, Phases
    <3> QED BY <3>1 DEF opBar
  <2> QED
    BY <1>2, <2>1, <2>3, <2>4
    DEF DtorClosed, TP!vars, TP!queue, TP!pool, opBar, todoBar, ownerBar
<1>3. CASE DtorDone
  <2>1. UNCHANGED <<q, closed, pc, arg, ret, todo>> /\ pc[Owner] = "idle" /\ owner = "joining"
    BY <1>3 DEF DtorDone, queue, Inv, PlaceInv
  <2>2. UNCHANGED opBar /\ UNCHANGED todoBar /\ ownerBar = owner /\ ownerBar' = owner'
    BY <2>1 DEF opBar, todoBar, ownerBar
  <2> QED
    BY <1>3, <2>1, <2>2
    DEF DtorDone, TP!Destroy, TP!DtorDone, TP!queue, opBar, todoBar, ownerBar
<1> QED BY <1>1, <1>2, <1>3

LEMMA PoolStep ==
    QueueInv /\ QueueInv' /\ Inv /\ [Next]_vars => [TP!Next]_(TP!vars)
<1> SUFFICES ASSUME QueueInv, QueueInv', Inv, [Next]_vars
             PROVE  TP!Next \/ UNCHANGED TP!vars
  OBVIOUS
<1>1. CASE UNCHANGED vars
  BY <1>1 DEF vars, queue, pool, TP!vars, TP!queue, TP!pool
<1>2. ASSUME Running, NEW a \in Workers \cup Clients, Submit(a) \/ InCall(a) \/ Spurious(a)
      PROVE  TP!Next \/ UNCHANGED TP!vars
  <2>1. a \in Actors
    BY DEF Actors
  <2>2. CASE Submit(a)
    BY <1>2, <2>2, SubmitRefines DEF TP!Next, TP!Push, TP!Running, Running
  <2>3. CASE Inside(a) \/ Spurious(a)
    BY <1>2, <2>1, <2>3, InsideRefines
    DEF TP!Next, TP!Push, TP!InPush, TP!Destroy, TP!Running, Running
  <2>4. CASE Pushed(a) \/ Refused(a)
    BY <1>2, <2>4, PushedRefines, RefusedRefines
    DEF TP!Next, TP!Push, TP!InPush, TP!Running, Running
  <2> QED BY <1>2, <2>2, <2>3, <2>4 DEF InCall
<1>3. ASSUME Running, NEW w \in Workers,
             WorkerPop(w) \/ WorkerStart(w) \/ WorkerFinish(w) \/ WorkerExit(w)
      PROVE  TP!Next
  BY <1>3, WorkRefines DEF TP!Next, TP!Running, Running
<1>4. CASE Running /\ (DtorClose \/ DtorClosed \/ DtorDone)
  BY <1>4, DtorRefines DEF TP!Next, TP!Running, Running
<1>5. CASE Running /\ Inside(Owner)
  <2>1. Owner \in Actors
    BY DEF Actors
  <2> QED
    BY <1>5, <2>1, InsideRefines
    DEF TP!Next, TP!Push, TP!InPush, TP!Destroy, TP!Running, Running
<1> QED
  BY <1>1, <1>2, <1>3, <1>4, <1>5 DEF Next, Work, Destroy, Finished

(* The pool over the mutex, the condition variable and the flag of the     *)
(* code's queue does nothing that the pool over the channel does not.      *)
THEOREM QueuedPoolIsThreadPool == Spec => IsThreadPool
<1>1. Init => TP!Init
  <2> SUFFICES ASSUME Init PROVE TP!Init
    OBVIOUS
  <2>1. opBar = [a \in Actors |-> "idle"]
    BY Phases DEF Init, C!Init, opBar
  <2>2. todoBar = todo /\ ownerBar = owner
    BY DEF Init, C!Init, todoBar, ownerBar, Actors
  <2> QED
    BY <2>1, <2>2 DEF Init, C!Init, TP!Init, TP!Q!Init, TP!Q!NoResult, TP!Q!Result, C!Result,
                      TP!Actors, Actors, opBar, todoBar, ownerBar
<1>2. CP!IInv /\ CP!IInv' /\ Inv /\ [Next]_vars => [TP!Next]_(TP!vars)
  <2> SUFFICES ASSUME CP!IInv, CP!IInv', Inv, [Next]_vars PROVE [TP!Next]_(TP!vars)
    OBVIOUS
  <2>1. QueueInv /\ QueueInv'
    BY QueueInvIs, QueueInvNext
  <2> QED BY <2>1, PoolStep
<1> QED BY <1>1, <1>2, Invariance, PTL DEF Spec, IsThreadPool, TP!Spec

-----------------------------------------------------------------------------
(* So the theorems about ThreadPool (TPP) hold of it. *)
LEMMA PoolAssumptions ==
    /\ Workers # {} /\ TPP!IsFiniteSet(Workers)
    /\ Workers \cap Clients = {} /\ Owner \notin Workers \cup Clients
    /\ NoTask \notin Tasks /\ Clients \cap Tasks = {}
    /\ Async \subseteq Tasks /\ Throwing \subseteq Tasks
    /\ Submits \in [Clients \cup Tasks -> TPP!Seq(Tasks)]
    /\ Asserts \in BOOLEAN
    /\ \A a, b \in Clients \cup Tasks :
           \A i \in DOMAIN Submits[a], j \in DOMAIN Submits[b] :
               /\ Submits[a][i] = Submits[b][j] => a = b /\ i = j
               /\ Submits[a][i] \in Async => i = TPP!Len(Submits[a])
<1>1. TPP!IsFiniteSet(Workers)
  BY ActorsAssumption DEF IsFiniteSet, TPP!IsFiniteSet
<1> QED BY <1>1, ActorsAssumption, TasksAssumption, SubmitsAssumption

LEMMA SamePool ==
    /\ TP!Init <=> TPP!Init
    /\ [TP!Next]_(TP!vars) <=> [TPP!Next]_(TPP!vars)
<1>1. TP!Init <=> TPP!Init
  BY DEF TP!Init, TPP!Init, TP!Q!Init, TPP!Q!Init, TP!Actors, TPP!Actors,
         TP!Q!NoResult, TPP!Q!NoResult, TP!Q!Result, TPP!Q!Result
<1>2. TP!Next <=> TPP!Next
  BY DEF TP!Q!Call, TPP!Q!Call, TP!Q!Return, TPP!Q!Return, TP!Q!Result, TPP!Q!Result,
         TP!Q!NoResult, TPP!Q!NoResult, TP!Q!Admit, TPP!Q!Admit,
         TP!Q!Refuse, TPP!Q!Refuse, TP!Q!Insert, TPP!Q!Insert, TP!Q!Take, TPP!Q!Take,
         TP!Q!Drained, TPP!Q!Drained, TP!Q!Close, TPP!Q!Close, TP!Submit, TPP!Submit,
         TP!PushAdmit, TPP!PushAdmit, TP!PushInsert, TPP!PushInsert,
         TP!PushRefused, TPP!PushRefused, TP!InPush, TPP!InPush, TP!Push, TPP!Push,
         TP!WorkerPop, TPP!WorkerPop, TP!WorkerStart, TPP!WorkerStart,
         TP!WorkerFinish, TPP!WorkerFinish, TP!WorkerExit, TPP!WorkerExit,
         TP!Work, TPP!Work, TP!ClientsDone, TPP!ClientsDone,
         TP!DtorClose, TPP!DtorClose, TP!DtorClosed, TPP!DtorClosed,
         TP!DtorDone, TPP!DtorDone, TP!Destroy, TPP!Destroy, TP!Running, TPP!Running,
         TP!Finished, TPP!Finished, TP!Next, TPP!Next, TP!vars, TPP!vars,
         TP!queue, TPP!queue, TP!pool, TPP!pool, TP!Actors, TPP!Actors
<1> QED BY <1>1, <1>2 DEF TP!vars, TPP!vars, TP!queue, TPP!queue, TP!pool, TPP!pool

LEMMA SameExecutor ==
    /\ TP!EX!Init <=> TPP!EX!Init
    /\ [TP!EX!Next]_(TP!EX!vars) <=> [TPP!EX!Next]_(TPP!EX!vars)
<1>1. TP!Stage = TPP!Stage
  BY DEF TP!Stage, TPP!Stage
<1>2. TP!EX!Init <=> TPP!EX!Init
  BY <1>1 DEF TP!EX!Init, TPP!EX!Init
<1>3. TP!EX!Next <=> TPP!EX!Next
  BY DEF TP!Stage, TPP!Stage, TP!EX!Offered, TPP!EX!Offered, TP!EX!Offer, TPP!EX!Offer,
              TP!EX!Enqueue, TPP!EX!Enqueue, TP!EX!Refuse, TPP!EX!Refuse,
              TP!EX!Start, TPP!EX!Start, TP!EX!Finish, TPP!EX!Finish,
              TP!EX!Close, TPP!EX!Close, TP!EX!End, TPP!EX!End,
              TP!EX!Next, TPP!EX!Next
<1> QED BY <1>2, <1>3 DEF TP!EX!vars, TPP!EX!vars, TP!Stage, TPP!Stage

(* The code's pool with the code's queue is the executor of Executor. *)
THEOREM QueuedPoolIsExecutor == Spec => IsExecutor
<1>1. Spec => TPP!Spec
  BY QueuedPoolIsThreadPool, SamePool, PTL DEF IsThreadPool, TP!Spec, TPP!Spec
<1>2. TPP!Spec => TPP!IsExecutor
  BY PoolAssumptions, TPP!ThreadPoolIsExecutor
<1>3. TPP!IsExecutor => TP!IsExecutor
  BY SameExecutor, PTL DEF TP!IsExecutor, TPP!IsExecutor, TP!EX!Spec, TPP!EX!Spec
<1> QED BY <1>1, <1>2, <1>3, PTL DEF IsExecutor

(* A task is on its way into the code's queue, in it, or taken, and in one   *)
(* of these places only.                                                     *)
THEOREM QueuedTaskHasOneHolder == Spec => []OneHolder
<1>1. Spec => TPP!Spec
  BY QueuedPoolIsThreadPool, SamePool, PTL DEF IsThreadPool, TP!Spec, TPP!Spec
<1>2. TPP!Spec => []TPP!OneHolder
  BY PoolAssumptions, TPP!TaskHasOneHolder
<1>3. TPP!OneHolder => OneHolder
  BY DEF OneHolder, TP!OneHolder, TPP!OneHolder, TP!Holders, TPP!Holders, TP!Running,
         TPP!Running, TP!Cardinality, TPP!Cardinality
<1> QED BY <1>1, <1>2, <1>3, PTL

(* Type correctness, of the queue and of the pool over it. *)
THEOREM TypeCorrect == Spec => []TypeOK
<1>1. Spec => TPP!Spec
  BY QueuedPoolIsThreadPool, SamePool, PTL DEF IsThreadPool, TP!Spec, TPP!Spec
<1>2. TPP!Spec => []TPP!TypeOK
  BY PoolAssumptions, TPP!TypeCorrect
<1>3. TPP!TypeOK => TP!TypeOK
  BY DEF TP!TypeOK, TPP!TypeOK, TP!Q!TypeOK, TPP!Q!TypeOK, TP!Actors, TPP!Actors,
         TP!Q!Operations, TPP!Q!Operations, TP!Q!Results, TPP!Q!Results,
         TP!Q!Phases, TPP!Q!Phases, TP!Q!Tags, TPP!Q!Tags
<1>4. CP!IInv => C!TypeOK
  BY DEF CP!IInv, CP!TypeOK, C!TypeOK, CP!Critical, C!Critical, CP!Outside, C!Outside,
         CP!Results, C!Results, CP!Tags, C!Tags
<1> QED BY <1>1, <1>2, <1>3, <1>4, Invariance, PTL DEF TypeOK

(* ~ThreadPool's assert(tasks_.empty()) holds over the code's queue too, and *)
(* when the destructor is done no accepted task's future is pending.         *)
THEOREM QueuedPoolDrains ==
    Spec => [](owner = "done" => q = <<>> /\ \A t \in Tasks : fut[t] # "pending")
<1>1. Spec => TPP!Spec
  BY QueuedPoolIsThreadPool, SamePool, PTL DEF IsThreadPool, TP!Spec, TPP!Spec
<1>2. TPP!Spec => []TPP!DestructorDrains
  BY PoolAssumptions, TPP!DestructorHasDrained
<1>3. Inv /\ TPP!DestructorDrains
          => (owner = "done" => q = <<>> /\ \A t \in Tasks : fut[t] # "pending")
  BY DEF Inv, PlaceInv, TPP!DestructorDrains
<1> QED BY <1>1, <1>2, <1>3, Invariance, PTL
=============================================================================
