---------------------------- MODULE ReactorProofs -----------------------------
(***************************************************************************)
(* Theorems about Reactor, for any descriptors, posters and mix of         *)
(* requests.                                                               *)
(*                                                                         *)
(* The handler drains the eventfd before it takes the queue, and a poster  *)
(* queues before it writes: so there is always somebody between a queued   *)
(* command and the loop.  Commands leave the pending sequence at its head  *)
(* only, because the handler swaps only when it has nothing left.          *)
(***************************************************************************)
EXTENDS Reactor, SequenceTheorems, TLAPS

(* A descriptor that is open, or that epoll knows, has been opened. *)
GenInv == \A f \in Fds : own[f] # "free" \/ armed[f] # "off" => gen[f] # 0

(* epoll_wait reports a descriptor once. *)
BatchInv == \A d, e \in batch \ {Wake} : d.fd = e.fd => d = e

IInv == TypeOK /\ GenInv /\ NoLostWakeup /\ BatchInv

-----------------------------------------------------------------------------
(* Every initial state satisfies the invariant. *)
LEMMA InitInv == Init => IInv
<1> SUFFICES ASSUME Init PROVE IInv
  OBVIOUS
<1>1. cmdQ \in Seq(Commands) /\ local \in Seq(Commands)
  BY DEF Init
<1>2. 0 \in 0 .. MaxOpens /\ 0 \in 0 .. MaxPosts
  BY ProgramAssumption
<1>3. /\ callbacks \in [Fds -> 0 .. MaxOpens] /\ gen \in [Fds -> 0 .. MaxOpens]
      /\ armed \in [Fds -> Modes \cup {"off", "disabled"}]
      /\ own \in [Fds -> {"free", "user", "lent", "doomed"}]
      /\ ppc \in [Posters -> {"idle", "stop", "wakeup"}]
  BY <1>2 DEF Init
<1>4. TypeOK
  BY <1>1, <1>2, <1>3 DEF Init, TypeOK
<1> QED BY <1>4 DEF Init, IInv, GenInv, NoLostWakeup, BatchInv

(* What is posted is a command. *)
LEMMA PostType ==
    ASSUME TypeOK, GenInv, NEW type \in Requests, NEW f \in Fds,
           NEW mode \in ModesOf(type), Allowed(type, f)
    PROVE  [type |-> type, fd |-> f, tag |-> gen[f], mode |-> mode] \in Commands
<1>1. gen[f] \in 1 .. MaxOpens
  <2>1. gen[f] \in 0 .. MaxOpens /\ gen[f] # 0
    BY DEF TypeOK, GenInv, Allowed
  <2> QED BY <2>1, ProgramAssumption
<1>2. CASE type \in {"Add", "Mod"}
  BY <1>1, <1>2 DEF ModesOf, Commands
<1>3. CASE type \in {"Del", "Unreg"}
  BY <1>1, <1>3 DEF ModesOf, Commands
<1> QED BY <1>2, <1>3, ProgramAssumption

(* The head of the handler's batch is a command. *)
LEMMA HeadType ==
    ASSUME TypeOK, local # <<>>
    PROVE  /\ Head(local) \in Commands /\ Tail(local) \in Seq(Commands)
           /\ Head(local).type # "Stop" =>
                Head(local).fd \in Fds /\ Head(local).tag \in 1 .. MaxOpens
           /\ Head(local).type \in {"Add", "Mod"} => Head(local).mode \in Modes
<1>1. Head(local) \in Commands /\ Tail(local) \in Seq(Commands)
  BY DEF TypeOK
<1> QED BY <1>1 DEF Commands

-----------------------------------------------------------------------------
(* The types: one step per action. *)
LEMMA NextType == IInv /\ [Next]_vars => TypeOK'
<1> SUFFICES ASSUME IInv, [Next]_vars PROVE TypeOK'
  OBVIOUS
<1>0. TypeOK /\ GenInv
  BY DEF IInv
<1>s. [type |-> "Stop"] \in Commands
  BY DEF Commands
<1>1. CASE UNCHANGED vars
  BY <1>0, <1>1 DEF TypeOK, vars, table
<1>2. ASSUME NEW p \in Posters, NEW type \in Requests, NEW f \in Fds,
             NEW mode \in ModesOf(type), Post(p, type, f, mode)
      PROVE  TypeOK'
  <2>1. [type |-> type, fd |-> f, tag |-> gen[f], mode |-> mode] \in Commands
    BY <1>0, <1>2, PostType DEF Post
  <2>2. cmdQ' \in Seq(Commands)
    BY <1>0, <1>2, <2>1 DEF Post, Enqueue, TypeOK
  <2>3. posts' \in 0 .. MaxPosts
    BY <1>0, <1>2, ProgramAssumption DEF Post, Count, TypeOK
  <2>4. own' \in [Fds -> {"free", "user", "lent", "doomed"}]
    BY <1>0, <1>2 DEF Post, Handover, TypeOK
  <2> QED BY <1>0, <1>2, <2>2, <2>3, <2>4 DEF Post, Enqueue, TypeOK
<1>3. ASSUME NEW p \in Posters, StopCall(p) PROVE TypeOK'
  <2>1. posts' \in 0 .. MaxPosts
    BY <1>0, <1>3, ProgramAssumption DEF StopCall, Count, TypeOK
  <2>2. stopped' \in BOOLEAN
    BY <1>0, <1>3 DEF StopCall, TypeOK
  <2> QED BY <1>0, <1>3, <2>1, <2>2 DEF StopCall, TypeOK, table
<1>4. ASSUME NEW p \in Posters, InPost(p) PROVE TypeOK'
  <2>1. CASE StopPush(p)
    BY <1>0, <1>s, <2>1 DEF StopPush, Enqueue, TypeOK, table
  <2>2. CASE Wakeup(p)
    BY <1>0, <2>2 DEF Wakeup, TypeOK, table
  <2> QED BY <1>4, <2>1, <2>2 DEF InPost
<1>5. ASSUME NEW f \in Fds, Open(f) \/ Close(f) PROVE TypeOK'
  <2>1. CASE Open(f)
    <3>1. gen' \in [Fds -> 0 .. MaxOpens]
      BY <1>0, <2>1, ProgramAssumption DEF Open, TypeOK
    <3> QED BY <1>0, <2>1, <3>1 DEF Open, TypeOK
  <2>2. CASE Close(f)
    BY <1>0, <2>2 DEF Close, TypeOK
  <2> QED BY <1>5, <2>1, <2>2
<1>6. CASE Run \/ PollNothing
  BY <1>0, <1>6 DEF Run, PollNothing, TypeOK, table
<1>7. CASE Start \/ Check \/ BatchDone \/ CallbackReturn \/ Drain
  BY <1>0, <1>7 DEF Start, Check, BatchDone, CallbackReturn, Drain, TypeOK, table
<1>8. CASE Swap \/ ExecDone
  BY <1>0, <1>8 DEF Swap, ExecDone, TypeOK, table
<1>9. CASE Exec
  <2> DEFINE c == Head(local)
  <2>1. /\ c \in Commands /\ Tail(local) \in Seq(Commands)
        /\ c.type # "Stop" => c.fd \in Fds /\ c.tag \in 1 .. MaxOpens
        /\ c.type \in {"Add", "Mod"} => c.mode \in Modes
    BY <1>0, <1>9, HeadType DEF Exec
  <2>2. /\ running' \in BOOLEAN
        /\ callbacks' \in [Fds -> 0 .. MaxOpens]
        /\ armed' \in [Fds -> Modes \cup {"off", "disabled"}]
        /\ own' \in [Fds -> {"free", "user", "lent", "doomed"}]
        /\ gen' = gen /\ given' = given
    <3> HIDE DEF c
    <3>1. CASE ExecAdd(c)
      <4>1. c.fd \in Fds /\ c.tag \in 0 .. MaxOpens /\ c.mode \in Modes
        BY <2>1, <3>1 DEF ExecAdd
      <4>2. CASE AddSucceeds(c)
        BY <1>0, <3>1, <4>1, <4>2 DEF ExecAdd, TypeOK
      <4>3. CASE ~AddSucceeds(c)
        BY <1>0, <3>1, <4>3 DEF ExecAdd, TypeOK
      <4> QED BY <4>2, <4>3
    <3>2. CASE ExecMod(c)
      BY <1>0, <2>1, <3>2 DEF ExecMod, TypeOK
    <3>3. CASE ExecDel(c)
      BY <1>0, <2>1, <3>3, ProgramAssumption DEF ExecDel, TypeOK
    <3>4. CASE ExecUnreg(c)
      BY <1>0, <2>1, <3>4, ProgramAssumption DEF ExecUnreg, TypeOK
    <3>5. CASE ExecStop(c)
      BY <1>0, <3>5 DEF ExecStop, TypeOK, table
    <3> QED BY <1>9, <3>1, <3>2, <3>3, <3>4, <3>5 DEF Exec, c
  <2> QED BY <1>0, <1>9, <2>1, <2>2 DEF Exec, TypeOK
<1>10. ASSUME NEW ready \in SUBSET Fds, Poll(ready) PROVE TypeOK'
  <2>1. \A f \in ready : [fd |-> f, gen |-> gen[f]] \in Files
    <3> TAKE f \in ready
    <3>1. gen[f] \in 0 .. MaxOpens /\ gen[f] # 0
      BY <1>0, <1>10 DEF Poll, TypeOK, GenInv, Modes
    <3> QED BY <3>1, ProgramAssumption DEF Files
  <2>2. batch' \subseteq Events
    BY <1>10, <2>1 DEF Poll, Events
  <2>3. armed' \in [Fds -> Modes \cup {"off", "disabled"}]
    BY <1>0, <1>10 DEF Poll, TypeOK
  <2> QED BY <1>0, <1>10, <2>2, <2>3 DEF Poll, TypeOK
<1>11. ASSUME NEW e \in batch, Dispatch(e) PROVE TypeOK'
  BY <1>0, <1>11 DEF Dispatch, TypeOK, table
<1>12. CASE Destroy
  BY <1>0, <1>12 DEF Destroy, TypeOK, table
<1>13. CASE CloseAll
  BY <1>0, <1>13, ProgramAssumption DEF CloseAll, TypeOK
<1> QED BY <1>1, <1>2, <1>3, <1>4, <1>5, <1>6, <1>7, <1>8, <1>9, <1>10, <1>11,
           <1>12, <1>13 DEF Next, LoopStep, Finished

-----------------------------------------------------------------------------
(* What is known to epoll or owned by somebody has been opened. *)
LEMMA NextGen == IInv /\ [Next]_vars => GenInv'
<1> SUFFICES ASSUME IInv, [Next]_vars PROVE GenInv'
  OBVIOUS
<1>0. TypeOK /\ GenInv
  BY DEF IInv
<1>1. CASE UNCHANGED <<own, armed, gen>>
  BY <1>0, <1>1 DEF GenInv
<1>2. ASSUME NEW p \in Posters, NEW type \in Requests, NEW f \in Fds,
             NEW mode \in ModesOf(type), Post(p, type, f, mode)
      PROVE  GenInv'
  BY <1>0, <1>2 DEF Post, Allowed, GenInv, TypeOK
<1>3. ASSUME NEW f \in Fds, Open(f) PROVE GenInv'
  <2>1. gen[f] + 1 # 0
    BY <1>0, ProgramAssumption DEF TypeOK
  <2> QED BY <1>0, <1>3, <2>1 DEF Open, GenInv, TypeOK
<1>4. ASSUME NEW f \in Fds, Close(f) PROVE GenInv'
  BY <1>0, <1>4 DEF Close, GenInv, TypeOK
<1>5. CASE Exec
  <2> DEFINE c == Head(local)
  <2> HIDE DEF c
  <2>1. CASE ExecAdd(c)
    BY <1>0, <2>1 DEF ExecAdd, AddSucceeds, GenInv, TypeOK
  <2>2. CASE ExecMod(c)
    BY <1>0, <2>2 DEF ExecMod, GenInv, TypeOK
  <2>3. CASE ExecDel(c)
    BY <1>0, <2>3 DEF ExecDel, GenInv, TypeOK
  <2>4. CASE ExecUnreg(c)
    BY <1>0, <2>4 DEF ExecUnreg, GenInv, TypeOK
  <2>5. CASE ExecStop(c)
    BY <1>0, <2>5 DEF ExecStop, GenInv, table
  <2> QED BY <1>5, <2>1, <2>2, <2>3, <2>4, <2>5 DEF Exec, c
<1>6. ASSUME NEW ready \in SUBSET Fds, Poll(ready) PROVE GenInv'
  BY <1>0, <1>6 DEF Poll, GenInv, TypeOK, Modes
<1>7. CASE CloseAll
  BY <1>0, <1>7 DEF CloseAll, GenInv, TypeOK
<1>8. CASE \/ \E p \in Posters : StopCall(p) \/ InPost(p)
           \/ Run \/ PollNothing \/ Destroy \/ Finished \/ UNCHANGED vars
           \/ Start \/ Check \/ BatchDone \/ CallbackReturn \/ Drain \/ Swap \/ ExecDone
           \/ \E e \in batch : Dispatch(e)
  <2>1. UNCHANGED <<own, armed, gen>>
    BY <1>8 DEF StopCall, InPost, StopPush, Wakeup, Run, PollNothing, Destroy, Finished,
                Start, Check, BatchDone, CallbackReturn, Drain, Swap, ExecDone,
                Dispatch, table, vars
  <2> QED BY <1>1, <2>1
<1> QED BY <1>2, <1>3, <1>4, <1>5, <1>6, <1>7, <1>8 DEF Next, LoopStep

(* Between a queued command and the loop there is always somebody. *)
LEMMA NextWakeup == IInv /\ [Next]_vars => NoLostWakeup'
<1> SUFFICES ASSUME IInv, [Next]_vars PROVE NoLostWakeup'
  OBVIOUS
<1>0. TypeOK /\ NoLostWakeup
  BY DEF IInv
<1>1. ASSUME NEW p \in Posters, NEW c, Enqueue(p, c) PROVE NoLostWakeup'
  BY <1>0, <1>1 DEF Enqueue, NoLostWakeup, TypeOK
<1>2. ASSUME NEW p \in Posters, NEW type \in Requests, NEW f \in Fds,
             NEW mode \in ModesOf(type), Post(p, type, f, mode)
      PROVE  NoLostWakeup'
  BY <1>1, <1>2 DEF Post
<1>3. ASSUME NEW p \in Posters, StopCall(p) PROVE NoLostWakeup'
  BY <1>0, <1>3 DEF StopCall, MayCall, NoLostWakeup, TypeOK
<1>4. ASSUME NEW p \in Posters, InPost(p) PROVE NoLostWakeup'
  BY <1>1, <1>4 DEF InPost, StopPush, Wakeup, NoLostWakeup
<1>5. CASE Drain \/ Swap
  BY <1>0, <1>5 DEF Drain, Swap, NoLostWakeup
<1>6. CASE Destroy
  BY <1>0, <1>6, PostersAssumption DEF Destroy, NoLostWakeup, TypeOK, Posters
<1>7. CASE \/ \E f \in Fds : Open(f) \/ Close(f)
           \/ Run \/ PollNothing \/ CloseAll \/ Finished \/ UNCHANGED vars
           \/ Start \/ Check \/ BatchDone \/ CallbackReturn \/ Exec \/ ExecDone
           \/ \E ready \in SUBSET Fds : Poll(ready)
           \/ \E e \in batch : Dispatch(e)
  <2>1. /\ UNCHANGED <<cmdQ, ppc, wake>>
        /\ rpc # "swap" \/ UNCHANGED rpc
    BY <1>7 DEF Open, Close, Run, PollNothing, CloseAll, Finished, Start, Check,
                BatchDone, CallbackReturn, Exec, ExecDone, Poll, Dispatch, vars
  <2> QED BY <1>0, <2>1 DEF NoLostWakeup
<1> QED BY <1>2, <1>3, <1>4, <1>5, <1>6, <1>7 DEF Next, LoopStep

(* A batch is filled by one epoll_wait and only shrinks. *)
LEMMA NextBatch == IInv /\ [Next]_vars => BatchInv'
<1> SUFFICES ASSUME IInv, [Next]_vars PROVE BatchInv'
  OBVIOUS
<1>0. BatchInv
  BY DEF IInv
<1>1. ASSUME NEW ready \in SUBSET Fds, Poll(ready) PROVE BatchInv'
  BY <1>1 DEF Poll, BatchInv
<1>2. ASSUME NEW e \in batch, Dispatch(e) PROVE BatchInv'
  BY <1>0, <1>2 DEF Dispatch, BatchInv
<1>3. CASE UNCHANGED batch
  BY <1>0, <1>3 DEF BatchInv
<1> QED BY <1>1, <1>2, <1>3
        DEF Next, LoopStep, InPost, Post, StopCall, StopPush, Wakeup, Open, Close, Run,
            PollNothing, Start, Check, BatchDone, CallbackReturn, Drain, Swap, Exec,
            ExecDone, Destroy, CloseAll, Finished, vars

(* The invariant holds in every reachable state. *)
LEMMA Invariance == Spec => []IInv
<1>1. IInv /\ [Next]_vars => IInv'
  BY NextType, NextGen, NextWakeup, NextBatch DEF IInv
<1> QED BY <1>1, InitInv, PTL DEF Spec

(* Type correctness: commands, events and the reactor's tables. *)
THEOREM TypeCorrect == Spec => []TypeOK
  BY Invariance, PTL DEF IInv

(* post_command and handle_wakeup: no queued command is left without       *)
(* somebody to take it or to wake the loop.                                *)
THEOREM WakeupIsNeverLost == Spec => []NoLostWakeup
  BY Invariance, PTL DEF IInv

-----------------------------------------------------------------------------
(* How the pending commands change with the two sequences they are in. *)
LEMMA PendingAppend ==
    ASSUME NEW c \in Commands, local \in Seq(Commands), cmdQ \in Seq(Commands),
           cmdQ' = Append(cmdQ, c), local' = local
    PROVE  Pending' = Append(Pending, c)
  BY AppendProperties, ConcatProperties DEF Pending

LEMMA PendingTail ==
    ASSUME local \in Seq(Commands), cmdQ \in Seq(Commands), local # <<>>,
           cmdQ' = cmdQ, local' = Tail(local)
    PROVE  Pending # <<>> /\ Pending' = Tail(Pending)
  BY DEF Pending

-----------------------------------------------------------------------------
(* The state of EventLoop that a state of the reactor stands for. *)
OpenFds == {f \in Fds : own[f] # "free"}
EventFds == {e.fd : e \in batch \ {Wake}}
Abstract == <<Pending, callbacks, armed, OpenFds, EventFds, rpc = "callback">>

(* What leaves that alone is a stutter of EventLoop. *)
LEMMA Stutter == UNCHANGED Abstract => UNCHANGED EL!loop
  BY DEF Abstract, OpenFds, EventFds, EL!loop

(* A step of the reactor's thread or of a poster that touches none of the  *)
(* tables, and neither begins nor ends a callback.                         *)
LEMMA QuietStep ==
    ASSUME UNCHANGED <<table, batch, cmdQ, local>>, (rpc = "callback") <=> (rpc' = "callback")
    PROVE  UNCHANGED Abstract
<1>1. Pending' = Pending /\ OpenFds' = OpenFds /\ EventFds' = EventFds
  BY DEF Pending, OpenFds, EventFds, table
<1> QED BY <1>1 DEF Abstract, table

LEMMA InitRefines == Init => EL!LoopInit
<1> SUFFICES ASSUME Init PROVE EL!LoopInit
  OBVIOUS
<1>1. Pending = <<>>
  BY DEF Init, Pending
<1>2. {f \in Fds : own[f] # "free"} = {} /\ {e.fd : e \in batch \ {Wake}} = {}
  BY DEF Init
<1> QED BY <1>1, <1>2 DEF Init, EL!LoopInit

(* A post enters the pending commands; what is open stays open. *)
LEMMA PostRefines ==
    ASSUME IInv, NEW p \in Posters, NEW type \in Requests, NEW f \in Fds,
           NEW mode \in ModesOf(type), Post(p, type, f, mode)
    PROVE  EL!LoopNext
<1> DEFINE c == [type |-> type, fd |-> f, tag |-> gen[f], mode |-> mode]
<1>1. c \in Commands
  BY PostType DEF IInv, Post
<1>2. Pending' = Append(Pending, c)
  BY <1>1, PendingAppend DEF Post, Enqueue, IInv, TypeOK
<1>3. OpenFds' = OpenFds
  BY DEF Post, Allowed, Handover, OpenFds, IInv, TypeOK
<1>4. EventFds' = EventFds /\ UNCHANGED <<callbacks, armed, rpc>>
  BY DEF Post, EventFds
<1>5. EL!Post(c)
  BY <1>2, <1>3, <1>4 DEF EL!Post, OpenFds, EventFds
<1> QED BY <1>1, <1>5 DEF EL!LoopNext

LEMMA StopRefines ==
    ASSUME IInv, NEW p \in Posters, StopPush(p)
    PROVE  EL!LoopNext
<1> DEFINE c == [type |-> "Stop"]
<1>1. c \in Commands
  BY DEF Commands
<1>2. Pending' = Append(Pending, c)
  BY <1>1, PendingAppend DEF StopPush, Enqueue, IInv, TypeOK
<1>3. OpenFds' = OpenFds /\ EventFds' = EventFds /\ UNCHANGED <<callbacks, armed, rpc>>
  BY DEF StopPush, OpenFds, EventFds, table
<1>4. EL!Post(c)
  BY <1>2, <1>3 DEF EL!Post, OpenFds, EventFds
<1> QED BY <1>1, <1>4 DEF EL!LoopNext

(* One command of the handler's loop is one execution. *)
LEMMA ExecRefines ==
    ASSUME IInv, Exec
    PROVE  EL!LoopNext
<1>0. PICK c : c = Head(local)
  OBVIOUS
<1>1. Pending # <<>> /\ Pending' = Tail(Pending)
  BY PendingTail DEF Exec, IInv, TypeOK
<1>2. Head(Pending) = c
  BY <1>0 DEF Exec, IInv, TypeOK, Pending
<1>3. EventFds' = EventFds /\ rpc = "exec" /\ rpc' = "exec"
  BY DEF Exec, EventFds
<1>4. c \in Commands /\ (c.type # "Stop" => c.fd \in Fds)
  BY <1>0, HeadType DEF Exec, IInv
<1>5. own \in [Fds -> {"free", "user", "lent", "doomed"}]
  BY DEF IInv, TypeOK
<1>6. EL!DoAdd(c) \/ EL!DoMod(c) \/ EL!DoRemove(c) \/ EL!DoStop(c)
  <2>0. ExecAdd(c) \/ ExecMod(c) \/ ExecDel(c) \/ ExecUnreg(c) \/ ExecStop(c)
    BY <1>0 DEF Exec, ExecAdd, ExecMod, ExecDel, ExecUnreg, ExecStop
  <2>1. CASE ExecAdd(c)
    <3>1. EL!Accepted(c) <=> AddSucceeds(c)
      BY <1>4, <2>1 DEF ExecAdd, EL!Accepted, AddSucceeds
    <3>2. EL!DoAdd(c)
      BY <2>1, <3>1 DEF ExecAdd, EL!DoAdd
    <3> QED BY <3>2
  <2>2. CASE ExecMod(c)
    BY <2>2 DEF ExecMod, EL!DoMod
  <2>3. CASE ExecDel(c)
    <3>1. OpenFds' = OpenFds \ {c.fd}
      BY <1>4, <1>5, <2>3 DEF ExecDel, OpenFds
    <3>2. EL!DoRemove(c)
      BY <2>3, <3>1 DEF ExecDel, EL!DoRemove, OpenFds
    <3> QED BY <3>2
  <2>4. CASE ExecUnreg(c)
    BY <2>4 DEF ExecUnreg, EL!DoRemove
  <2>5. CASE ExecStop(c)
    BY <2>5 DEF ExecStop, EL!DoStop, table
  <2> QED BY <2>0, <2>1, <2>2, <2>3, <2>4, <2>5
<1>7. LET d == Head(Pending) IN EL!DoAdd(d) \/ EL!DoMod(d) \/ EL!DoRemove(d) \/ EL!DoStop(d)
  BY <1>2, <1>6 DEF EL!DoAdd, EL!DoMod, EL!DoRemove, EL!DoStop
<1>8. ~(rpc = "callback") /\ ((rpc = "callback")' <=> (rpc = "callback"))
  BY <1>3
<1>9. EL!Execute
  BY <1>1, <1>3, <1>7, <1>8, ZenonT(30) DEF EL!Execute, EventFds
<1> QED BY <1>9 DEF EL!LoopNext

LEMMA PollRefines ==
    ASSUME IInv, NEW ready \in SUBSET Fds, Poll(ready)
    PROVE  EL!LoopNext
<1>1. EventFds = {}
  BY DEF IInv, TypeOK, Poll, EventFds
<1>2. EventFds' = ready
  <2>1. \A f \in ready : [fd |-> f, gen |-> gen[f]] # Wake
    BY PostersAssumption DEF Poll, IInv, TypeOK
  <2>2. batch' \ {Wake} = {[fd |-> f, gen |-> gen[f]] : f \in ready}
    BY <2>1 DEF Poll
  <2>3. {e.fd : e \in {[fd |-> f, gen |-> gen[f]] : f \in ready}} = ready
    <3> DEFINE E == {[fd |-> f, gen |-> gen[f]] : f \in ready}
    <3>1. \A e \in E : e.fd \in ready
      OBVIOUS
    <3>2. \A f \in ready : [fd |-> f, gen |-> gen[f]] \in E /\ [fd |-> f, gen |-> gen[f]].fd = f
      OBVIOUS
    <3> QED BY <3>1, <3>2, Zenon
  <2> QED BY <2>2, <2>3 DEF EventFds
<1>3. OpenFds' = OpenFds /\ Pending' = Pending
  BY DEF Poll, OpenFds, Pending
<1>4. EL!Collect(ready)
  BY <1>1, <1>2, <1>3 DEF Poll, EL!Collect, EL!Modes, Modes, OpenFds, EventFds
<1> QED BY <1>4 DEF EL!LoopNext

(* The event of a descriptor is dispatched; the eventfd's is not one. *)
LEMMA DispatchRefines ==
    ASSUME IInv, NEW e \in batch, Dispatch(e)
    PROVE  [EL!LoopNext]_(EL!loop)
<1>1. OpenFds' = OpenFds /\ Pending' = Pending /\ UNCHANGED <<callbacks, armed>>
  BY DEF Dispatch, OpenFds, Pending, table
<1>2. CASE e = Wake
  <2>1. EventFds' = EventFds /\ rpc = "dispatch" /\ rpc' = "drain"
    BY <1>2 DEF Dispatch, EventFds
  <2> QED BY <1>1, <2>1 DEF EL!loop, OpenFds, EventFds
<1>3. CASE e # Wake
  <2>1. e.fd \in Fds /\ e.fd \in EventFds
    BY <1>3 DEF IInv, TypeOK, Events, Files, EventFds
  <2>2. EventFds' = EventFds \ {e.fd}
    BY <1>3 DEF Dispatch, EventFds, IInv, BatchInv
  <2>3. EL!Dispatch(e.fd)
    BY <1>1, <1>3, <2>1, <2>2 DEF Dispatch, EL!Dispatch, OpenFds, EventFds
  <2> QED BY <2>1, <2>3 DEF EL!LoopNext
<1> QED BY <1>2, <1>3

LEMMA OpenCloseRefines ==
    ASSUME IInv, NEW f \in Fds, Open(f) \/ Close(f)
    PROVE  EL!LoopNext
<1>0. own \in [Fds -> {"free", "user", "lent", "doomed"}]
  BY DEF IInv, TypeOK
<1>1. EventFds' = EventFds /\ Pending' = Pending /\ UNCHANGED <<callbacks, rpc>>
  BY DEF Open, Close, EventFds, Pending
<1>2. CASE Open(f)
  <2>1. f \notin OpenFds /\ OpenFds' = OpenFds \cup {f}
    BY <1>0, <1>2 DEF Open, OpenFds
  <2>2. EL!OpenFd(f)
    BY <1>1, <1>2, <2>1 DEF Open, EL!OpenFd, OpenFds, EventFds
  <2> QED BY <2>2 DEF EL!LoopNext
<1>3. CASE Close(f)
  <2>1. f \in OpenFds /\ OpenFds' = OpenFds \ {f}
    BY <1>0, <1>3 DEF Close, OpenFds
  <2>2. EL!CloseFd(f)
    BY <1>1, <1>3, <2>1 DEF Close, EL!CloseFd, OpenFds, EventFds
  <2> QED BY <2>2 DEF EL!LoopNext
<1> QED BY <1>2, <1>3

(* The destructor, after the join. *)
LEMMA CloseAllRefines ==
    ASSUME IInv, CloseAll
    PROVE  EL!LoopNext
<1>1. EventFds = {} /\ EventFds' = {} /\ Pending' = Pending
  BY DEF IInv, TypeOK, CloseAll, EventFds, Pending
<1>2. OpenFds' = {f \in OpenFds : callbacks[f] = 0}
  BY DEF CloseAll, OpenFds
<1>3. EL!CloseAll
  BY <1>1, <1>2 DEF CloseAll, EL!CloseAll, OpenFds, EventFds
<1> QED BY <1>3 DEF EL!LoopNext

LEMMA ReturnRefines ==
    ASSUME CallbackReturn
    PROVE  EL!LoopNext
<1>1. /\ EventFds' = EventFds /\ Pending' = Pending /\ OpenFds' = OpenFds
      /\ UNCHANGED <<callbacks, armed>>
  BY DEF CallbackReturn, EventFds, Pending, OpenFds, table
<1>2. EL!CallbackReturn
  BY <1>1 DEF CallbackReturn, EL!CallbackReturn, OpenFds, EventFds
<1> QED BY <1>2 DEF EL!LoopNext

(* Swapping the queue in leaves the pending commands as they are. *)
LEMMA SwapRefines ==
    ASSUME IInv, Swap
    PROVE  UNCHANGED Abstract
<1>1. local = <<>>
  BY DEF IInv, TypeOK, Swap
<1>2. Pending' = Pending
  BY <1>1, ConcatEmptySeq DEF Swap, Pending, IInv, TypeOK
<1> QED BY <1>2 DEF Swap, Abstract, OpenFds, EventFds, table

LEMMA StepRefines == IInv /\ [Next]_vars => [EL!LoopNext]_(EL!loop)
<1> SUFFICES ASSUME IInv, [Next]_vars PROVE [EL!LoopNext]_(EL!loop)
  OBVIOUS
<1>1. CASE \/ \E p \in Posters : StopCall(p) \/ Wakeup(p)
           \/ Run \/ PollNothing \/ Destroy \/ Finished \/ UNCHANGED vars
           \/ Start \/ Check \/ BatchDone \/ Drain \/ ExecDone
  <2>1. UNCHANGED <<table, batch, cmdQ, local>> /\ ((rpc = "callback") <=> (rpc' = "callback"))
    BY <1>1 DEF StopCall, Wakeup, Run, PollNothing, Destroy, Finished, Start, Check,
                BatchDone, Drain, ExecDone, vars, table
  <2> QED BY <2>1, QuietStep, Stutter
<1>2. CASE Swap
  BY <1>2, SwapRefines, Stutter
<1> QED BY <1>1, <1>2, PostRefines, StopRefines, ExecRefines, PollRefines,
           DispatchRefines, OpenCloseRefines, CloseAllRefines, ReturnRefines
        DEF Next, LoopStep, InPost

(* The reactor is the event loop that its users are promised. *)
THEOREM ReactorIsEventLoop == Spec => IsEventLoop
<1>1. IInv /\ [Next]_vars => [EL!LoopNext]_(EL!loop)
  BY StepRefines
<1> QED BY <1>1, InitRefines, Invariance, PTL DEF Spec, IsEventLoop, EL!LoopSpec

-----------------------------------------------------------------------------
(* Custody: who closes a descriptor, that every add that is executed finds *)
(* room, and that no event is taken for one of a later file with the same  *)
(* number.                                                                 *)
(*                                                                         *)
(* The contract makes the registrations and removals of a descriptor       *)
(* alternate in the order of their posts, which is the order of their      *)
(* execution.  Agree relates one descriptor's pending commands to its      *)
(* entries in the tables: the first says what the tables hold now, the     *)
(* last what the contract holds.                                           *)

Registering == {"Add", "Del", "Unreg"}

(* The places of the commands that add or remove f. *)
Mine(P, f) == {i \in DOMAIN P : P[i].type \in Registering /\ P[i].fd = f}
IsFirst(P, f, i) == i \in Mine(P, f) /\ \A j \in Mine(P, f) : i <= j
IsLast(P, f, i) == i \in Mine(P, f) /\ \A j \in Mine(P, f) : j <= i

(* Additions and removals take turns; a deletion is the last of its file,  *)
(* whose number stays taken until it is executed.                          *)
Alternate(P, f) ==
    /\ \A i, j \in Mine(P, f) :
          i < j /\ (\A k \in Mine(P, f) : k <= i \/ j <= k) =>
              (P[i].type = "Add" <=> P[j].type # "Add")
    /\ \A i \in Mine(P, f) : P[i].type = "Del" => IsLast(P, f, i)

LastIs(P, f, type) == \E i \in DOMAIN P : IsLast(P, f, i) /\ P[i].type = type

Agree(P, f, callback, interest, holder, file) ==
    /\ Alternate(P, f)
    /\ \A i \in DOMAIN P : IsFirst(P, f, i) /\ P[i].type = "Add" =>
                             callback = 0 /\ interest = "off"
    /\ holder = "lent" =>
          \/ Mine(P, f) = {} /\ callback = file
          \/ \E i \in DOMAIN P : IsLast(P, f, i) /\ P[i].type = "Add" /\ P[i].tag = file
    /\ holder = "doomed" => LastIs(P, f, "Del")
    /\ holder \in {"user", "free"} =>
          \/ Mine(P, f) = {} /\ callback = 0 /\ interest = "off"
          \/ LastIs(P, f, "Unreg")

CustodyInv ==
    /\ mpc = "destroyed" => rpc \in {"none", "exited"}
    /\ mpc # "destroyed" =>
          \A f \in Fds : Agree(Pending, f, callbacks[f], armed[f], own[f], gen[f])

-----------------------------------------------------------------------------
(* What an appended and what a removed command does to the places. *)
LEMMA MineAppend ==
    ASSUME NEW P \in Seq(Commands), NEW c \in Commands, NEW f
    PROVE  /\ Append(P, c) \in Seq(Commands)
           /\ \A i \in DOMAIN P : i \in DOMAIN Append(P, c) /\ Append(P, c)[i] = P[i]
                                 /\ i \in Nat /\ i <= Len(P)
           /\ Append(P, c)[Len(P) + 1] = c /\ Len(P) \in Nat
           /\ Len(P) + 1 \in DOMAIN Append(P, c) /\ Len(P) + 1 \notin DOMAIN P
           /\ DOMAIN Append(P, c) = DOMAIN P \cup {Len(P) + 1}
           /\ Mine(Append(P, c), f) =
                  IF c.type \in Registering /\ c.fd = f THEN Mine(P, f) \cup {Len(P) + 1}
                                                        ELSE Mine(P, f)
<1>1. /\ Append(P, c) \in Seq(Commands) /\ DOMAIN P = 1 .. Len(P) /\ Len(P) \in Nat
      /\ DOMAIN Append(P, c) = DOMAIN P \cup {Len(P) + 1}
      /\ Append(P, c)[Len(P) + 1] = c
      /\ \A i \in DOMAIN P : Append(P, c)[i] = P[i]
  OBVIOUS
<1>2. \A i \in DOMAIN P : i \in Nat /\ i <= Len(P)
  BY <1>1
<1>3. Len(P) + 1 \notin DOMAIN P
  BY <1>1
<1> QED BY <1>1, <1>2, <1>3 DEF Mine

LEMMA MineTail ==
    ASSUME NEW P \in Seq(Commands), P # <<>>, NEW f
    PROVE  /\ Tail(P) \in Seq(Commands) /\ 1 \in DOMAIN P /\ Head(P) = P[1]
           /\ \A i \in DOMAIN Tail(P) : i \in Nat /\ i >= 1 /\ i + 1 \in DOMAIN P
                                       /\ Tail(P)[i] = P[i + 1]
           /\ \A i \in DOMAIN P : i \in Nat /\ i >= 1
           /\ \A i \in DOMAIN P : i # 1 => i - 1 \in DOMAIN Tail(P) /\ Tail(P)[i - 1] = P[i]
           /\ \A i \in Mine(Tail(P), f) : i + 1 \in Mine(P, f)
           /\ \A i \in Mine(P, f) : i # 1 => i - 1 \in Mine(Tail(P), f)
<1>1. /\ Tail(P) \in Seq(Commands) /\ 1 \in DOMAIN P /\ Head(P) = P[1]
      /\ \A i \in DOMAIN Tail(P) : i \in Nat /\ i >= 1 /\ i + 1 \in DOMAIN P
                                  /\ Tail(P)[i] = P[i + 1]
      /\ \A i \in DOMAIN P : i \in Nat /\ i >= 1
      /\ \A i \in DOMAIN P : i # 1 => i - 1 \in DOMAIN Tail(P) /\ Tail(P)[i - 1] = P[i]
  OBVIOUS
<1> QED BY <1>1 DEF Mine

-----------------------------------------------------------------------------
(* A command that adds or removes something else, or nothing. *)
LEMMA AppendOther ==
    ASSUME NEW P \in Seq(Commands), NEW c \in Commands, NEW f,
           ~(c.type \in Registering /\ c.fd = f),
           NEW cb, NEW in, NEW ho, NEW fi, Agree(P, f, cb, in, ho, fi)
    PROVE  Agree(Append(P, c), f, cb, in, ho, fi)
<1> DEFINE R == Append(P, c)
<1>1. /\ Mine(R, f) = Mine(P, f) /\ Mine(P, f) \subseteq DOMAIN P
      /\ DOMAIN P \subseteq DOMAIN R /\ \A i \in DOMAIN P : R[i] = P[i]
  BY MineAppend DEF Mine
<1> HIDE DEF R
<1>2. \A i : (IsFirst(R, f, i) <=> IsFirst(P, f, i)) /\ (IsLast(R, f, i) <=> IsLast(P, f, i))
  BY <1>1 DEF IsFirst, IsLast
<1>3. \A i : IsFirst(P, f, i) \/ IsLast(P, f, i) => i \in DOMAIN P
  BY <1>1 DEF IsFirst, IsLast
<1>4. Alternate(R, f)
  BY <1>1, <1>2 DEF Agree, Alternate
<1>5. \A type : LastIs(P, f, type) => LastIs(R, f, type)
  BY <1>1, <1>2 DEF LastIs
<1>6. \A i \in DOMAIN R : IsFirst(R, f, i) /\ R[i].type = "Add" => cb = 0 /\ in = "off"
  BY <1>1, <1>2, <1>3 DEF Agree
<1> QED BY <1>1, <1>2, <1>4, <1>5, <1>6 DEF Agree, R

(* What the places become when the head is taken. *)
LEMMA TailShift ==
    ASSUME NEW P \in Seq(Commands), P # <<>>, NEW f, Alternate(P, f)
    PROVE  /\ Alternate(Tail(P), f)
           /\ \A i : IsLast(P, f, i) /\ i # 1 =>
                  /\ i - 1 \in DOMAIN Tail(P) /\ Tail(P)[i - 1] = P[i]
                  /\ IsLast(Tail(P), f, i - 1)
           /\ IsLast(P, f, 1) => Mine(Tail(P), f) = {}
           /\ \A i \in DOMAIN Tail(P) : IsFirst(Tail(P), f, i) =>
                  /\ i + 1 \in Mine(P, f) /\ i + 1 > 1 /\ Tail(P)[i] = P[i + 1]
                  /\ \A k \in Mine(P, f) : k <= 1 \/ i + 1 <= k
<1> DEFINE R == Tail(P)
<1>1. /\ \A i \in Mine(R, f) : i + 1 \in Mine(P, f) /\ i \in DOMAIN R /\ i \in Nat
                               /\ R[i] = P[i + 1] /\ i >= 1
      /\ \A i \in Mine(P, f) : i \in Nat
      /\ \A i \in Mine(P, f) : i # 1 => i - 1 \in Mine(R, f) /\ i - 1 \in DOMAIN R
                                         /\ R[i - 1] = P[i]
  <2>1. Mine(P, f) \subseteq DOMAIN P /\ Mine(R, f) \subseteq DOMAIN R
    BY DEF Mine
  <2> QED BY <2>1, MineTail
<1> HIDE DEF R
<1>2. ASSUME NEW i, IsLast(P, f, i), i # 1
      PROVE  i - 1 \in DOMAIN R /\ R[i - 1] = P[i] /\ IsLast(R, f, i - 1)
  <2>1. i \in Nat /\ i - 1 \in Mine(R, f) /\ i - 1 \in DOMAIN R /\ R[i - 1] = P[i]
    BY <1>1, <1>2 DEF IsLast
  <2>2. ASSUME NEW j \in Mine(R, f) PROVE j <= i - 1
    <3>1. j + 1 <= i /\ j \in Nat
      BY <1>1, <1>2 DEF IsLast
    <3> QED BY <2>1, <3>1
  <2> QED BY <2>1, <2>2 DEF IsLast
<1>3. Alternate(R, f)
  <2>1. ASSUME NEW i \in Mine(R, f), NEW j \in Mine(R, f), i < j,
               \A k \in Mine(R, f) : k <= i \/ j <= k
        PROVE  R[i].type = "Add" <=> R[j].type # "Add"
    <3>1. /\ i \in Nat /\ j \in Nat /\ i + 1 \in Mine(P, f) /\ j + 1 \in Mine(P, f)
          /\ R[i] = P[i + 1] /\ R[j] = P[j + 1]
      BY <1>1
    <3>2. \A k \in Mine(P, f) : k <= i + 1 \/ j + 1 <= k
      <4> TAKE k \in Mine(P, f)
      <4>1. CASE k = 1
        BY <3>1, <4>1
      <4>2. CASE k # 1
        <5>1. k \in Nat /\ (k - 1 <= i \/ j <= k - 1)
          BY <1>1, <2>1, <4>2
        <5> QED BY <3>1, <5>1
      <4> QED BY <4>1, <4>2
    <3>3. i + 1 < j + 1
      BY <2>1, <3>1
    <3>4. P[i + 1].type = "Add" <=> P[j + 1].type # "Add"
      BY <3>1, <3>2, <3>3 DEF Alternate
    <3> QED BY <3>1, <3>4
  <2>2. ASSUME NEW i \in Mine(R, f), R[i].type = "Del" PROVE IsLast(R, f, i)
    <3>1. i \in Nat /\ i >= 1 /\ IsLast(P, f, i + 1)
      BY <1>1, <2>2 DEF Alternate
    <3>2. i + 1 # 1 /\ (i + 1) - 1 = i
      BY <3>1
    <3> QED BY <1>2, <3>1, <3>2
  <2> QED BY <2>1, <2>2 DEF Alternate
<1>4. IsLast(P, f, 1) => Mine(R, f) = {}
  <2> SUFFICES ASSUME IsLast(P, f, 1), NEW j \in Mine(R, f) PROVE FALSE
    OBVIOUS
  <2>1. j + 1 <= 1 /\ j \in Nat /\ j >= 1
    BY <1>1 DEF IsLast
  <2> QED BY <2>1
<1>5. ASSUME NEW i \in DOMAIN R, IsFirst(R, f, i)
      PROVE  /\ i + 1 \in Mine(P, f) /\ i + 1 > 1 /\ R[i] = P[i + 1]
             /\ \A k \in Mine(P, f) : k <= 1 \/ i + 1 <= k
  <2>1. i \in Nat /\ i >= 1 /\ i + 1 \in Mine(P, f) /\ R[i] = P[i + 1]
    BY <1>1, <1>5 DEF IsFirst
  <2>2. ASSUME NEW k \in Mine(P, f), k # 1 PROVE i + 1 <= k
    <3>1. k \in Nat /\ i <= k - 1
      BY <1>1, <1>5, <2>2 DEF IsFirst
    <3> QED BY <2>1, <3>1
  <2> QED BY <2>1, <2>2
<1> QED BY <1>2, <1>3, <1>4, <1>5 DEF R

LEMMA TailOther ==
    ASSUME NEW P \in Seq(Commands), P # <<>>, NEW f,
           ~(P[1].type \in Registering /\ P[1].fd = f),
           NEW cb, NEW in, NEW in2, in = "off" => in2 = "off",
           NEW ho, NEW fi, Agree(P, f, cb, in, ho, fi)
    PROVE  Agree(Tail(P), f, cb, in2, ho, fi)
<1> DEFINE R == Tail(P)
<1>1. Alternate(P, f) /\ 1 \notin Mine(P, f)
  BY DEF Agree, Mine
<1>2. /\ Alternate(R, f)
      /\ \A i : IsLast(P, f, i) => i - 1 \in DOMAIN R /\ R[i - 1] = P[i] /\ IsLast(R, f, i - 1)
      /\ \A i \in DOMAIN R : IsFirst(R, f, i) =>
             i + 1 \in DOMAIN P /\ R[i] = P[i + 1] /\ IsFirst(P, f, i + 1)
      /\ Mine(P, f) = {} => Mine(R, f) = {}
  <2>1. \A i : IsLast(P, f, i) => i # 1
    BY <1>1 DEF IsLast
  <2>2. ASSUME NEW i \in DOMAIN R, IsFirst(R, f, i)
        PROVE  i + 1 \in DOMAIN P /\ R[i] = P[i + 1] /\ IsFirst(P, f, i + 1)
    <3>1. /\ i + 1 \in Mine(P, f) /\ R[i] = P[i + 1]
          /\ \A k \in Mine(P, f) : k <= 1 \/ i + 1 <= k
      BY <1>1, <2>2, TailShift
    <3>2. \A k \in Mine(P, f) : k # 1 /\ k >= 1 /\ k \in Nat
      BY <1>1, MineTail DEF Mine
    <3>3. \A k \in Mine(P, f) : i + 1 <= k
      BY <3>1, <3>2
    <3> QED BY <3>1, <3>3 DEF IsFirst, Mine
  <2> QED BY <1>1, <2>1, <2>2, TailShift, MineTail
<1> HIDE DEF R
<1>3. \A type : LastIs(P, f, type) => LastIs(R, f, type)
  BY <1>2 DEF LastIs
<1>4. \A i \in DOMAIN R : IsFirst(R, f, i) /\ R[i].type = "Add" => cb = 0 /\ in2 = "off"
  BY <1>2 DEF Agree
<1>5. (\E i \in DOMAIN P : IsLast(P, f, i) /\ P[i].type = "Add" /\ P[i].tag = fi)
      => \E i \in DOMAIN R : IsLast(R, f, i) /\ R[i].type = "Add" /\ R[i].tag = fi
  BY <1>2
<1> QED BY <1>2, <1>3, <1>4, <1>5 DEF Agree, R

(* An add of a descriptor that is the program's. *)
LEMMA AppendAdd ==
    ASSUME NEW P \in Seq(Commands), NEW c \in Commands, NEW f, c.type = "Add", c.fd = f,
           NEW cb, NEW in, NEW fi, Agree(P, f, cb, in, "user", fi), c.tag = fi
    PROVE  Agree(Append(P, c), f, cb, in, "lent", fi)
<1> DEFINE R == Append(P, c)
           n == Len(P) + 1
<1>1. /\ \A i \in Mine(P, f) : i \in DOMAIN P /\ i \in Nat /\ i < n /\ R[i] = P[i]
      /\ n \in Nat /\ n \in DOMAIN R /\ R[n] = c /\ Mine(R, f) = Mine(P, f) \cup {n}
  <2>1. Mine(P, f) \subseteq DOMAIN P
    BY DEF Mine
  <2>2. \A i \in DOMAIN P : i \in Nat /\ i <= Len(P) /\ R[i] = P[i]
    BY MineAppend
  <2>3. Len(P) \in Nat /\ n \in DOMAIN R /\ R[n] = c /\ Mine(R, f) = Mine(P, f) \cup {n}
    BY MineAppend DEF Registering
  <2> QED BY <2>1, <2>2, <2>3
<1> HIDE DEF R, n
<1>2. \/ Mine(P, f) = {} /\ cb = 0 /\ in = "off"
      \/ \E l \in DOMAIN P : IsLast(P, f, l) /\ P[l].type = "Unreg"
  BY DEF Agree, LastIs
<1>3. IsLast(R, f, n)
  BY <1>1 DEF IsLast
<1>4. Alternate(R, f)
  <2>1. ASSUME NEW i \in Mine(R, f), R[i].type = "Del" PROVE FALSE
    <3>1. i \in Mine(P, f) /\ P[i].type = "Del" /\ i \in Nat
      BY <1>1, <2>1
    <3>2. IsLast(P, f, i)
      BY <3>1 DEF Agree, Alternate
    <3>3. PICK l \in DOMAIN P : IsLast(P, f, l) /\ P[l].type = "Unreg"
      BY <1>2, <3>1
    <3>4. l <= i /\ i <= l /\ l \in Nat
      BY <1>1, <3>2, <3>3 DEF IsLast
    <3> QED BY <3>1, <3>3, <3>4
  <2>2. ASSUME NEW i \in Mine(R, f), NEW j \in Mine(R, f), i < j,
               \A k \in Mine(R, f) : k <= i \/ j <= k
        PROVE  R[i].type = "Add" <=> R[j].type # "Add"
    <3>1. i \in Mine(P, f) /\ i \in Nat
      BY <1>1, <2>2
    <3>2. CASE j \in Mine(P, f)
      BY <1>1, <2>2, <3>1, <3>2 DEF Agree, Alternate
    <3>3. CASE j = n
      <4>1. PICK l \in DOMAIN P : IsLast(P, f, l) /\ P[l].type = "Unreg"
        BY <1>2, <3>1
      <4>2. l \in Mine(P, f) /\ i <= l /\ l \in Nat /\ l < n
        BY <1>1, <3>1, <4>1 DEF IsLast
      <4>3. l <= i
        BY <1>1, <2>2, <3>3, <4>2
      <4>4. l = i
        BY <3>1, <4>2, <4>3
      <4> QED BY <1>1, <3>1, <3>3, <4>1, <4>4
    <3> QED BY <1>1, <3>2, <3>3
  <2> QED BY <2>1, <2>2 DEF Alternate
<1>5. ASSUME NEW i \in DOMAIN R, IsFirst(R, f, i), R[i].type = "Add"
      PROVE  cb = 0 /\ in = "off"
  <2>1. CASE i \in Mine(P, f)
    <3>1. IsFirst(P, f, i)
      BY <1>1, <1>5, <2>1 DEF IsFirst
    <3> QED BY <1>1, <1>5, <2>1, <3>1 DEF Agree
  <2>2. CASE i = n
    <3>1. \A l \in Mine(P, f) : FALSE
      BY <1>1, <1>5, <2>2 DEF IsFirst
    <3> QED BY <1>2, <3>1 DEF IsLast
  <2> QED BY <1>1, <1>5, <2>1, <2>2 DEF IsFirst
<1>6. n \in DOMAIN R /\ R[n].type = "Add" /\ R[n].tag = fi
  BY <1>1
<1> QED BY <1>3, <1>4, <1>5, <1>6 DEF Agree, R

(* A removal of a descriptor that was lent. *)
LEMMA AppendRemove ==
    ASSUME NEW P \in Seq(Commands), NEW c \in Commands, NEW f,
           c.type \in {"Del", "Unreg"}, c.fd = f,
           NEW cb, NEW in, NEW fi, Agree(P, f, cb, in, "lent", fi)
    PROVE  Agree(Append(P, c), f, cb, in, IF c.type = "Del" THEN "doomed" ELSE "user", fi)
<1> DEFINE R == Append(P, c)
           n == Len(P) + 1
<1>1. /\ \A i \in Mine(P, f) : i \in DOMAIN P /\ i \in Nat /\ i < n /\ R[i] = P[i]
      /\ n \in Nat /\ n \in DOMAIN R /\ R[n] = c /\ Mine(R, f) = Mine(P, f) \cup {n}
  <2>1. Mine(P, f) \subseteq DOMAIN P
    BY DEF Mine
  <2>2. \A i \in DOMAIN P : i \in Nat /\ i <= Len(P) /\ R[i] = P[i]
    BY MineAppend
  <2>3. Len(P) \in Nat /\ n \in DOMAIN R /\ R[n] = c /\ Mine(R, f) = Mine(P, f) \cup {n}
    BY MineAppend DEF Registering
  <2> QED BY <2>1, <2>2, <2>3
<1> HIDE DEF R, n
<1>2. \/ Mine(P, f) = {}
      \/ \E l \in DOMAIN P : IsLast(P, f, l) /\ P[l].type = "Add"
  BY DEF Agree
<1>3. IsLast(R, f, n)
  BY <1>1 DEF IsLast
<1>4. Alternate(R, f)
  <2>1. ASSUME NEW i \in Mine(P, f), P[i].type = "Del" PROVE FALSE
    <3>1. IsLast(P, f, i) /\ i \in Nat
      BY <1>1, <2>1 DEF Agree, Alternate
    <3>2. PICK l \in DOMAIN P : IsLast(P, f, l) /\ P[l].type = "Add"
      BY <1>2, <2>1
    <3>3. l <= i /\ i <= l /\ l \in Nat
      BY <1>1, <3>1, <3>2 DEF IsLast
    <3> QED BY <2>1, <3>1, <3>2, <3>3
  <2>2. ASSUME NEW i \in Mine(R, f), R[i].type = "Del" PROVE IsLast(R, f, i)
    BY <1>1, <1>3, <2>1, <2>2
  <2>3. ASSUME NEW i \in Mine(R, f), NEW j \in Mine(R, f), i < j,
               \A k \in Mine(R, f) : k <= i \/ j <= k
        PROVE  R[i].type = "Add" <=> R[j].type # "Add"
    <3>1. i \in Mine(P, f) /\ i \in Nat
      BY <1>1, <2>3
    <3>2. CASE j \in Mine(P, f)
      BY <1>1, <2>3, <3>1, <3>2 DEF Agree, Alternate
    <3>3. CASE j = n
      <4>1. PICK l \in DOMAIN P : IsLast(P, f, l) /\ P[l].type = "Add"
        BY <1>2, <3>1
      <4>2. l \in Mine(P, f) /\ i <= l /\ l \in Nat /\ l < n
        BY <1>1, <3>1, <4>1 DEF IsLast
      <4>3. l <= i
        BY <1>1, <2>3, <3>3, <4>2
      <4>4. l = i
        BY <3>1, <4>2, <4>3
      <4> QED BY <1>1, <3>1, <3>3, <4>1, <4>4
    <3> QED BY <1>1, <3>2, <3>3
  <2> QED BY <2>2, <2>3 DEF Alternate
<1>5. ASSUME NEW i \in DOMAIN R, IsFirst(R, f, i), R[i].type = "Add"
      PROVE  cb = 0 /\ in = "off"
  <2>1. i \in Mine(P, f)
    BY <1>1, <1>5 DEF IsFirst
  <2>2. IsFirst(P, f, i)
    BY <1>1, <1>5, <2>1 DEF IsFirst
  <2> QED BY <1>1, <1>5, <2>1, <2>2 DEF Agree
<1>6. n \in DOMAIN R /\ R[n].type = c.type
  BY <1>1
<1>7. LastIs(R, f, c.type)
  BY <1>3, <1>6 DEF LastIs
<1>8. CASE c.type = "Del"
  BY <1>4, <1>5, <1>7, <1>8 DEF Agree, R
<1>9. CASE c.type = "Unreg"
  BY <1>4, <1>5, <1>7, <1>9 DEF Agree, R
<1> QED BY <1>8, <1>9

(* The add at the head is executed: on an open descriptor it succeeds. *)
LEMMA TailAdd ==
    ASSUME NEW P \in Seq(Commands), P # <<>>, NEW f, P[1].type = "Add", P[1].fd = f,
           NEW cb, NEW in, NEW ho, NEW fi, Agree(P, f, cb, in, ho, fi),
           ho \in {"free", "user", "lent", "doomed"},
           NEW cb2, NEW in2, ho # "free" => cb2 = P[1].tag
    PROVE  Agree(Tail(P), f, cb2, in2, ho, fi)
<1> DEFINE R == Tail(P)
<1>1. Alternate(P, f) /\ 1 \in Mine(P, f) /\ 1 \in DOMAIN P
  BY MineTail DEF Agree, Mine, Registering
<1>2. /\ Alternate(R, f)
      /\ \A i : IsLast(P, f, i) /\ i # 1 =>
            i - 1 \in DOMAIN R /\ R[i - 1] = P[i] /\ IsLast(R, f, i - 1)
      /\ IsLast(P, f, 1) => Mine(R, f) = {}
  BY <1>1, TailShift
<1>3. ASSUME NEW i \in DOMAIN R, IsFirst(R, f, i), R[i].type = "Add" PROVE FALSE
  <2>1. /\ i + 1 \in Mine(P, f) /\ i + 1 > 1 /\ P[i + 1].type = "Add"
        /\ \A k \in Mine(P, f) : k <= 1 \/ i + 1 <= k
    BY <1>1, <1>3, TailShift
  <2>2. 1 < i + 1
    BY <2>1, MineTail
  <2> QED BY <1>1, <2>1, <2>2 DEF Alternate
<1> HIDE DEF R
<1>4. ASSUME NEW type, type # "Add", LastIs(P, f, type) PROVE LastIs(R, f, type)
  BY <1>2, <1>4 DEF LastIs
<1>5. CASE ho = "lent"
  <2>1. PICK l \in DOMAIN P : IsLast(P, f, l) /\ P[l].type = "Add" /\ P[l].tag = fi
    BY <1>1, <1>5 DEF Agree
  <2>2. CASE l = 1
    BY <1>2, <1>3, <1>5, <2>1, <2>2 DEF Agree, R
  <2>3. CASE l # 1
    <3>1. l - 1 \in DOMAIN R /\ IsLast(R, f, l - 1) /\ R[l - 1].type = "Add" /\ R[l - 1].tag = fi
      BY <1>2, <2>1, <2>3
    <3> QED BY <1>2, <1>3, <1>5, <3>1 DEF Agree, R
  <2> QED BY <2>2, <2>3
<1>6. CASE ho = "doomed"
  <2>1. LastIs(R, f, "Del")
    BY <1>4, <1>6 DEF Agree
  <2> QED BY <1>2, <1>3, <1>6, <2>1 DEF Agree, R
<1>7. CASE ho \in {"user", "free"}
  <2>1. LastIs(R, f, "Unreg")
    BY <1>1, <1>4, <1>7 DEF Agree
  <2> QED BY <1>2, <1>3, <1>7, <2>1 DEF Agree, R
<1> QED BY <1>5, <1>6, <1>7

(* The removal at the head is executed, and a deletion closes the file. *)
RemovesFirst(P, f, holder) ==
    /\ P \in Seq(Commands) /\ P # <<>>
    /\ P[1].type \in {"Del", "Unreg"} /\ P[1].fd = f
    /\ holder \in {"free", "user", "lent", "doomed"}
AgreeRemoved(P, f, holder, file) ==
    /\ P[1].type = "Del" => Agree(Tail(P), f, 0, "off", "free", file)
    /\ P[1].type = "Unreg" => Agree(Tail(P), f, 0, "off", holder, file)

LEMMA TailRemove ==
    ASSUME NEW P, NEW f, NEW cb, NEW in, NEW ho, NEW fi,
           RemovesFirst(P, f, ho), Agree(P, f, cb, in, ho, fi)
    PROVE  AgreeRemoved(P, f, ho, fi)
<1> SUFFICES /\ P[1].type = "Del" => Agree(Tail(P), f, 0, "off", "free", fi)
             /\ P[1].type = "Unreg" => Agree(Tail(P), f, 0, "off", ho, fi)
  BY DEF AgreeRemoved
<1> P \in Seq(Commands) /\ P # <<>>
  BY DEF RemovesFirst
<1> P[1].type \in {"Del", "Unreg"} /\ P[1].fd = f /\ ho \in {"free", "user", "lent", "doomed"}
  BY DEF RemovesFirst
<1> DEFINE R == Tail(P)
<1>1. Alternate(P, f) /\ 1 \in Mine(P, f) /\ 1 \in DOMAIN P
  BY MineTail DEF Agree, Mine, Registering
<1>2. /\ Alternate(R, f)
      /\ \A i : IsLast(P, f, i) /\ i # 1 =>
            i - 1 \in DOMAIN R /\ R[i - 1] = P[i] /\ IsLast(R, f, i - 1)
      /\ IsLast(P, f, 1) => Mine(R, f) = {}
  BY <1>1, TailShift
<1> HIDE DEF R
<1>3. CASE P[1].type = "Del"
  <2>1. Mine(R, f) = {}
    BY <1>1, <1>2, <1>3 DEF Alternate
  <2>2. \A i \in DOMAIN R : ~IsFirst(R, f, i)
    BY <2>1 DEF IsFirst
  <2> QED BY <1>2, <1>3, <2>1, <2>2 DEF Agree, R
<1>4. CASE P[1].type = "Unreg"
  <2>1. \A i \in DOMAIN R : IsFirst(R, f, i) /\ R[i].type = "Add" => 0 = 0 /\ "off" = "off"
    OBVIOUS
  <2>2. ASSUME NEW type, LastIs(P, f, type), type # "Unreg" PROVE LastIs(R, f, type)
    BY <1>2, <1>4, <2>2 DEF LastIs
  <2>3. CASE ho = "lent"
    <3>1. PICK l \in DOMAIN P : IsLast(P, f, l) /\ P[l].type = "Add" /\ P[l].tag = fi
      BY <1>1, <2>3 DEF Agree
    <3>2. l - 1 \in DOMAIN R /\ IsLast(R, f, l - 1) /\ R[l - 1].type = "Add" /\ R[l - 1].tag = fi
      BY <1>2, <1>4, <3>1
    <3> QED BY <1>2, <1>4, <2>3, <3>2 DEF Agree, R
  <2>4. CASE ho = "doomed"
    <3>1. LastIs(R, f, "Del")
      BY <2>2, <2>4 DEF Agree
    <3> QED BY <1>2, <1>4, <2>4, <3>1 DEF Agree, R
  <2>5. CASE ho \in {"user", "free"}
    <3>1. Mine(R, f) = {} \/ LastIs(R, f, "Unreg")
      <4>1. PICK l \in DOMAIN P : IsLast(P, f, l) /\ P[l].type = "Unreg"
        BY <1>1, <2>5 DEF Agree, LastIs
      <4> QED BY <1>2, <4>1 DEF LastIs
    <3> QED BY <1>2, <1>4, <2>5, <3>1 DEF Agree, R
  <2> QED BY <2>3, <2>4, <2>5
<1> QED BY <1>3, <1>4

(* Opening and closing by the program, and a disabled one-shot interest. *)
LEMMA AgreeWeaker ==
    ASSUME NEW P, NEW f, NEW cb, NEW in, NEW ho, NEW fi, Agree(P, f, cb, in, ho, fi),
           NEW in2, NEW ho2, NEW fi2, in = "off" => in2 = "off",
           (ho2 = ho /\ fi2 = fi) \/ {ho, ho2} \subseteq {"user", "free"}
    PROVE  Agree(P, f, cb, in2, ho2, fi2)
<1>1. CASE ho2 = ho /\ fi2 = fi
  BY <1>1 DEF Agree
<1>2. CASE {ho, ho2} \subseteq {"user", "free"}
  BY <1>2 DEF Agree
<1> QED BY <1>1, <1>2

-----------------------------------------------------------------------------
LEMMA InitCustody == Init => CustodyInv
<1> SUFFICES ASSUME Init, NEW f \in Fds
             PROVE  Agree(Pending, f, callbacks[f], armed[f], own[f], gen[f])
  BY DEF Init, CustodyInv
<1>1. Pending = <<>>
  BY DEF Init, Pending
<1>2. Mine(Pending, f) = {} /\ DOMAIN Pending = {}
  BY <1>1 DEF Mine
<1>3. callbacks[f] = 0 /\ armed[f] = "off" /\ own[f] = "free"
  BY DEF Init
<1> QED BY <1>2, <1>3 DEF Agree, Alternate

(* A post finds the descriptor as the contract demands, and hands it over. *)
LEMMA PostCustody ==
    ASSUME IInv, CustodyInv, NEW p \in Posters, NEW type \in Requests, NEW f \in Fds,
           NEW mode \in ModesOf(type), Post(p, type, f, mode), mpc # "destroyed",
           NEW g \in Fds
    PROVE  Agree(Pending', g, callbacks'[g], armed'[g], own'[g], gen'[g])
<1> DEFINE c == [type |-> type, fd |-> f, tag |-> gen[f], mode |-> mode]
<1>1. c \in Commands
  BY PostType DEF IInv, Post
<1>2. Pending' = Append(Pending, c) /\ Pending \in Seq(Commands)
  BY <1>1, PendingAppend, SMTT(30) DEF Post, Enqueue, IInv, TypeOK, Pending
<1>3. /\ UNCHANGED <<callbacks, armed, gen>> /\ own[f] = IF type = "Add" THEN "user" ELSE "lent"
      /\ own' = [own EXCEPT ![f] = Handover(type)]
      /\ own \in [Fds -> {"free", "user", "lent", "doomed"}]
  BY DEF Post, Allowed, IInv, TypeOK
<1>4. Agree(Pending, g, callbacks[g], armed[g], own[g], gen[g])
  BY DEF CustodyInv
<1>5. c.type = type /\ c.fd = f /\ c.tag = gen[f]
  OBVIOUS
<1> HIDE DEF c
<1>6. CASE g # f \/ type = "Mod"
  <2>1. own'[g] = own[g]
    BY <1>3, <1>6 DEF Handover
  <2>2. ~(c.type \in Registering /\ c.fd = g)
    BY <1>5, <1>6 DEF Registering
  <2> QED BY <1>1, <1>2, <1>3, <1>4, <2>1, <2>2, AppendOther
<1>7. CASE g = f /\ type = "Add"
  <2>1. own[g] = "user" /\ own'[g] = "lent" /\ c.tag = gen[g] /\ c.fd = g /\ c.type = "Add"
    BY <1>3, <1>5, <1>7 DEF Handover
  <2>2. Agree(Pending, g, callbacks[g], armed[g], "user", gen[g])
    BY <1>4, <2>1
  <2>3. Agree(Append(Pending, c), g, callbacks[g], armed[g], "lent", gen[g])
    BY <1>1, <1>2, <2>1, <2>2, AppendAdd
  <2> QED BY <1>2, <1>3, <2>1, <2>3
<1>8. CASE g = f /\ type \in {"Del", "Unreg"}
  <2>1. /\ own[g] = "lent" /\ c.fd = g /\ c.type = type
        /\ own'[g] = IF c.type = "Del" THEN "doomed" ELSE "user"
    BY <1>3, <1>5, <1>8 DEF Handover
  <2>2. Agree(Pending, g, callbacks[g], armed[g], "lent", gen[g])
    BY <1>4, <2>1
  <2>3. Agree(Append(Pending, c), g, callbacks[g], armed[g],
              IF c.type = "Del" THEN "doomed" ELSE "user", gen[g])
    BY <1>1, <1>2, <1>8, <2>1, <2>2, AppendRemove
  <2> QED BY <1>2, <1>3, <2>1, <2>3
<1> QED BY <1>6, <1>7, <1>8, ProgramAssumption

(* The head of the pending commands is executed. *)
LEMMA ExecCustody ==
    ASSUME IInv, CustodyInv, Exec, mpc # "destroyed", NEW g \in Fds
    PROVE  Agree(Pending', g, callbacks'[g], armed'[g], own'[g], gen'[g])
<1>0. PICK c : c = Head(local)
  OBVIOUS
<1>1. Pending # <<>> /\ Pending' = Tail(Pending) /\ Pending \in Seq(Commands)
  BY PendingTail DEF Exec, IInv, TypeOK, Pending
<1>2. Pending[1] = c
  BY <1>0 DEF Exec, IInv, TypeOK, Pending
<1>3. c \in Commands /\ (c.type # "Stop" => c.fd \in Fds)
  BY <1>0, HeadType DEF Exec, IInv
<1>4. /\ own \in [Fds -> {"free", "user", "lent", "doomed"}]
      /\ callbacks \in [Fds -> 0 .. MaxOpens]
      /\ armed \in [Fds -> Modes \cup {"off", "disabled"}]
  BY DEF IInv, TypeOK
<1>5. Agree(Pending, g, callbacks[g], armed[g], own[g], gen[g])
  BY DEF CustodyInv
<1>6. ASSUME ~(c.type \in Registering /\ c.fd = g),
             UNCHANGED <<callbacks[g], own[g], gen[g]>>, armed[g] = "off" => armed'[g] = "off"
      PROVE  Agree(Pending', g, callbacks'[g], armed'[g], own'[g], gen'[g])
  <2>1. Agree(Tail(Pending), g, callbacks[g], armed'[g], own[g], gen[g])
    BY <1>1, <1>2, <1>5, <1>6, TailOther
  <2> QED BY <1>1, <1>6, <2>1
<1>7. CASE ExecAdd(c)
  <2>0. c.type = "Add" /\ c.fd \in Fds /\ own' = own /\ gen' = gen
    BY <1>3, <1>7 DEF ExecAdd
  <2>1. CASE g # c.fd
    <3>1. callbacks'[g] = callbacks[g] /\ armed'[g] = armed[g]
      BY <1>4, <1>7, <2>1 DEF ExecAdd
    <3> QED BY <1>6, <2>0, <2>1, <3>1
  <2>2. CASE g = c.fd
    <3>1. armed[g] = "off"
      <4>1. Alternate(Pending, g) /\ 1 \in Mine(Pending, g) /\ 1 \in DOMAIN Pending
        BY <1>1, <1>2, <1>5, <2>0, <2>2, MineTail DEF Agree, Mine, Registering
      <4>2. \A j \in Mine(Pending, g) : 1 <= j
        BY <1>1, MineTail DEF Mine
      <4> QED BY <1>2, <1>5, <2>0, <4>1, <4>2 DEF Agree, IsFirst
    <3>2. own[g] # "free" => callbacks'[g] = c.tag
      BY <1>4, <1>7, <2>2, <3>1 DEF ExecAdd, AddSucceeds
    <3>3. Agree(Tail(Pending), g, callbacks'[g], armed'[g], own[g], gen[g])
      BY <1>1, <1>2, <1>4, <1>5, <2>0, <2>2, <3>2, TailAdd
    <3> QED BY <1>1, <2>0, <3>3
  <2> QED BY <2>1, <2>2
<1>8. CASE ExecMod(c)
  <2>1. c.type \notin Registering /\ UNCHANGED <<callbacks, own, gen>>
    BY <1>8 DEF ExecMod, Registering
  <2>2. armed[g] = "off" => armed'[g] = "off"
    BY <1>4, <1>8 DEF ExecMod
  <2> QED BY <1>6, <2>1, <2>2
<1>9. CASE ExecStop(c)
  <2>1. c.type \notin Registering /\ UNCHANGED <<callbacks, armed, own, gen>>
    BY <1>9 DEF ExecStop, Registering, table
  <2> QED BY <1>6, <2>1
<1>10. CASE ExecDel(c) \/ ExecUnreg(c)
  <2>1. CASE g # c.fd
    <3>1. UNCHANGED <<callbacks[g], armed[g], own[g], gen[g]>>
      BY <1>4, <1>10, <2>1 DEF ExecDel, ExecUnreg
    <3> QED BY <1>6, <2>1, <3>1
  <2>2. CASE g = c.fd
    <3>1. /\ callbacks'[g] = 0 /\ armed'[g] = "off" /\ gen' = gen
          /\ c.type \in {"Del", "Unreg"}
          /\ own'[g] = IF c.type = "Del" THEN "free" ELSE own[g]
      BY <1>3, <1>4, <1>10, <2>2 DEF ExecDel, ExecUnreg
    <3>2. Agree(Tail(Pending), g, 0, "off", IF c.type = "Del" THEN "free" ELSE own[g], gen[g])
      <4>1. /\ Pending[1].type \in {"Del", "Unreg"} /\ Pending[1].fd = g
            /\ own[g] \in {"free", "user", "lent", "doomed"}
        BY <1>2, <1>4, <2>2, <3>1
      <4>2. /\ c.type = "Del" => Agree(Tail(Pending), g, 0, "off", "free", gen[g])
            /\ c.type = "Unreg" => Agree(Tail(Pending), g, 0, "off", own[g], gen[g])
        <5>1. RemovesFirst(Pending, g, own[g])
          BY <1>1, <4>1 DEF RemovesFirst
        <5>2. AgreeRemoved(Pending, g, own[g], gen[g])
          BY <1>5, <5>1, TailRemove
        <5> QED BY <1>2, <5>2 DEF AgreeRemoved
      <4> QED BY <3>1, <4>2
    <3> QED BY <1>1, <3>1, <3>2
  <2> QED BY <2>1, <2>2
<1> QED BY <1>0, <1>7, <1>8, <1>9, <1>10 DEF Exec

LEMMA NextCustody == IInv /\ CustodyInv /\ [Next]_vars => CustodyInv'
<1> SUFFICES ASSUME IInv, CustodyInv, [Next]_vars PROVE CustodyInv'
  OBVIOUS
<1>0. TypeOK
  BY DEF IInv
<1>1. mpc' = "destroyed" => rpc' \in {"none", "exited"}
  BY DEF CustodyInv, Next, LoopStep, InPost, Post, StopCall, StopPush, Wakeup, Open, Close,
         Run, PollNothing, Start, Check, BatchDone, CallbackReturn, Drain, Swap, Exec,
         ExecDone, Poll, Dispatch, Destroy, CloseAll, Finished, vars
<1> SUFFICES ASSUME mpc' # "destroyed", NEW g \in Fds
             PROVE  Agree(Pending', g, callbacks'[g], armed'[g], own'[g], gen'[g])
  BY <1>1 DEF CustodyInv
<1>2. mpc # "destroyed"
  BY DEF Next, LoopStep, InPost, Post, StopCall, StopPush, Wakeup, Open, Close,
         Run, PollNothing, Start, Check, BatchDone, CallbackReturn, Drain, Swap, Exec,
         ExecDone, Poll, Dispatch, Destroy, CloseAll, Finished, vars
<1>3. Agree(Pending, g, callbacks[g], armed[g], own[g], gen[g])
  BY <1>2 DEF CustodyInv
<1>4. ASSUME Pending' = Pending, UNCHANGED table
      PROVE  Agree(Pending', g, callbacks'[g], armed'[g], own'[g], gen'[g])
  BY <1>3, <1>4 DEF table
<1>5. ASSUME NEW p \in Posters, StopPush(p)
      PROVE  Agree(Pending', g, callbacks'[g], armed'[g], own'[g], gen'[g])
  <2> DEFINE c == [type |-> "Stop"]
  <2>1. c \in Commands /\ ~(c.type \in Registering /\ c.fd = g)
    BY DEF Commands, Registering
  <2>2. Pending' = Append(Pending, c) /\ Pending \in Seq(Commands)
    BY <1>0, <1>5, <2>1, PendingAppend DEF StopPush, Enqueue, TypeOK, Pending
  <2>3. Agree(Append(Pending, c), g, callbacks[g], armed[g], own[g], gen[g])
    <3> HIDE DEF c
    <3> QED BY <1>3, <2>1, <2>2, AppendOther
  <2> QED BY <1>5, <2>2, <2>3 DEF StopPush, table
<1>6. ASSUME NEW f \in Fds, Open(f) \/ Close(f)
      PROVE  Agree(Pending', g, callbacks'[g], armed'[g], own'[g], gen'[g])
  <2>1. /\ Pending' = Pending /\ callbacks' = callbacks
        /\ armed[g] = "off" => armed'[g] = "off"
        /\ (own'[g] = own[g] /\ gen'[g] = gen[g]) \/ {own[g], own'[g]} \subseteq {"user", "free"}
    BY <1>0, <1>6 DEF Open, Close, Pending, TypeOK
  <2> QED BY <1>3, <2>1, AgreeWeaker
<1>7. ASSUME NEW ready \in SUBSET Fds, Poll(ready)
      PROVE  Agree(Pending', g, callbacks'[g], armed'[g], own'[g], gen'[g])
  <2>1. /\ Pending' = Pending /\ UNCHANGED <<callbacks, own, gen>>
        /\ armed[g] = "off" => armed'[g] = "off"
    BY <1>0, <1>7 DEF Poll, Pending, TypeOK
  <2> QED BY <1>3, <2>1, AgreeWeaker
<1>8. CASE Swap
  <2>1. UNCHANGED Abstract
    BY <1>8, SwapRefines
  <2> QED BY <1>4, <1>8, <2>1 DEF Abstract, Swap
<1>9. CASE CloseAll
  BY <1>9 DEF CloseAll
<1>10. CASE \/ \E p \in Posters : StopCall(p) \/ Wakeup(p)
            \/ Run \/ PollNothing \/ Destroy \/ Finished \/ UNCHANGED vars
            \/ Start \/ Check \/ BatchDone \/ CallbackReturn \/ Drain \/ ExecDone
            \/ \E e \in batch : Dispatch(e)
  <2>1. UNCHANGED <<table, cmdQ, local>>
    BY <1>10 DEF StopCall, Wakeup, Run, PollNothing, Destroy, Finished, Start, Check,
                 BatchDone, CallbackReturn, Drain, ExecDone, Dispatch, vars
  <2> QED BY <1>4, <2>1 DEF Pending
<1> QED BY <1>2, <1>5, <1>6, <1>7, <1>8, <1>9, <1>10, PostCustody, ExecCustody
        DEF Next, LoopStep, InPost

LEMMA CustodyInvariance == Spec => [](IInv /\ CustodyInv)
<1>1. IInv /\ CustodyInv /\ [Next]_vars => (IInv /\ CustodyInv)'
  BY NextType, NextGen, NextWakeup, NextBatch, NextCustody DEF IInv
<1> QED BY <1>1, InitInv, InitCustody, PTL DEF Spec

-----------------------------------------------------------------------------
(* add_fd, del_fd, unreg_fd, add_timer: the reactor's table and the        *)
(* program's idea of who closes a descriptor agree, up to the commands     *)
(* that are still to be executed.                                          *)
THEOREM CustodyIsKept == Spec => []Custody
<1>1. IInv /\ CustodyInv => Custody
  <2> SUFFICES ASSUME IInv, CustodyInv, mpc # "destroyed", NEW f \in Fds
               PROVE  /\ callbacks[f] # 0 /\ own[f] \notin {"lent", "doomed"} =>
                            IsPending("Unreg", f)
                      /\ own[f] = "lent" => callbacks[f] = gen[f] \/ IsPending("Add", f)
                      /\ own[f] = "doomed" => IsPending("Del", f)
    BY DEF Custody
  <2>1. Agree(Pending, f, callbacks[f], armed[f], own[f], gen[f])
    BY DEF CustodyInv
  <2>2. \A type : LastIs(Pending, f, type) => IsPending(type, f)
    BY DEF LastIs, IsLast, Mine, IsPending
  <2>3. (\E i \in DOMAIN Pending : IsLast(Pending, f, i) /\ Pending[i].type = "Add"
                                     /\ Pending[i].tag = gen[f])
        => IsPending("Add", f)
    BY <2>2 DEF LastIs
  <2>4. own[f] \in {"free", "user", "lent", "doomed"}
    BY DEF IInv, TypeOK
  <2> QED BY <2>1, <2>2, <2>3, <2>4 DEF Agree
<1> QED BY <1>1, CustodyInvariance, PTL

(* do_add_fd: an add that is executed finds no interest of its descriptor  *)
(* in epoll, so it never fails with EEXIST.                                *)
THEOREM AddIsAccepted == Spec => []AddFindsRoom
<1>1. IInv /\ CustodyInv => AddFindsRoom
  <2> SUFFICES ASSUME IInv, CustodyInv, rpc = "exec", local # <<>>, Head(local).type = "Add"
               PROVE  armed[Head(local).fd] = "off"
    BY DEF AddFindsRoom
  <2>0. PICK c : c = Head(local)
    OBVIOUS
  <2>1. Pending \in Seq(Commands) /\ Pending # <<>> /\ Pending[1] = c
    BY <2>0 DEF IInv, TypeOK, Pending
  <2>2. c.fd \in Fds /\ c.type = "Add"
    BY <2>0, HeadType DEF IInv
  <2>3. Agree(Pending, c.fd, callbacks[c.fd], armed[c.fd], own[c.fd], gen[c.fd])
    BY <2>2 DEF CustodyInv
  <2>4. 1 \in DOMAIN Pending /\ IsFirst(Pending, c.fd, 1)
    BY <2>1, <2>2, MineTail DEF IsFirst, Mine, Registering
  <2> QED BY <2>0, <2>1, <2>2, <2>3, <2>4 DEF Agree
<1> QED BY <1>1, CustodyInvariance, PTL

-----------------------------------------------------------------------------
(* Numbers of which only the reactor closes the files, as it does those of *)
(* timers: not given.  An event of a batch is Current, or its file is      *)
(* Gone: closed by this batch's wakeup, and no add of a new file with its  *)
(* number is executed before the batch is done.                            *)
Current(e) ==
    /\ own[e.fd] \in {"lent", "doomed"}
    /\ callbacks[e.fd] = e.gen /\ gen[e.fd] = e.gen
Gone(e) ==
    /\ Wake \notin batch /\ rpc \notin {"drain", "swap"}
    /\ callbacks[e.fd] = 0
    /\ \A i \in DOMAIN local : ~(local[i].type = "Add" /\ local[i].fd = e.fd)

NoUnreg == \A i \in DOMAIN Pending : Pending[i].type = "Unreg" => Pending[i].fd \in given
OnlyTheirFile ==
    /\ mpc = "destroyed" => \A f \in Fds : callbacks[f] = 0
    /\ mpc # "destroyed" =>
          \A f \in Fds \ given :
              /\ \A i \in Mine(Pending, f) : Pending[i].tag = gen[f]
              /\ armed[f] # "off" => callbacks[f] = gen[f]
EventsInv ==
    /\ Wake \in batch => rpc \notin {"drain", "swap", "exec"}
    /\ \A e \in batch \ {Wake} : e.fd \in given \/ Current(e) \/ Gone(e)
TimersInv == NoUnreg /\ OnlyTheirFile /\ EventsInv

LEMMA InitTimers == Init => TimersInv
<1> SUFFICES ASSUME Init PROVE TimersInv
  OBVIOUS
<1>1. Pending = <<>> /\ batch = {} /\ mpc = "alive"
  BY DEF Init, Pending
<1>2. \A f \in Fds : Mine(Pending, f) = {} /\ armed[f] = "off"
  BY <1>1 DEF Mine, Init
<1> QED BY <1>1, <1>2 DEF TimersInv, NoUnreg, OnlyTheirFile, EventsInv

(* How the pending commands change: not, at the end, or at the head. *)
LEMMA PendingSteps ==
    ASSUME IInv, [Next]_vars
    PROVE  \/ Pending' = Pending /\ (UNCHANGED <<local, cmdQ>> \/ Swap)
           \/ \E p \in Posters, c \in Commands :
                 /\ Pending' = Append(Pending, c) /\ local' = local
                 /\ \/ StopPush(p) /\ c.type = "Stop"
                    \/ /\ c.type \in Requests /\ c.fd \in Fds /\ c.tag = gen[c.fd]
                       /\ \E mode \in ModesOf(c.type) : Post(p, c.type, c.fd, mode)
           \/ Exec /\ Pending # <<>> /\ Pending' = Tail(Pending) /\ Pending[1] = Head(local)
<1>1. ASSUME NEW p \in Posters, NEW type \in Requests, NEW f \in Fds,
             NEW mode \in ModesOf(type), Post(p, type, f, mode)
      PROVE  \E c \in Commands :
                 /\ Pending' = Append(Pending, c) /\ local' = local
                 /\ c.type \in Requests /\ c.fd \in Fds /\ c.tag = gen[c.fd]
                 /\ \E m \in ModesOf(c.type) : Post(p, c.type, c.fd, m)
  <2> DEFINE c == [type |-> type, fd |-> f, tag |-> gen[f], mode |-> mode]
  <2>1. c \in Commands
    BY <1>1, PostType DEF IInv, Post
  <2>2. Pending' = Append(Pending, c) /\ local' = local
    BY <1>1, <2>1, PendingAppend DEF Post, Enqueue, IInv, TypeOK
  <2>3. c.type = type /\ c.fd = f /\ c.tag = gen[f]
    OBVIOUS
  <2> HIDE DEF c
  <2>4. c.type \in Requests /\ c.fd \in Fds /\ c.tag = gen[c.fd]
        /\ Post(p, c.type, c.fd, mode) /\ mode \in ModesOf(c.type)
    BY <1>1, <2>3
  <2> QED BY <2>1, <2>2, <2>4
<1>2. ASSUME NEW p \in Posters, StopPush(p)
      PROVE  \E c \in Commands :
                 Pending' = Append(Pending, c) /\ local' = local /\ c.type = "Stop"
  <2>1. [type |-> "Stop"] \in Commands
    BY DEF Commands
  <2> QED BY <1>2, <2>1, PendingAppend DEF StopPush, Enqueue, IInv, TypeOK
<1>3. CASE Exec
  BY <1>3, PendingTail DEF Exec, IInv, TypeOK, Pending
<1>4. CASE Swap
  <2>1. UNCHANGED Abstract
    BY <1>4, SwapRefines
  <2> QED BY <1>4, <2>1 DEF Abstract
<1>5. CASE UNCHANGED <<local, cmdQ>>
  BY <1>5 DEF Pending
<1> QED BY <1>1, <1>2, <1>3, <1>4, <1>5
        DEF Next, LoopStep, InPost, StopCall, Wakeup, Open, Close, Run, PollNothing, Start,
            Check, BatchDone, CallbackReturn, Drain, ExecDone, Poll, Dispatch, Destroy,
            CloseAll, Finished, vars

(* A number is given once, by an unreg, and stays so. *)
LEMMA NextGiven ==
    ASSUME [Next]_vars
    PROVE  /\ given \subseteq given'
           /\ \A p \in Posters, f \in Fds : \A mode \in ModesOf("Unreg") :
                 Post(p, "Unreg", f, mode) => f \in given'
           /\ \A f \in given' \ given :
                 \E p \in Posters, mode \in ModesOf("Unreg") : Post(p, "Unreg", f, mode)
<1>1. ASSUME NEW p \in Posters, NEW type \in Requests, NEW f \in Fds,
             NEW mode \in ModesOf(type), Post(p, type, f, mode)
      PROVE  /\ given \subseteq given'
             /\ \A g \in given' \ given : type = "Unreg" /\ g = f
  BY <1>1 DEF Post
<1>2. CASE UNCHANGED given
  BY <1>2 DEF Post
<1>3. CASE \E p \in Posters, type \in Requests, f \in Fds : \E mode \in ModesOf(type) :
              Post(p, type, f, mode)
  BY <1>1, <1>3 DEF Post
<1> QED BY <1>2, <1>3 DEF Next, LoopStep, InPost, StopCall, StopPush, Wakeup,
     Open, Close, Run, PollNothing, Start, Check, BatchDone, CallbackReturn, Drain, Swap, Exec,
     ExecDone, Poll, Dispatch, Destroy, CloseAll, Finished, vars, table,
     ExecAdd, ExecMod, ExecDel, ExecUnreg, ExecStop

LEMMA NextNoUnreg ==
    ASSUME IInv, [Next]_vars, NoUnreg
    PROVE  NoUnreg'
<1>0. Pending \in Seq(Commands) /\ given \subseteq given'
  BY NextGiven DEF IInv, TypeOK, Pending
<1>1. ASSUME NEW c \in Commands, Pending' = Append(Pending, c),
             c.type = "Unreg" => c.fd \in given'
      PROVE  NoUnreg'
  BY <1>0, <1>1, MineAppend DEF NoUnreg
<1>2. CASE Pending # <<>> /\ Pending' = Tail(Pending)
  BY <1>0, <1>2, MineTail DEF NoUnreg
<1>3. CASE Pending' = Pending
  BY <1>0, <1>3 DEF NoUnreg
<1> QED BY <1>1, <1>2, <1>3, PendingSteps, NextGiven

(* Without unreg nothing is left of a number that is not the reactor's. *)
LEMMA NothingLeft ==
    ASSUME CustodyInv, NoUnreg, mpc # "destroyed", NEW f \in Fds \ given,
           own[f] \in {"user", "free"}
    PROVE  Mine(Pending, f) = {} /\ callbacks[f] = 0 /\ armed[f] = "off"
<1>1. Agree(Pending, f, callbacks[f], armed[f], own[f], gen[f])
  BY DEF CustodyInv
<1>2. ~LastIs(Pending, f, "Unreg")
  BY DEF LastIs, IsLast, Mine, NoUnreg
<1> QED BY <1>1, <1>2 DEF Agree

LEMMA NextOnlyTheirFile ==
    ASSUME IInv, CustodyInv, TimersInv, [Next]_vars
    PROVE  OnlyTheirFile'
<1>0. TypeOK /\ Pending \in Seq(Commands) /\ NoUnreg /\ OnlyTheirFile
  BY DEF IInv, TypeOK, Pending, TimersInv
<1>1. ASSUME mpc' = "destroyed", NEW f \in Fds PROVE callbacks'[f] = 0
  <2>1. CASE CloseAll
    BY <2>1 DEF CloseAll
  <2>2. CASE ~CloseAll
    <3>1. mpc = "destroyed" /\ rpc # "exec"
      BY <1>1, <2>2 DEF CustodyInv, Next, LoopStep, InPost, Post, StopCall, StopPush, Wakeup,
         Open, Close, Run, PollNothing, Start, Check, BatchDone, CallbackReturn, Drain, Swap,
         Exec, ExecDone, Poll, Dispatch, Destroy, Finished, vars
    <3>2. callbacks' = callbacks
      BY <2>2, <3>1 DEF Next, LoopStep, InPost, Post, StopCall, StopPush, Wakeup, Open,
         Close, Run, PollNothing, Start, Check, BatchDone, CallbackReturn, Drain, Swap, Exec,
         ExecDone, Poll, Dispatch, Destroy, Finished, vars, table
    <3> QED BY <1>0, <3>1, <3>2 DEF OnlyTheirFile
  <2> QED BY <2>1, <2>2
<1> SUFFICES ASSUME mpc' # "destroyed", NEW f \in Fds, f \notin given
             PROVE  /\ \A i \in Mine(Pending', f) : Pending'[i].tag = gen'[f]
                    /\ armed'[f] # "off" => callbacks'[f] = gen'[f]
  BY <1>1, NextGiven DEF OnlyTheirFile, Mine
<1>2. mpc # "destroyed"
  BY DEF Next, LoopStep, InPost, Post, StopCall, StopPush, Wakeup, Open, Close,
         Run, PollNothing, Start, Check, BatchDone, CallbackReturn, Drain, Swap, Exec,
         ExecDone, Poll, Dispatch, Destroy, CloseAll, Finished, vars
<1>3. /\ \A i \in Mine(Pending, f) : Pending[i].tag = gen[f]
      /\ armed[f] # "off" => callbacks[f] = gen[f]
  BY <1>0, <1>2 DEF OnlyTheirFile
<1>4. CASE \E g \in Fds : Open(g)
  <2>1. PICK g \in Fds : Open(g)
    BY <1>4
  <2>2. Pending' = Pending /\ armed' = armed /\ callbacks' = callbacks
    BY <2>1 DEF Open, Pending
  <2>3. CASE g = f
    <3>1. Mine(Pending, f) = {} /\ armed[f] = "off"
      BY <1>0, <1>2, <2>1, <2>3, NothingLeft DEF Open
    <3> QED BY <2>2, <3>1
  <2>4. CASE g # f
    <3>1. gen'[f] = gen[f]
      BY <1>0, <2>1, <2>4 DEF Open, TypeOK
    <3> QED BY <1>3, <2>2, <3>1
  <2> QED BY <2>3, <2>4
<1>5. CASE ~\E g \in Fds : Open(g)
  <2>1. gen' = gen
    BY <1>5 DEF Next, LoopStep, InPost, Post, StopCall, StopPush, Wakeup, Close,
         Run, PollNothing, Start, Check, BatchDone, CallbackReturn, Drain, Swap, Exec,
         ExecDone, Poll, Dispatch, Destroy, CloseAll, Finished, vars, table,
         ExecAdd, ExecMod, ExecDel, ExecUnreg, ExecStop
  <2>2. \A i \in Mine(Pending', f) : Pending'[i].tag = gen[f]
    <3>1. ASSUME NEW c \in Commands, Pending' = Append(Pending, c),
                 c.type = "Stop" \/ c.tag = gen[c.fd]
          PROVE  \A i \in Mine(Pending', f) : Pending'[i].tag = gen[f]
      <4>1. /\ Mine(Pending, f) \subseteq DOMAIN Pending
            /\ \A i \in DOMAIN Pending : Pending'[i] = Pending[i]
            /\ Pending'[Len(Pending) + 1] = c
            /\ Mine(Pending', f) \subseteq Mine(Pending, f) \cup {Len(Pending) + 1}
            /\ c.type \notin Registering \/ c.fd # f => Mine(Pending', f) = Mine(Pending, f)
        BY <1>0, <3>1, MineAppend DEF Mine
      <4> QED BY <1>3, <3>1, <4>1 DEF Registering
    <3>2. CASE Pending # <<>> /\ Pending' = Tail(Pending)
      <4>1. \A i \in Mine(Pending', f) : i + 1 \in Mine(Pending, f)
                                         /\ Pending'[i] = Pending[i + 1]
        BY <1>0, <3>2, MineTail DEF Mine
      <4> QED BY <1>3, <4>1
    <3> QED BY <1>3, <3>1, <3>2, PendingSteps
  <2>3. armed'[f] # "off" => callbacks'[f] = gen[f]
    <3>1. CASE Exec
      <4>0. PICK c : c = Head(local)
        OBVIOUS
      <4>1. Pending # <<>> /\ Pending[1] = c
        BY <1>0, <3>1, <4>0 DEF Exec, TypeOK, Pending
      <4>2. CASE ExecAdd(c)
        <5>1. c.fd = f => c.tag = gen[f]
          <6>1. c.fd = f => 1 \in Mine(Pending, f)
            BY <1>0, <4>1, <4>2, MineTail DEF ExecAdd, Mine, Registering
          <6> QED BY <1>3, <4>1, <6>1
        <5> QED BY <1>0, <1>3, <4>2, <5>1 DEF ExecAdd, TypeOK
      <4>3. CASE ExecMod(c) \/ ExecStop(c)
        BY <1>0, <1>3, <4>3 DEF ExecMod, ExecStop, TypeOK, table
      <4>4. CASE ExecDel(c) \/ ExecUnreg(c)
        BY <1>0, <1>3, <4>4 DEF ExecDel, ExecUnreg, TypeOK
      <4> QED BY <3>1, <4>0, <4>2, <4>3, <4>4 DEF Exec
    <3>2. CASE UNCHANGED <<armed, callbacks>>
      BY <1>3, <3>2
    <3>3. ASSUME NEW g \in Fds, Close(g)
          PROVE  armed'[f] # "off" => callbacks'[f] = gen[f]
      BY <1>0, <1>3, <3>3 DEF Close, TypeOK
    <3>4. ASSUME NEW ready \in SUBSET Fds, Poll(ready)
          PROVE  armed'[f] # "off" => callbacks'[f] = gen[f]
      BY <1>0, <1>3, <3>4, Zenon DEF Poll, TypeOK, Modes
    <3>5. CASE CloseAll
      BY <3>5 DEF CloseAll
    <3> QED BY <1>5, <3>1, <3>2, <3>3, <3>4, <3>5
            DEF Next, LoopStep, InPost, Post, StopCall, StopPush, Wakeup, Run, PollNothing,
                Start, Check, BatchDone, CallbackReturn, Drain, Swap, ExecDone, Dispatch,
                Destroy, Finished, vars, table
  <2> QED BY <2>1, <2>2, <2>3
<1> QED BY <1>4, <1>5

(* An event that is current stays so until its file is closed by a command *)
(* of this wakeup, after which no add for its number is left to execute.   *)
LEMMA ExecEvents ==
    ASSUME IInv, CustodyInv, TimersInv, Exec, NEW e \in batch \ {Wake},
           mpc # "destroyed", NoUnreg', e.fd \notin given, given' = given
    PROVE  Current(e)' \/ Gone(e)'
<1>0. TypeOK /\ Pending \in Seq(Commands) /\ EventsInv /\ NoUnreg
  BY DEF IInv, TypeOK, Pending, TimersInv
<1>1. e.fd \in Fds /\ e.gen # 0
  BY <1>0, ProgramAssumption DEF TypeOK, Events, Files
<1>2. PICK c : c = Head(local)
  OBVIOUS
<1>3. /\ Pending # <<>> /\ Pending[1] = c /\ batch' = batch /\ rpc' = "exec" /\ rpc = "exec"
      /\ local' = Tail(local) /\ local # <<>> /\ local \in Seq(Commands) /\ cmdQ' = cmdQ
      /\ cmdQ \in Seq(Commands)
  BY <1>0, <1>2 DEF Exec, TypeOK, Pending
<1>4. Agree(Pending, e.fd, callbacks[e.fd], armed[e.fd], own[e.fd], gen[e.fd])
  BY <1>1 DEF CustodyInv
<1>5. c.type = "Add" /\ c.fd = e.fd => callbacks[e.fd] = 0 /\ Gone(e)
  <2> SUFFICES ASSUME c.type = "Add", c.fd = e.fd PROVE callbacks[e.fd] = 0
    BY <1>0, <1>1 DEF EventsInv, Current
  <2>1. 1 \in DOMAIN Pending /\ IsFirst(Pending, e.fd, 1)
    BY <1>0, <1>3, MineTail DEF IsFirst, Mine, Registering
  <2> QED BY <1>3, <1>4, <2>1 DEF Agree
<1>6. ~(c.type = "Add" /\ c.fd = e.fd)
  <2>1. 1 \in DOMAIN local /\ local[1] = c
    BY <1>2, <1>3
  <2> QED BY <1>5, <2>1 DEF Gone
<1>7. CASE ExecDel(c) /\ c.fd = e.fd
  <2>1. own'[e.fd] = "free" /\ callbacks'[e.fd] = 0
    BY <1>0, <1>1, <1>7 DEF ExecDel, TypeOK
  <2>2. Agree(Pending', e.fd, callbacks'[e.fd], armed'[e.fd], own'[e.fd], gen'[e.fd])
    BY <1>1, ExecCustody
  <2>3. ~LastIs(Pending', e.fd, "Unreg")
    BY <1>1 DEF NoUnreg, LastIs, IsLast, Mine
  <2>4. Mine(Pending', e.fd) = {}
    BY <2>1, <2>2, <2>3 DEF Agree
  <2>5. \A i \in DOMAIN local' : i \in DOMAIN Pending' /\ Pending'[i] = local'[i]
    BY <1>3 DEF Pending
  <2>6. \A i \in DOMAIN local' : ~(local'[i].type = "Add" /\ local'[i].fd = e.fd)
    BY <2>4, <2>5 DEF Mine, Registering
  <2>7. Wake \notin batch'
    BY <1>0, <1>3 DEF EventsInv
  <2> QED BY <1>3, <2>1, <2>6, <2>7 DEF Gone
<1>8. CASE ~(ExecDel(c) /\ c.fd = e.fd)
  <2>1. ~(c.type = "Unreg" /\ c.fd = e.fd)
    BY <1>0, <1>3, MineTail DEF NoUnreg
  <2>2. UNCHANGED <<callbacks[e.fd], own[e.fd], gen[e.fd]>>
    <3>1. CASE ExecAdd(c)
      <4>1. c.fd # e.fd
        BY <1>6, <3>1 DEF ExecAdd
      <4>2. CASE AddSucceeds(c)
        BY <1>0, <1>1, <3>1, <4>1, <4>2 DEF ExecAdd, TypeOK
      <4>3. CASE ~AddSucceeds(c)
        BY <3>1, <4>3 DEF ExecAdd
      <4> QED BY <4>2, <4>3
    <3>2. CASE ExecDel(c)
      BY <1>0, <1>8, <3>2 DEF ExecDel, TypeOK
    <3>3. CASE ExecMod(c) \/ ExecStop(c)
      BY <3>3 DEF ExecMod, ExecStop, table
    <3>4. CASE ExecUnreg(c)
      BY <1>0, <1>1, <2>1, <3>4 DEF ExecUnreg, TypeOK
    <3> QED BY <1>2, <3>1, <3>2, <3>3, <3>4 DEF Exec
  <2>3. \A i \in DOMAIN local' : \E j \in DOMAIN local : local'[i] = local[j]
    <3>1. \A i \in DOMAIN local' : i + 1 \in DOMAIN local /\ local'[i] = local[i + 1]
      BY <1>3
    <3> QED BY <3>1
  <2>4. CASE Current(e)
    BY <2>2, <2>4 DEF Current
  <2>5. CASE Gone(e)
    <3>1. \A i \in DOMAIN local' : ~(local'[i].type = "Add" /\ local'[i].fd = e.fd)
      BY <2>3, <2>5 DEF Gone
    <3> QED BY <1>3, <2>2, <2>5, <3>1 DEF Gone
  <2> QED BY <1>0, <2>4, <2>5 DEF EventsInv
<1> QED BY <1>7, <1>8

LEMMA NextEvents ==
    ASSUME IInv, CustodyInv, TimersInv, [Next]_vars
    PROVE  EventsInv'
<1>0. TypeOK /\ NoUnreg /\ OnlyTheirFile /\ EventsInv
  BY DEF IInv, TimersInv
<1>1. Wake \in batch' => rpc' \notin {"drain", "swap", "exec"}
  BY <1>0 DEF EventsInv, Next, LoopStep, InPost, Post, StopCall, StopPush, Wakeup, Open,
     Close, Run, PollNothing, Start, Check, BatchDone, CallbackReturn, Drain, Swap, Exec,
     ExecDone, Poll, Dispatch, Destroy, CloseAll, Finished, vars
<1> SUFFICES ASSUME NEW e \in batch', e # Wake, e.fd \notin given'
             PROVE  Current(e)' \/ Gone(e)'
  BY <1>1 DEF EventsInv, Current, Gone
<1>4. e.fd \notin given
  BY NextGiven
<1>2. ASSUME NEW ready \in SUBSET Fds, Poll(ready) PROVE Current(e)'
  <2>1. PICK f \in ready : e = [fd |-> f, gen |-> gen[f]]
    BY <1>2 DEF Poll
  <2>2. mpc # "destroyed" /\ armed[f] # "off" /\ f \in Fds
    BY <1>2 DEF Poll, CustodyInv, Modes
  <2>3. own[f] \in {"lent", "doomed"}
    BY <1>0, <1>4, <2>1, <2>2, NothingLeft DEF TypeOK
  <2>4. callbacks[f] = gen[f]
    BY <1>0, <1>4, <2>1, <2>2 DEF OnlyTheirFile
  <2>5. e.fd = f /\ e.gen = gen[f] /\ UNCHANGED <<own, callbacks, gen>>
    BY <1>2, <2>1 DEF Poll
  <2> QED BY <2>3, <2>4, <2>5 DEF Current
<1>3. ASSUME ~\E ready \in SUBSET Fds : Poll(ready) PROVE Current(e)' \/ Gone(e)'
  <2>1. e \in batch /\ batch' \subseteq batch
    BY <1>3 DEF Next, LoopStep, InPost, Post, StopCall, StopPush, Wakeup, Open,
       Close, Run, PollNothing, Start, Check, BatchDone, CallbackReturn, Drain, Swap, Exec,
       ExecDone, Dispatch, Destroy, CloseAll, Finished, vars
  <2>2. /\ e.fd \in Fds /\ mpc # "destroyed" /\ ~CloseAll
        /\ Current(e) \/ Gone(e)
    BY <1>0, <1>4, <2>1 DEF TypeOK, Events, Files, CustodyInv, CloseAll, EventsInv
  <2>3. CASE Exec
    <3>1. given' = given
      BY <2>3 DEF Exec, ExecAdd, ExecMod, ExecDel, ExecUnreg, ExecStop, table
    <3> QED BY <1>0, <1>4, <2>1, <2>2, <2>3, <3>1, ExecEvents, NextNoUnreg
  <2>4. CASE ~Exec /\ Current(e)
    <3>1. ASSUME NEW p \in Posters, NEW type \in Requests, NEW f \in Fds,
                 NEW mode \in ModesOf(type), Post(p, type, f, mode)
          PROVE  own'[e.fd] \in {"lent", "doomed"}
      BY <1>0, <2>2, <2>4, <3>1 DEF Post, Handover, TypeOK, Current
    <3>2. own'[e.fd] \in {"lent", "doomed"} /\ gen'[e.fd] = gen[e.fd] /\ callbacks' = callbacks
      BY <1>0, <1>3, <2>2, <2>4, <3>1, ZenonT(60) DEF Next, LoopStep, InPost, Post, StopCall, StopPush,
         Wakeup, Open, Close, Run, PollNothing, Start, Check, BatchDone, CallbackReturn,
         Drain, Swap, ExecDone, Dispatch, Destroy, Finished, vars, table, Current, TypeOK
    <3> QED BY <2>4, <3>2 DEF Current
  <2>5. CASE ~Exec /\ Gone(e)
    <3>1. rpc \notin {"drain", "swap"} /\ Wake \notin batch
      BY <2>5 DEF Gone
    <3>2. rpc' \notin {"drain", "swap"} /\ local' = local /\ callbacks' = callbacks
      BY <1>3, <2>2, <2>5, <3>1 DEF Next, LoopStep, InPost, Post, StopCall, StopPush,
         Wakeup, Open, Close, Run, PollNothing, Start, Check, BatchDone, CallbackReturn,
         Drain, Swap, ExecDone, Dispatch, Destroy, Finished, vars, table
    <3> QED BY <2>1, <2>5, <3>2 DEF Gone
  <2> QED BY <2>2, <2>3, <2>4, <2>5
<1> QED BY <1>2, <1>3

LEMMA TimersInvariance == Spec => [](IInv /\ CustodyInv /\ TimersInv)
<1>1. IInv /\ CustodyInv /\ TimersInv /\ [Next]_vars => (IInv /\ CustodyInv /\ TimersInv)'
  BY NextType, NextGen, NextWakeup, NextBatch, NextCustody, NextNoUnreg, NextOnlyTheirFile,
     NextEvents DEF IInv, TimersInv
<1> QED BY <1>1, InitInv, InitCustody, InitTimers, PTL DEF Spec

(* do_run: no callback gets an event of another file with the same number, *)
(* although a batch, a queue and a map may all hold that number, unless a  *)
(* file of it was given back by unreg_fd.                                  *)
THEOREM EventsAreNotStale == Spec => NoStaleEvent
<1>1. IInv /\ CustodyInv /\ TimersInv /\ [Next]_vars =>
          [\A e \in batch \ batch' :
              rpc' = "callback" => callbacks[e.fd] = e.gen \/ e.fd \in given]_vars
  <2> SUFFICES ASSUME IInv, TimersInv, [Next]_vars, NEW e \in batch, e \notin batch',
                      rpc' = "callback", e.fd \notin given
               PROVE  callbacks[e.fd] = e.gen
    OBVIOUS
  <2>1. ~\E ready \in SUBSET Fds : Poll(ready)
    BY DEF Poll
  <2>2. PICK d \in batch : Dispatch(d) /\ batch' = batch \ {d}
    BY <2>1 DEF Next, LoopStep, InPost, Post, StopCall, StopPush, Wakeup, Open, Close, Run,
       PollNothing, Start, Check, BatchDone, CallbackReturn, Drain, Swap, Exec, ExecDone,
       Dispatch, Destroy, CloseAll, Finished, vars
  <2>3. d = e /\ e # Wake /\ callbacks[e.fd] # 0
    BY <2>2 DEF Dispatch
  <2> QED BY <2>3 DEF TimersInv, EventsInv, Current, Gone
<1> QED BY <1>1, TimersInvariance, PTL DEF Spec, NoStaleEvent

(* ~Reactor: and of the numbers that unreg_fd never gave back it closes    *)
(* those that it was lent, and no other.                                   *)
THEOREM DestructorClosesItsOwn ==
    Spec => [][mpc' = "destroyed" =>
                 \A f \in Fds \ given : callbacks[f] # 0 => own[f] \in {"lent", "doomed"}]_vars
<1>1. IInv /\ CustodyInv /\ TimersInv /\ [Next]_vars =>
          [mpc' = "destroyed" =>
             \A f \in Fds \ given : callbacks[f] # 0 => own[f] \in {"lent", "doomed"}]_vars
  <2> SUFFICES ASSUME IInv, CustodyInv, TimersInv, NEW f \in Fds \ given, callbacks[f] # 0
               PROVE  own[f] \in {"lent", "doomed"}
    OBVIOUS
  <2>1. mpc # "destroyed" /\ own[f] \in {"free", "user", "lent", "doomed"}
    BY DEF TimersInv, OnlyTheirFile, IInv, TypeOK
  <2> QED BY <2>1, NothingLeft DEF TimersInv
<1> QED BY <1>1, TimersInvariance, PTL DEF Spec

================================================================================
