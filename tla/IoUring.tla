------------------------------- MODULE IoUring --------------------------------
(***************************************************************************)
(* EpollWithIOUring::Reactor: what it adds to the epoll reactor (see       *)
(* Reactor), the submission of file operations and the handling of their   *)
(* completions, with its loop, stop and destructor; the awaitables         *)
(* async_io_read and async_io_write, which submit from a coroutine and     *)
(* resume it in the callback; and the FileDescriptor objects whose numbers *)
(* the operations use.                                                     *)
(*                                                                         *)
(* The program is one thread: it submits operations one after the other    *)
(* (itself, or through a coroutine it waits for), and the coroutine may    *)
(* await further ones, which are submitted from the callback, on the       *)
(* reactor's thread.  Nothing locks the ring, next_io_id_ or               *)
(* io_callbacks_.  The handler of completions looks at the first entry of  *)
(* the completion queue, and never marks it as seen.                       *)
(*                                                                         *)
(* submit_io throws when the ring has no entry, or does not take it.  Out  *)
(* of await_suspend, which is noexcept, and out of a callback that error   *)
(* ends the process; out of the program's own call it ends the program,    *)
(* which destroys what it has and submits no more.                         *)
(***************************************************************************)
EXTENDS Sequences, FileDescriptor

CONSTANTS Wake, Ring,  \* the events of wake_fd_ and of ring_fd_
          Main, Loop,  \* the program's thread, the reactor's thread
          MaxMain,     \* bound: operations that the program submits
          MaxIds       \* bound: operations in all

Ids == 1 .. MaxIds
Submitters == {Main, Loop}

ASSUME BoundsAssumption == MaxMain \in Nat /\ MaxIds \in Nat /\ Main # Loop
ASSUME EventsAssumption ==
    /\ Wake # Ring /\ Invalid # Absent
    /\ Invalid \notin Fds \cup Objs /\ Absent \notin Fds /\ Objs \cap Fds = {}
    /\ MaxOpens \in Nat

VARIABLES running,     \* running_
          cmdQ,        \* cmd_q_: how many stops are queued
          wake,        \* the eventfd is readable
          batch,       \* the events that epoll_wait returned
          rpc,         \* where the reactor's thread is
          cur,         \* the id that handle_io_uring_completions has found
          mpc,         \* where the program's thread is
          nextId,      \* next_io_id_
          spc,         \* spc[t]: where t is in submit_io
          sid,         \* sid[t]: the id it took there
          iocb,        \* the ids in io_callbacks_
          kernel,      \* operations that the kernel works on
          cq,          \* the completion queue: ids
          called,      \* called[i]: how often its callback ran
          target,      \* target[i]: the number it is for, and the file
          inUse        \* the object whose number the program's operation uses

reactor == <<running, cmdQ, wake, batch, rpc, cur>>
io == <<nextId, spc, sid, iocb, kernel, cq, called, target>>
vars == <<reactor, mpc, io, inUse, fdVars>>

NoFile == [fd |-> Invalid, gen |-> 0]

TypeOK ==
    /\ running \in BOOLEAN /\ wake \in BOOLEAN /\ cmdQ \in 0 .. 2
    /\ rpc \in {"none", "start", "check", "poll", "dispatch", "drain", "exec",
                "peek", "find", "callback", "resumed", "await", "exited"}
    /\ batch \subseteq {Wake, Ring}
    /\ batch # {} => rpc \notin {"none", "start", "check", "poll", "exited"}
    /\ mpc \in {"free", "push", "wakeup", "stopped", "endpush", "endwakeup", "join",
                "gone", "aborted"}
    /\ nextId \in 1 .. MaxIds + 1 /\ cur \in 0 .. MaxIds
    /\ spc \in [Submitters -> {"idle", "taken", "mapped"}]
    /\ sid \in [Submitters -> 0 .. MaxIds]
    /\ iocb \subseteq Ids /\ kernel \subseteq Ids /\ cq \in Seq(Ids)
    /\ called \in [Ids -> Nat]
    /\ target \in [Ids -> [fd : Fds \cup {Invalid}, gen : 0 .. MaxOpens]]
    /\ inUse \in Objs \cup {Invalid}
    /\ FdTypeOK

Init ==
    /\ running = FALSE /\ wake = FALSE /\ cmdQ = 0 /\ batch = {}
    /\ rpc = "none" /\ mpc = "free" /\ nextId = 1 /\ cur = 0
    /\ spc = [t \in Submitters |-> "idle"] /\ sid = [t \in Submitters |-> 0]
    /\ iocb = {} /\ kernel = {} /\ cq = <<>>
    /\ called = [i \in Ids |-> 0] /\ target = [i \in Ids |-> NoFile]
    /\ inUse = Invalid
    /\ FdInit

-----------------------------------------------------------------------------
(* submit_io, in three steps: an entry of the ring and an id; the callback *)
(* into the map; the entry filled and submitted.                           *)
TakeId(t, n) ==
    /\ spc[t] = "idle" /\ nextId <= MaxIds
    /\ nextId' = nextId + 1
    /\ sid' = [sid EXCEPT ![t] = nextId]
    /\ spc' = [spc EXCEPT ![t] = "taken"]
    /\ target' = [target EXCEPT ![nextId] = [fd |-> n, gen |-> file[n]]]
    /\ UNCHANGED <<iocb, kernel, cq, called>>

Advance(t, from, to) == spc[t] = from /\ spc' = [spc EXCEPT ![t] = to]
ToMap(t) == iocb' = iocb \cup {sid[t]} /\ UNCHANGED kernel
ToKernel(t) == kernel' = kernel \cup {sid[t]} /\ UNCHANGED iocb

(* Mistake: the callback enters the map after the submission. *)
SubmitFirst(t) ==
    /\ \/ Advance(t, "taken", "mapped") /\ ToKernel(t)
       \/ Advance(t, "mapped", "idle") /\ ToMap(t)
    /\ UNCHANGED <<reactor, mpc, nextId, sid, cq, called, target,
                   inUse, fdVars>>

InSubmit(t) ==
    /\ \/ Advance(t, "taken", "mapped") /\ ToMap(t)
       \/ Advance(t, "mapped", "idle") /\ ToKernel(t)
    /\ UNCHANGED <<reactor, mpc, nextId, sid, cq, called, target,
                   inUse, fdVars>>

(* The submission fails: the callback stays in the map, the entry in the   *)
(* ring, and the exception goes to the caller.                             *)
Throw(t) ==
    \/ mpc' = "aborted" /\ UNCHANGED inUse
    \/ t = Main /\ mpc' = "stopped" /\ inUse' = Invalid

NotSubmitted(t) ==
    /\ Advance(t, "mapped", "idle") /\ Throw(t)
    /\ UNCHANGED <<reactor, nextId, sid, iocb, kernel, cq, called, target, fdVars>>

(* The kernel completes an operation; a failed one completes the same way. *)
Complete(i) ==
    /\ i \in kernel
    /\ kernel' = kernel \ {i} /\ cq' = Append(cq, i)
    /\ UNCHANGED <<reactor, mpc, nextId, spc, sid, iocb, called, target,
                   inUse, fdVars>>

-----------------------------------------------------------------------------
(* The program.  While it waits for an operation it leaves alone the       *)
(* object that the operation uses, and neither submits nor stops.          *)
Waiting == inUse # Invalid
MainFree == mpc \in {"free", "stopped"} /\ spc[Main] = "idle"

UseFiles ==
    /\ MainFree
    /\ \/ \E x \in Objs, n \in Fds : Construct(x, n)
       \/ \E x \in Objs \ {inUse} : \/ Release(x) \/ CloseFd(x) \/ DestroyFd(x)
                                    \/ \E y \in Objs \ {inUse} :
                                          MoveConstruct(x, y) \/ MoveAssign(x, y)
       \/ \E n \in Fds : CloseRaw(n)
    /\ UNCHANGED <<reactor, mpc, io, inUse>>

MaySubmit(x) ==
    /\ MainFree /\ mpc = "free" /\ ~Waiting /\ nextId <= MaxMain
    /\ obj[x] \in Fds

Submit(x) ==
    /\ MaySubmit(x)
    /\ TakeId(Main, obj[x])
    /\ inUse' = x
    /\ UNCHANGED <<reactor, mpc, fdVars>>

(* The ring has no entry for the program, or for the coroutine: submit_io  *)
(* throws before it has changed anything.                                  *)
NoEntry ==
    /\ \/ (\E x \in Objs : MaySubmit(x)) /\ Throw(Main)
       \/ rpc = "resumed" /\ Throw(Loop)
    /\ UNCHANGED <<reactor, io, fdVars>>

Run ==
    /\ rpc = "none" /\ MainFree
    /\ rpc' = "start"
    /\ UNCHANGED <<running, cmdQ, wake, batch, cur, mpc, io, inUse, fdVars>>

StopCall ==
    /\ MainFree /\ mpc = "free" /\ ~Waiting
    /\ running' = FALSE /\ mpc' = "push"
    /\ UNCHANGED <<cmdQ, wake, batch, rpc, cur, io, inUse, fdVars>>

(* stop() again, as the destructor calls it, ends in the join. *)
StopPush ==
    /\ mpc \in {"push", "endpush"}
    /\ cmdQ' = cmdQ + 1
    /\ mpc' = IF mpc = "push" THEN "wakeup" ELSE "endwakeup"
    /\ UNCHANGED <<running, wake, batch, rpc, cur, io, inUse, fdVars>>

Wakeup ==
    /\ mpc \in {"wakeup", "endwakeup"}
    /\ wake' = TRUE
    /\ mpc' = IF mpc = "wakeup" THEN "stopped" ELSE "join"
    /\ UNCHANGED <<running, cmdQ, batch, rpc, cur, io, inUse, fdVars>>

Destroy ==
    /\ MainFree /\ ~Waiting
    /\ mpc' = IF running THEN "endpush" ELSE "join"
    /\ running' = FALSE
    /\ UNCHANGED <<cmdQ, wake, batch, rpc, cur, io, inUse, fdVars>>

(* The join, and io_uring_queue_exit. *)
Join ==
    /\ mpc = "join" /\ rpc \in {"none", "exited"}
    /\ mpc' = "gone" /\ kernel' = {} /\ cq' = <<>>
    /\ UNCHANGED <<reactor, nextId, spc, sid, iocb, called, target,
                   inUse, fdVars>>

Alive == mpc # "aborted"
Finished == mpc \in {"gone", "aborted"} /\ UNCHANGED vars

-----------------------------------------------------------------------------
(* The reactor's thread. *)
GoTo(from, to) == rpc = from /\ rpc' = to

Start ==
    /\ GoTo("start", "check")
    /\ running' = TRUE
    /\ UNCHANGED <<cmdQ, wake, batch, cur, mpc, io, inUse, fdVars>>

Check ==
    /\ GoTo("check", IF running THEN "poll" ELSE "exited")
    /\ UNCHANGED <<running, cmdQ, wake, batch, cur, mpc, io, inUse, fdVars>>

(* Mistake: epoll is not told of the ring. *)
PollNoRing ==
    /\ GoTo("poll", "dispatch") /\ wake
    /\ batch' = {Wake}
    /\ UNCHANGED <<running, cmdQ, wake, cur, mpc, io, inUse, fdVars>>

Poll ==
    /\ GoTo("poll", "dispatch") /\ (wake \/ cq # <<>>)
    /\ batch' = (IF wake THEN {Wake} ELSE {}) \cup (IF cq # <<>> THEN {Ring} ELSE {})
    /\ UNCHANGED <<running, cmdQ, wake, cur, mpc, io, inUse, fdVars>>

PollNothing ==
    /\ GoTo("poll", "check") /\ ~wake /\ cq = <<>>
    /\ UNCHANGED <<running, cmdQ, wake, batch, cur, mpc, io, inUse, fdVars>>

Dispatch(e) ==
    /\ e \in batch /\ GoTo("dispatch", IF e = Wake THEN "drain" ELSE "peek")
    /\ batch' = batch \ {e}
    /\ UNCHANGED <<running, cmdQ, wake, cur, mpc, io, inUse, fdVars>>

(* Mistake: the loop leaves the batch as soon as it is stopped. *)
BatchDoneOnStop ==
    /\ GoTo("dispatch", "check") /\ (batch = {} \/ ~running)
    /\ UNCHANGED <<running, cmdQ, wake, batch, cur, mpc, io, inUse, fdVars>>

BatchDone ==
    /\ GoTo("dispatch", "check") /\ batch = {}
    /\ UNCHANGED <<running, cmdQ, wake, batch, cur, mpc, io, inUse, fdVars>>

Drain ==
    /\ GoTo("drain", "exec")
    /\ wake' = FALSE
    /\ UNCHANGED <<running, cmdQ, batch, cur, mpc, io, inUse, fdVars>>

(* The queue is taken, and each stop in it executed. *)
Exec ==
    /\ GoTo("exec", "dispatch")
    /\ cmdQ' = 0 /\ running' = (running /\ cmdQ = 0)
    /\ UNCHANGED <<wake, batch, cur, mpc, io, inUse, fdVars>>

(* The handler of completions ends when the queue is empty. *)
Peek ==
    /\ GoTo("peek", IF cq # <<>> THEN "find" ELSE "dispatch")
    /\ UNCHANGED <<running, cmdQ, wake, batch, cur, mpc, io, inUse, fdVars>>

(* Mistake: the callback is not erased. *)
FindKeeps ==
    /\ GoTo("find", IF Head(cq) \in iocb THEN "callback" ELSE "peek")
    /\ cur' = Head(cq)
    /\ UNCHANGED <<running, cmdQ, wake, batch, mpc, io, inUse, fdVars>>

(* The callback of the first entry is taken out of the map; the entry      *)
(* stays where it is.                                                      *)
Find ==
    /\ GoTo("find", IF Head(cq) \in iocb THEN "callback" ELSE "peek")
    /\ cur' = Head(cq) /\ iocb' = iocb \ {Head(cq)}
    /\ UNCHANGED <<running, cmdQ, wake, batch, mpc, nextId, spc, sid, kernel, cq,
                   called, target, inUse, fdVars>>

(* The awaiter's callback stores the outcome, whatever it is, and resumes  *)
(* the coroutine.                                                          *)
Callback ==
    /\ GoTo("callback", "resumed")
    /\ called' = [called EXCEPT ![cur] = @ + 1]
    /\ UNCHANGED <<running, cmdQ, wake, batch, cur, mpc, nextId, spc, sid, iocb,
                   kernel, cq, target, inUse, fdVars>>

(* The coroutine awaits a further operation on the same descriptor, ... *)
AwaitNext ==
    /\ GoTo("resumed", "await")
    /\ TakeId(Loop, obj[inUse])
    /\ UNCHANGED <<running, cmdQ, wake, batch, cur, mpc, inUse, fdVars>>

CallbackReturn ==
    /\ GoTo("await", "peek") /\ spc[Loop] = "idle"
    /\ UNCHANGED <<running, cmdQ, wake, batch, cur, mpc, io, inUse, fdVars>>

(* ... or ends, and with it the program's wait. *)
CoroutineEnds ==
    /\ GoTo("resumed", "peek")
    /\ inUse' = Invalid
    /\ UNCHANGED <<running, cmdQ, wake, batch, cur, mpc, io, fdVars>>

-----------------------------------------------------------------------------
LoopStep ==
    \/ Start \/ Check \/ Poll \/ BatchDone \/ Drain \/ Exec
    \/ Peek \/ Find \/ Callback \/ AwaitNext \/ CallbackReturn \/ CoroutineEnds
    \/ \E e \in batch : Dispatch(e)

MainStep == InSubmit(Main) \/ StopPush \/ Wakeup \/ Join

Next ==
    \/ /\ Alive
       /\ \/ UseFiles \/ Run \/ StopCall \/ Destroy \/ MainStep
          \/ \E x \in Objs : Submit(x)
          \/ \E t \in Submitters : NotSubmitted(t)
          \/ \E i \in Ids : Complete(i)
          \/ LoopStep \/ PollNothing \/ InSubmit(Loop) \/ NoEntry
    \/ Finished

Spec == Init /\ [][Next]_vars

(* A call returns, the reactor's thread goes on, the kernel completes. *)
FairSpec ==
    /\ Spec
    /\ WF_vars(Alive /\ (LoopStep \/ InSubmit(Loop))) /\ WF_vars(Alive /\ MainStep)
    /\ \A i \in Ids : WF_vars(Alive /\ Complete(i))

-----------------------------------------------------------------------------
(* "Public API (thread-safe)" (reactor.hpp:434), the heading of the        *)
(* section with read_file and write_file: nobody is about to put a         *)
(* callback into io_callbacks_ while the reactor's thread looks one up     *)
(* there.  It does not hold: the handler looks up the same completion over *)
(* and over, also while the program submits its next operation.            *)
MapPending(t) == spc[t] # "idle" /\ sid[t] \notin iocb
NoRace == rpc = "find" => \A t \in Submitters : ~MapPending(t)

(* That is the only race of a program that waits for each operation: the   *)
(* lookup is of a completion whose callback ran, and would not be made if  *)
(* completions were marked as seen.  No callback is taken out of the map   *)
(* while another is put in, and only one thread is in submit_io.           *)
OnlyRepeatedLookupRaces ==
    /\ \A t \in Submitters :
          rpc = "find" /\ MapPending(t) => t = Main /\ called[Head(cq)] # 0
    /\ \E t \in Submitters : spc[t] = "idle"

(* A callback runs once, although its completion stays in the queue. *)
CallbackOnce == \A i \in Ids : called[i] <= 1

(* Until an operation has completed, its number stands for the file it was *)
(* submitted for, whatever the program does with its other objects.        *)
UsesOwnFile ==
    \A i \in Ids :
        i \in kernel \/ (\E t \in Submitters : spc[t] # "idle" /\ sid[t] = i) =>
            target[i].gen # 0 /\ file[target[i].fd] = target[i].gen

(* The first operation is completed by its callback, unless the loop ends. *)
FirstOperationCompletes ==
    (1 \in kernel /\ rpc # "none") ~> (called[1] # 0 \/ rpc = "exited")

(* "Stop the reactor loop" (reactor.hpp:487): a stop ends the loop, unless *)
(* the process has ended.                                                  *)
StopEndsLoop == (rpc # "none" /\ cmdQ # 0) ~> (rpc = "exited" \/ ~Alive)
=============================================================================
