----------------------------- MODULE IoAwaitables -----------------------------
(***************************************************************************)
(* Coroutines that await reads, writes and timers, one after the other,    *)
(* over the epoll reactor as EventLoop describes it: async_read and        *)
(* async_write on the ends of socket pairs, and add_timer with the awaiter *)
(* `timeout' of reactor_epoll_tests.cpp.                                   *)
(* await_suspend adds a descriptor with a callback that holds the awaiter  *)
(* and the coroutine; the callback does the read or the write and resumes  *)
(* the coroutine on the reactor's thread; await_resume gives the           *)
(* descriptor back, but for a read that failed, which leaves it registered.*)
(* A coroutine starts on a thread of its own and goes on in the callbacks. *)
(* After a failure it tries again, or closes the descriptor and ends.      *)
(***************************************************************************)
EXTENDS Naturals, Sequences

CONSTANTS Sockets,   \* the ends of the socket pairs
          Peer,      \* Peer[f]: the other end
          Timers,    \* the numbers that timerfd_create gives
          Coros,     \* the coroutines
          Plan,      \* Plan[c]: the operations that c awaits, in order
          None,      \* no callback, no number
          MaxFaults  \* bound: operations that fail without a reason

Fds == Sockets \cup Timers

ASSUME PlanAssumption ==
    /\ \A f \in Sockets : Peer[f] \in Sockets \ {f} /\ Peer[Peer[f]] = f
    /\ Sockets \cap Timers = {} /\ None \notin Fds
    /\ \A c \in Coros : Plan[c] \in Seq([kind : {"read", "write"}, fd : Sockets]
                                        \cup [kind : {"timer"}, fd : Timers])
    /\ MaxFaults \in Nat

(* An awaiter is an object in the coroutine's frame, one for each attempt. *)
Awaiters == UNION {[co : {c}, op : DOMAIN Plan[c], try : 0 .. MaxFaults] : c \in Coros}
ASSUME AwaiterAssumption == None \notin Awaiters

VARIABLES pending, callbacks, armed, open, events, calling, \* see EventLoop
          at,      \* at[c]: where the coroutine is
          op, try, \* the operation it is at, and the attempt
          outcome, \* what the last operation returned, "none": on its own thread
          inbox,   \* inbox[f]: there is something to read from f
          ticking, \* timers that have not expired
          timerFd, \* timerFd[c]: timer_fd_ of the awaiter of c
          tail,    \* awaiters whose await_suspend has timer_fd_ to assign
          early,   \* coroutines that read timer_fd_ before it was assigned
          refused, \* coroutines whose add failed: their callbacks are dropped
          faults   \* operations that failed without a reason so far

Commands ==
    [type : {"Add"}, fd : Fds, tag : Awaiters, mode : {"oneshot", "level"}]
    \cup [type : {"Unreg", "Del"}, fd : Fds, tag : {None}, mode : {"none"}]

INSTANCE EventLoop WITH Tags <- Awaiters, NoTag <- None

table == <<pending, callbacks, armed, open, events, calling>>
coroutines == <<at, op, try, outcome>>
timers == <<ticking, timerFd, tail, early>>
vars == <<table, coroutines, timers, inbox, refused, faults>>

TypeOK ==
    /\ pending \in Seq(Commands)
    /\ callbacks \in [Fds -> Awaiters \cup {None}]
    /\ armed \in [Fds -> Interests]
    /\ open \subseteq Fds /\ events \subseteq Fds /\ calling \in BOOLEAN
    /\ at \in [Coros -> {"running", "arming", "suspended", "resumed", "failed", "done"}]
    /\ op \in [Coros -> Nat \ {0}] /\ \A c \in Coros : op[c] <= Len(Plan[c]) + 1
    /\ try \in [Coros -> 0 .. MaxFaults]
    /\ outcome \in [Coros -> {"none", "ok", "error"}]
    /\ inbox \in [Fds -> BOOLEAN]
    /\ ticking \subseteq Timers /\ timerFd \in [Coros -> Timers \cup {None}]
    /\ tail \subseteq Awaiters /\ early \subseteq Coros
    /\ refused \subseteq Coros /\ faults \in 0 .. MaxFaults
    /\ \A c \in Coros : outcome[c] # "none" /\ at[c] \notin {"suspended", "done"} => calling

Init ==
    /\ pending = <<>> /\ events = {} /\ calling = FALSE /\ open = Sockets
    /\ callbacks = [f \in Fds |-> None]
    /\ armed = [f \in Fds |-> "off"]
    /\ at = [c \in Coros |-> "running"]
    /\ op = [c \in Coros |-> 1] /\ try = [c \in Coros |-> 0]
    /\ outcome = [c \in Coros |-> "none"]
    /\ inbox = [f \in Fds |-> FALSE]
    /\ ticking = {} /\ timerFd = [c \in Coros |-> None] /\ tail = {} /\ early = {}
    /\ refused = {} /\ faults = 0

-----------------------------------------------------------------------------
Operation(a) == Plan[a.co][a.op]
Awaiter(c) == [co |-> c, op |-> op[c], try |-> try[c]]
Current(c) == Operation(Awaiter(c))

(* What epoll reports: data or a hangup, an expired timer; a write can     *)
(* always go.                                                              *)
Possible(o) ==
    \/ o.kind = "write" \/ inbox[o.fd]
    \/ o.kind = "read" /\ Peer[o.fd] \notin open
ReadyFds == {f \in Fds : armed[f] \in Modes /\ Possible(Operation(callbacks[f]))}

(* The coroutine runs: on its own thread, or in a callback of the reactor. *)
Going(c, kinds) ==
    at[c] = "running" /\ op[c] <= Len(Plan[c]) /\ Current(c).kind \in kinds

Suspend(c) ==
    /\ Going(c, {"read", "write"})
    /\ Post(Add(Current(c).fd, Awaiter(c), "oneshot"))
    /\ at' = [at EXCEPT ![c] = "suspended"]
    /\ UNCHANGED <<op, try, outcome, timers, inbox, refused, faults>>

(* add_timer: timerfd_create and timerfd_settime, then add_fd; what it     *)
(* returns is assigned to timer_fd_ when the callback may already run.     *)
MakeTimer(c) ==
    /\ Going(c, {"timer"})
    /\ LET f == Current(c).fd IN
       OpenFd(f) /\ ticking' = ticking \cup {f} /\ inbox' = [inbox EXCEPT ![f] = FALSE]
    /\ at' = [at EXCEPT ![c] = "arming"]
    /\ UNCHANGED <<op, try, outcome, timerFd, tail, early, refused, faults>>

ArmTimer(c) ==
    /\ at[c] = "arming"
    /\ Post(Add(Current(c).fd, Awaiter(c), "level"))
    /\ at' = [at EXCEPT ![c] = "suspended"]
    /\ tail' = tail \cup {Awaiter(c)}
    /\ UNCHANGED <<op, try, outcome, ticking, timerFd, early, inbox, refused, faults>>

(* If the awaiter is gone the assignment goes to a place in the frame that *)
(* is unused, or the next awaiter's.                                       *)
Assign(a) ==
    LET c == a.co
        alive == a = Awaiter(c) /\ at[c] \in {"suspended", "resumed"} IN
    /\ a \in tail
    /\ tail' = tail \ {a}
    /\ \/ timerFd' = [timerFd EXCEPT ![c] = Operation(a).fd]
       \/ ~alive /\ timerFd' = timerFd
    /\ UNCHANGED <<table, coroutines, ticking, early, inbox, refused, faults>>

Expire(f) ==
    /\ f \in ticking
    /\ ticking' = ticking \ {f} /\ inbox' = [inbox EXCEPT ![f] = TRUE]
    /\ UNCHANGED <<table, coroutines, timerFd, tail, early, refused, faults>>

(* Mistakes: the descriptor of a write that succeeded is not given back;   *)
(* the timer is not deleted.                                               *)
GiveBackNoWrite(c) ==
    LET o == Current(c) IN
    IF o.kind = "timer"
      THEN IF timerFd[c] # None THEN Post(Del(timerFd[c])) ELSE UNCHANGED table
      ELSE IF outcome[c] # "error" /\ o.kind = "read" THEN Post(Unreg(o.fd))
                                                      ELSE UNCHANGED table
GiveBackNoTimer(c) ==
    LET o == Current(c) IN
    IF o.kind # "timer" /\ ~(o.kind = "read" /\ outcome[c] = "error")
      THEN Post(Unreg(o.fd)) ELSE UNCHANGED table

(* What await_resume posts. *)
GiveBack(c) ==
    LET o == Current(c) IN
    IF o.kind = "timer"
      THEN IF timerFd[c] # None THEN Post(Del(timerFd[c])) ELSE UNCHANGED table
      ELSE IF o.kind = "read" /\ outcome[c] = "error" THEN UNCHANGED table
                                                      ELSE Post(Unreg(o.fd))

AwaitResume(c) ==
    /\ at[c] = "resumed"
    /\ GiveBack(c)
    /\ IF outcome[c] = "ok"
         THEN /\ at' = [at EXCEPT ![c] = "running"]
              /\ op' = [op EXCEPT ![c] = @ + 1]
              /\ try' = [try EXCEPT ![c] = 0]
         ELSE at' = [at EXCEPT ![c] = "failed"] /\ UNCHANGED <<op, try>>
    /\ early' = IF Current(c).kind = "timer" /\ Awaiter(c) \in tail
                  THEN early \cup {c} ELSE early
    /\ timerFd' = [timerFd EXCEPT ![c] = None]
    /\ UNCHANGED <<outcome, ticking, tail, inbox, refused, faults>>

Retry(c) ==
    /\ at[c] = "failed" /\ try[c] < MaxFaults
    /\ at' = [at EXCEPT ![c] = "running"]
    /\ try' = [try EXCEPT ![c] = @ + 1]
    /\ UNCHANGED <<table, op, outcome, timers, inbox, refused, faults>>

GiveUp(c) ==
    /\ at[c] = "failed"
    /\ LET f == Current(c).fd IN IF f \in open THEN CloseFd(f) ELSE UNCHANGED table
    /\ at' = [at EXCEPT ![c] = "done"]
    /\ UNCHANGED <<op, try, outcome, timers, inbox, refused, faults>>

End(c) ==
    /\ at[c] = "running" /\ op[c] > Len(Plan[c])
    /\ at' = [at EXCEPT ![c] = "done"]
    /\ UNCHANGED <<table, op, try, outcome, timers, inbox, refused, faults>>

-----------------------------------------------------------------------------
(* The reactor's thread: it executes commands, and an add that fails drops *)
(* its callback; it collects events; it runs the callback of an event.     *)
ExecuteCommand ==
    /\ Execute
    /\ LET c == Head(pending) IN
       refused' = IF c.type = "Add" /\ ~Accepted(c) THEN refused \cup {c.tag.co} ELSE refused
    /\ UNCHANGED <<coroutines, timers, inbox, faults>>

Poll ==
    /\ \E ready \in SUBSET ReadyFds : ready # {} /\ Collect(ready)
    /\ UNCHANGED <<coroutines, timers, inbox, refused, faults>>

(* The read or the write of the callback: a write fails when the peer is   *)
(* closed, either one when its own end is, and now and then without that.  *)
CanSucceed(o) ==
    o.fd \in open /\ Possible(o) /\ (o.kind = "write" => Peer[o.fd] \in open)

Transfer(o, result) ==
    IF result = "ok"
      THEN /\ CanSucceed(o)
           /\ inbox' = IF o.kind = "write" THEN [inbox EXCEPT ![Peer[o.fd]] = TRUE]
                                           ELSE [inbox EXCEPT ![o.fd] = FALSE]
           /\ faults' = faults
      ELSE /\ o.kind # "timer"
           /\ faults' = IF CanSucceed(o) THEN faults + 1 ELSE faults
           /\ faults' <= MaxFaults
           /\ inbox' = inbox

(* Mistake: the callback of a failed operation resumes nobody. *)
ResumeUnlessError(a, result) ==
    /\ outcome' = [outcome EXCEPT ![a.co] = result]
    /\ at' = IF result = "ok" THEN [at EXCEPT ![a.co] = "resumed"] ELSE at
    /\ UNCHANGED <<op, try>>

Resume(a, result) ==
    /\ outcome' = [outcome EXCEPT ![a.co] = result]
    /\ at' = [at EXCEPT ![a.co] = "resumed"]
    /\ UNCHANGED <<op, try>>

Callback(f) ==
    /\ Dispatch(f)
    /\ IF callbacks[f] = None
         THEN UNCHANGED <<coroutines, inbox, faults>>
         ELSE \E result \in {"ok", "error"} :
                 /\ Transfer(Operation(callbacks[f]), result)
                 /\ Resume(callbacks[f], result)
    /\ UNCHANGED <<timers, refused>>

(* Mistake: the coroutine goes on by itself, the callback is done at once. *)
ReturnAtOnce ==
    /\ CallbackReturn
    /\ UNCHANGED <<coroutines, timers, inbox, refused, faults>>

(* The callback returns when the coroutine it resumed suspends or ends; a  *)
(* timer that was made in the callback is assigned there.                  *)
Return ==
    /\ \A c \in Coros : outcome[c] # "none" => at[c] \in {"suspended", "done"}
    /\ \A a \in tail : a.op = 1
    /\ CallbackReturn
    /\ UNCHANGED <<coroutines, timers, inbox, refused, faults>>

LoopStep == ExecuteCommand \/ Poll \/ Return \/ \E f \in Fds : Callback(f)
CoroutineStep(c) ==
    \/ Suspend(c) \/ MakeTimer(c) \/ ArmTimer(c) \/ AwaitResume(c) \/ Retry(c)
    \/ GiveUp(c) \/ End(c)

Next ==
    \/ LoopStep
    \/ \E c \in Coros : CoroutineStep(c)
    \/ \E a \in tail : Assign(a)
    \/ \E f \in Timers : Expire(f)

Spec == Init /\ [][Next]_vars

(* The reactor's thread goes on, coroutines and await_suspend do, timers   *)
(* expire.                                                                 *)
FairSpec ==
    /\ Spec
    /\ WF_vars(LoopStep)
    /\ \A c \in Coros : WF_vars(CoroutineStep(c))
    /\ WF_vars(\E a \in tail : Assign(a))
    /\ \A f \in Timers : WF_vars(Expire(f))

-----------------------------------------------------------------------------
Suspended(c) == at[c] = "suspended"
Descriptor(c) == Current(c).fd

(* A callback writes into the awaiter it was made for and resumes the      *)
(* coroutine (io_awaitables.hpp:45-49): the coroutine is suspended at just *)
(* that operation, or the awaiter is gone.                                 *)
ResumesItsAwaiter ==
    [][\A f \in events \ events' :
          LET a == callbacks[f] IN
          calling' => Suspended(a.co) /\ a = Awaiter(a.co) /\ Descriptor(a.co) = f]_vars

(* A suspended coroutine that was not refused is on its way back: its add  *)
(* is queued, or its callback is registered and the interest armed, or the *)
(* event collected.  Another coroutine's add, removal or event never takes *)
(* that away; only closing the descriptor under it does.                   *)
Queued(c) == \E i \in DOMAIN pending : pending[i].type = "Add" /\ pending[i].tag = Awaiter(c)
NoAwaiterForgotten ==
    \A c \in Coros : Suspended(c) /\ c \notin refused =>
        LET f == Descriptor(c) IN
        \/ Queued(c)
        \/ callbacks[f] = Awaiter(c) /\ (armed[f] \in Modes \/ f \in events)
        \/ f \notin open

(* An add is refused only when two coroutines await one descriptor, when   *)
(* it is closed, or when a read that failed is tried again: then the       *)
(* registration of the failed attempt is still there.                      *)
OnlyClashesAreRefused ==
    [][\A c \in refused' \ refused :
          LET f == Descriptor(c) holder == callbacks[f] IN
          \/ f \notin open
          \/ holder # None /\ holder.co # c
          \/ /\ holder # None /\ holder.op = op[c] /\ holder.try < try[c]
             /\ Operation(holder).kind = "read"]_vars

(* A timer that was made is awaited, or its removal is queued, or it is    *)
(* closed; but for a coroutine that was resumed before its own thread had  *)
(* assigned timer_fd_ (reactor_epoll_tests.cpp:99): its timers may stay    *)
(* open.  That happens only to the first await, and only to a timer.       *)
Awaited(f) == \E c \in Coros : at[c] \in {"arming", "suspended", "resumed"} /\ Descriptor(c) = f
Deleted(f) == \E i \in DOMAIN pending : pending[i] = Del(f)
NoTimerForgotten ==
    /\ \A f \in Timers \cap open :
          Awaited(f) \/ Deleted(f) \/ \E c \in early : \E o \in DOMAIN Plan[c] : Plan[c][o].fd = f
    /\ \A c \in early : Plan[c][1].kind = "timer"

(* An operation that can be done is done and its coroutine resumed, unless *)
(* the add was refused or the descriptor closed.                           *)
CanGoOn(c) ==
    Suspended(c) /\ c \notin refused /\ Descriptor(c) \in open /\ Possible(Current(c))
ReadyIsResumed == \A c \in Coros : CanGoOn(c) ~> ~CanGoOn(c)
=============================================================================
