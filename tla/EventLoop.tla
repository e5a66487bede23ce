------------------------------ MODULE EventLoop -------------------------------
(***************************************************************************)
(* What the epoll reactor promises to those that use it: commands are      *)
(* executed one at a time in the order they were posted, between callbacks *)
(* and never during one; a callback runs only for a collected event, and   *)
(* it is the one registered when the event is dispatched; an interest      *)
(* that is one-shot is disabled by the event; an add meets with success    *)
(* only on an open descriptor without an interest.  Reactor implements it  *)
(* (IsEventLoop), IoAwaitables builds on it.                               *)
(***************************************************************************)
EXTENDS Sequences

CONSTANTS Fds,     \* descriptor numbers
          Tags,    \* what callbacks are told apart by
          NoTag,   \* no callback
          Commands \* the commands that are posted

VARIABLES pending,    \* the commands posted and not executed
          callbacks,  \* the callback registered for a descriptor
          armed,      \* the interest in a descriptor
          open,       \* the descriptors that are open
          events,     \* the descriptors whose events are collected
          calling     \* a callback is running

loop == <<pending, callbacks, armed, open, events, calling>>

Modes == {"level", "oneshot"}
Interests == Modes \cup {"off", "disabled"}

(* Add registers fd with a callback, Mod changes the interest, Del removes *)
(* and closes fd, Unreg removes it; Stop concerns the loop alone.          *)
Add(f, tag, mode) == [type |-> "Add", fd |-> f, tag |-> tag, mode |-> mode]
Unreg(f) == [type |-> "Unreg", fd |-> f, tag |-> NoTag, mode |-> "none"]
Del(f) == [type |-> "Del", fd |-> f, tag |-> NoTag, mode |-> "none"]

LoopInit ==
    /\ pending = <<>> /\ events = {} /\ calling = FALSE /\ open = {}
    /\ callbacks = [f \in Fds |-> NoTag]
    /\ armed = [f \in Fds |-> "off"]

-----------------------------------------------------------------------------
Post(c) ==
    /\ pending' = Append(pending, c)
    /\ UNCHANGED <<callbacks, armed, open, events, calling>>

(* The program opens a descriptor, or closes one, which ends the interest. *)
OpenFd(f) ==
    /\ f \notin open
    /\ open' = open \cup {f}
    /\ UNCHANGED <<pending, callbacks, armed, events, calling>>

CloseFd(f) ==
    /\ f \in open
    /\ open' = open \ {f}
    /\ armed' = [armed EXCEPT ![f] = "off"]
    /\ UNCHANGED <<pending, callbacks, events, calling>>

Accepted(c) == c.fd \in open /\ armed[c.fd] = "off"

DoAdd(c) ==
    /\ c.type = "Add"
    /\ IF Accepted(c)
         THEN /\ armed' = [armed EXCEPT ![c.fd] = c.mode]
              /\ callbacks' = [callbacks EXCEPT ![c.fd] = c.tag]
         ELSE UNCHANGED <<armed, callbacks>>
    /\ UNCHANGED open

DoMod(c) ==
    /\ c.type = "Mod"
    /\ armed' = [armed EXCEPT ![c.fd] = IF @ = "off" THEN @ ELSE c.mode]
    /\ UNCHANGED <<callbacks, open>>

DoRemove(c) ==
    /\ c.type \in {"Del", "Unreg"}
    /\ armed' = [armed EXCEPT ![c.fd] = "off"]
    /\ callbacks' = [callbacks EXCEPT ![c.fd] = NoTag]
    /\ open' = IF c.type = "Del" THEN open \ {c.fd} ELSE open

DoStop(c) == c.type = "Stop" /\ UNCHANGED <<armed, callbacks, open>>

Execute ==
    /\ ~calling /\ pending # <<>>
    /\ LET c == Head(pending) IN DoAdd(c) \/ DoMod(c) \/ DoRemove(c) \/ DoStop(c)
    /\ pending' = Tail(pending)
    /\ UNCHANGED <<events, calling>>

(* Mistake: a one-shot interest stays armed. *)
CollectLevel(ready) ==
    /\ ~calling /\ events = {}
    /\ \A f \in ready : armed[f] \in Modes
    /\ events' = ready
    /\ UNCHANGED <<pending, callbacks, armed, open, calling>>

Collect(ready) ==
    /\ ~calling /\ events = {}
    /\ \A f \in ready : armed[f] \in Modes
    /\ events' = ready
    /\ armed' = [f \in Fds |-> IF f \in ready /\ armed[f] = "oneshot"
                                 THEN "disabled" ELSE armed[f]]
    /\ UNCHANGED <<pending, callbacks, open, calling>>

(* Mistake: the loop leaves the batch after a callback. *)
DispatchLast(f) ==
    /\ ~calling /\ f \in events
    /\ events' = {}
    /\ calling' = (callbacks[f] # NoTag)
    /\ UNCHANGED <<pending, callbacks, armed, open>>

Dispatch(f) ==
    /\ ~calling /\ f \in events
    /\ events' = events \ {f}
    /\ calling' = (callbacks[f] # NoTag)
    /\ UNCHANGED <<pending, callbacks, armed, open>>

CallbackReturn ==
    /\ calling /\ calling' = FALSE
    /\ UNCHANGED <<pending, callbacks, armed, open, events>>

(* The destructor closes what is registered. *)
CloseAll ==
    /\ ~calling /\ events = {}
    /\ open' = {f \in open : callbacks[f] = NoTag}
    /\ callbacks' = [f \in Fds |-> NoTag]
    /\ armed' = [f \in Fds |-> "off"]
    /\ UNCHANGED <<pending, events, calling>>

LoopNext ==
    \/ \E c \in Commands : Post(c)
    \/ \E f \in Fds : OpenFd(f) \/ CloseFd(f) \/ Dispatch(f)
    \/ Execute \/ CallbackReturn \/ CloseAll
    \/ \E ready \in SUBSET Fds : Collect(ready)

LoopSpec == LoopInit /\ [][LoopNext]_loop
=============================================================================
