--------------------------- MODULE ConcurrentQueue ---------------------------
(***************************************************************************)
(* ConcurrentQueue<T>: a std::queue behind a mutex, a condition variable   *)
(* for consumers and an atomic closed flag that push reads outside the     *)
(* mutex.  The repository has it twice: async-lab/concurrent_queue.hpp     *)
(* notifies while it holds the mutex, coroutines/concurrent_queue.hpp      *)
(* after it released it; NotifyUnderLock says which one is modelled.       *)
(*                                                                         *)
(* One step is one access to what the threads share: a read of the flag,   *)
(* an acquisition of the mutex, a critical section with its release, a     *)
(* notification made after it.  The critical section of pop is three: the  *)
(* test of the predicate, the atomic release-and-sleep, the removal.       *)
(***************************************************************************)
EXTENDS Sequences, FiniteSets, Naturals

CONSTANTS Threads, Values, NoValue,
          NoThread,         \* the owner of a free mutex
          NotifyUnderLock,  \* TRUE: async-lab, FALSE: coroutines
          MaxCalls,         \* bound: calls each thread makes
          MaxSpurious       \* bound: spurious wakeups

ASSUME ThreadsAssumption == IsFiniteSet(Threads) /\ NoThread \notin Threads
ASSUME ValuesAssumption == NoValue \notin Values
ASSUME VariantAssumption == NotifyUnderLock \in BOOLEAN
ASSUME BoundsAssumption == MaxCalls \in Nat /\ MaxSpurious \in Nat

VARIABLES q,         \* q_
          closed,    \* is_closed_
          owner,     \* who holds mtx_q_
          pc,        \* pc[t]: where thread t is
          arg,       \* arg[t]: the value t pushes, until it is moved into q_
          ret,       \* ret[t]: the result of t's call, once it is decided
          calls,     \* calls[t]: how many calls t made
          spurious   \* how many spurious wakeups happened

vars == <<q, closed, owner, pc, arg, ret, calls, spurious>>

(* The step each operation starts with, and the critical section that each *)
(* place that waits for the mutex leads to.                                *)
Entry == [push |-> "push_check", pop |-> "pop_lock", try_pop |-> "try_lock",
          close |-> "close_lock", empty |-> "empty_lock",
          is_closed |-> "is_closed"]
Section == [push_lock |-> "push_insert", pop_lock |-> "pop_test",
            pop_wake |-> "pop_test", close_lock |-> "close_store",
            empty_lock |-> "empty_read", try_lock |-> "try_test"]
Operations == DOMAIN Entry
Critical == {"push_insert", "pop_test", "pop_sleep", "pop_take", "try_test",
             "close_store", "empty_read"}
Outside == {"idle", "push_check", "push_lock", "push_notify", "pop_lock",
            "pop_wait", "pop_wake", "try_lock", "close_lock", "close_notify",
            "empty_lock", "is_closed"}

Tags == {"none", "pushed", "refused", "popped", "nullopt", "Success", "Empty",
         "Closed", "Busy", "void", "true", "false"}
Result(tag, v) == [tag |-> tag, val |-> v]
Results == [tag : Tags, val : Values \cup {NoValue}]

TypeOK ==
    /\ q \in Seq(Values)
    /\ closed \in BOOLEAN
    /\ owner \in Threads \cup {NoThread}
    /\ pc \in [Threads -> Critical \cup Outside]
    /\ arg \in [Threads -> Values \cup {NoValue}]
    /\ ret \in [Threads -> Results]
    /\ calls \in [Threads -> 0 .. MaxCalls]
    /\ spurious \in 0 .. MaxSpurious

Init ==
    /\ q = <<>> /\ closed = FALSE /\ owner = NoThread
    /\ pc = [t \in Threads |-> "idle"]
    /\ arg = [t \in Threads |-> NoValue]
    /\ ret = [t \in Threads |-> Result("none", NoValue)]
    /\ calls = [t \in Threads |-> 0]
    /\ spurious = 0

At(t, place) == pc[t] = place
Goto(t, place) == pc' = [pc EXCEPT ![t] = place]

(* The call's result is decided; what is left of it, if anything, is place. *)
Decide(t, tag, v, place) ==
    /\ Goto(t, place)
    /\ arg' = [arg EXCEPT ![t] = NoValue]
    /\ ret' = [ret EXCEPT ![t] = Result(tag, v)]

Waiting == {t \in Threads : pc[t] = "pop_wait"}

-----------------------------------------------------------------------------
Call(t, o, v) ==
    /\ At(t, "idle") /\ calls[t] < MaxCalls
    /\ Goto(t, Entry[o])
    /\ arg' = [arg EXCEPT ![t] = v]
    /\ ret' = [ret EXCEPT ![t] = Result("none", NoValue)]
    /\ calls' = [calls EXCEPT ![t] = @ + 1]
    /\ UNCHANGED <<q, closed, owner, spurious>>

(* The constructors of lock_guard and unique_lock, and the end of a wait. *)
Acquire(t) ==
    /\ pc[t] \in DOMAIN Section /\ owner = NoThread
    /\ owner' = t
    /\ Goto(t, Section[pc[t]])
    /\ UNCHANGED <<q, closed, arg, ret, calls, spurious>>

(* Mistake: push moves the value out before it reaches the insertion. *)
PushCheckMoves(t) ==
    /\ At(t, "push_check")
    /\ IF closed THEN Decide(t, "refused", NoValue, "idle")
                 ELSE Decide(t, "none", NoValue, "push_lock")
    /\ UNCHANGED <<q, closed, owner, calls, spurious>>

(* push reads the closed flag before it has the mutex. *)
PushCheck(t) ==
    /\ At(t, "push_check")
    /\ IF closed THEN Decide(t, "refused", NoValue, "idle")
                 ELSE Goto(t, "push_lock") /\ UNCHANGED <<arg, ret>>
    /\ UNCHANGED <<q, closed, owner, calls, spurious>>

(* Mistake: push notifies nobody. *)
NotifyNobody(t) == Goto(t, "idle")

(* notify_one, with the notifier's own move to "idle". *)
NotifyOne(t) ==
    \/ Waiting = {} /\ Goto(t, "idle")
    \/ \E w \in Waiting : pc' = [pc EXCEPT ![w] = "pop_wake", ![t] = "idle"]

PushInsert(t) ==
    /\ At(t, "push_insert")
    /\ q' = Append(q, arg[t])
    /\ owner' = NoThread
    /\ IF NotifyUnderLock THEN NotifyOne(t) ELSE Goto(t, "push_notify")
    /\ arg' = [arg EXCEPT ![t] = NoValue]
    /\ ret' = [ret EXCEPT ![t] = Result("pushed", NoValue)]
    /\ UNCHANGED <<closed, calls, spurious>>

PushNotify(t) ==
    /\ At(t, "push_notify")
    /\ NotifyOne(t)
    /\ UNCHANGED <<q, closed, owner, arg, ret, calls, spurious>>

(* Mistake: pop polls for an item instead of waiting for one or the close. *)
PopTestPolls(t) ==
    /\ At(t, "pop_test")
    /\ IF q = <<>> THEN Goto(t, "pop_lock") /\ owner' = NoThread
                   ELSE Goto(t, "pop_take") /\ UNCHANGED owner
    /\ UNCHANGED <<q, closed, arg, ret, calls, spurious>>

(* The predicate of the wait, under the mutex. *)
PopTest(t) ==
    /\ At(t, "pop_test")
    /\ Goto(t, IF q = <<>> /\ ~closed THEN "pop_sleep" ELSE "pop_take")
    /\ UNCHANGED <<q, closed, owner, arg, ret, calls, spurious>>

(* The wait releases the mutex and falls asleep in one step. *)
PopSleep(t) ==
    /\ At(t, "pop_sleep")
    /\ owner' = NoThread
    /\ Goto(t, "pop_wait")
    /\ UNCHANGED <<q, closed, arg, ret, calls, spurious>>

(* Mistakes: the value stays at the front; a closed queue is not drained.  *)
PopTakeKeeps(t) ==
    /\ At(t, "pop_take")
    /\ owner' = NoThread
    /\ IF q = <<>> /\ closed THEN Decide(t, "nullopt", NoValue, "idle")
                             ELSE Decide(t, "popped", Head(q), "idle")
    /\ UNCHANGED <<q, closed, calls, spurious>>
PopTakeClosed(t) ==
    /\ At(t, "pop_take")
    /\ owner' = NoThread
    /\ IF closed THEN Decide(t, "nullopt", NoValue, "idle") /\ UNCHANGED q
                 ELSE Decide(t, "popped", Head(q), "idle") /\ q' = Tail(q)
    /\ UNCHANGED <<closed, calls, spurious>>

(* What follows the wait; front() of an empty queue would be undefined. *)
PopTake(t) ==
    /\ At(t, "pop_take")
    /\ owner' = NoThread
    /\ IF q = <<>> /\ closed
          THEN Decide(t, "nullopt", NoValue, "idle") /\ UNCHANGED q
          ELSE Decide(t, "popped", Head(q), "idle") /\ q' = Tail(q)
    /\ UNCHANGED <<closed, calls, spurious>>

SpuriousWake(t) ==
    /\ At(t, "pop_wait") /\ spurious < MaxSpurious
    /\ Goto(t, "pop_wake")
    /\ spurious' = spurious + 1
    /\ UNCHANGED <<q, closed, owner, arg, ret, calls>>

(* try_lock fails when the mutex is held, and is allowed to when it is not. *)
TryBusy(t) ==
    /\ At(t, "try_lock")
    /\ Decide(t, "Busy", NoValue, "idle")
    /\ UNCHANGED <<q, closed, owner, calls, spurious>>

(* Mistake: the tests of try_pop in the other order. *)
TryTestEmptyFirst(t) ==
    /\ At(t, "try_test")
    /\ owner' = NoThread
    /\ \/ q = <<>> /\ Decide(t, "Empty", NoValue, "idle") /\ UNCHANGED q
       \/ /\ q # <<>> /\ closed
          /\ Decide(t, "Closed", NoValue, "idle") /\ UNCHANGED q
       \/ /\ q # <<>> /\ ~closed
          /\ q' = Tail(q) /\ Decide(t, "Success", Head(q), "idle")
    /\ UNCHANGED <<closed, calls, spurious>>

TryTest(t) ==
    /\ At(t, "try_test")
    /\ owner' = NoThread
    /\ \/ closed /\ Decide(t, "Closed", NoValue, "idle") /\ UNCHANGED q
       \/ /\ ~closed /\ q = <<>>
          /\ Decide(t, "Empty", NoValue, "idle") /\ UNCHANGED q
       \/ /\ ~closed /\ q # <<>>
          /\ q' = Tail(q) /\ Decide(t, "Success", Head(q), "idle")
    /\ UNCHANGED <<closed, calls, spurious>>

CloseStore(t) ==
    /\ At(t, "close_store")
    /\ closed' = TRUE
    /\ owner' = NoThread
    /\ Decide(t, "void", NoValue, "close_notify")
    /\ UNCHANGED <<q, calls, spurious>>

(* Mistake: close wakes one sleeper instead of all. *)
CloseNotifyOne(t) ==
    /\ At(t, "close_notify")
    /\ NotifyOne(t)
    /\ UNCHANGED <<q, closed, owner, arg, ret, calls, spurious>>

CloseNotify(t) ==
    /\ At(t, "close_notify")
    /\ pc' = [u \in Threads |-> IF u = t THEN "idle"
                                ELSE IF u \in Waiting THEN "pop_wake" ELSE pc[u]]
    /\ UNCHANGED <<q, closed, owner, arg, ret, calls, spurious>>

Truth(b) == IF b THEN "true" ELSE "false"

EmptyRead(t) ==
    /\ At(t, "empty_read")
    /\ owner' = NoThread
    /\ Decide(t, Truth(q = <<>>), NoValue, "idle")
    /\ UNCHANGED <<q, closed, calls, spurious>>

IsClosed(t) ==
    /\ At(t, "is_closed")
    /\ Decide(t, Truth(closed), NoValue, "idle")
    /\ UNCHANGED <<q, closed, owner, calls, spurious>>

-----------------------------------------------------------------------------
CallAny(t) ==
    \/ \E v \in Values : Call(t, "push", v)
    \/ \E o \in Operations \ {"push"} : Call(t, o, NoValue)

(* What a thread that is inside a call and not asleep goes on to do. *)
Step(t) ==
    \/ Acquire(t)
    \/ PushCheck(t) \/ PushInsert(t) \/ PushNotify(t)
    \/ PopTest(t) \/ PopSleep(t) \/ PopTake(t)
    \/ TryBusy(t) \/ TryTest(t)
    \/ CloseStore(t) \/ CloseNotify(t)
    \/ EmptyRead(t) \/ IsClosed(t)

Next == \E t \in Threads : CallAny(t) \/ Step(t) \/ SpuriousWake(t)

Spec == Init /\ [][Next]_vars

-----------------------------------------------------------------------------
(* While somebody sleeps in pop, every item in the queue has a consumer    *)
(* that was woken and has not removed one yet, or a producer that has      *)
(* still to notify: no item is left to a sleeper that nobody will wake.    *)
Helpers ==
    {t \in Threads : pc[t] \in {"pop_wake", "pop_test", "pop_take", "push_notify"}}
NoLostWakeup == Waiting # {} => Len(q) =< Cardinality(Helpers)

(* close's notify_all comes after the store, outside the mutex: whoever    *)
(* sleeps in pop on a closed queue has a close that is about to wake it.   *)
CloseWakesSleepers ==
    closed /\ Waiting # {} => \E t \in Threads : pc[t] = "close_notify"

(* The refinement mapping: a call is open in the channel until the step at *)
(* which the code decides its result.                                      *)
Phase(place) ==
    CASE place = "push_check" -> "push"
      [] place \in {"push_lock", "push_insert"} -> "admitted"
      [] place \in {"pop_lock", "pop_test", "pop_sleep", "pop_wait",
                   "pop_wake", "pop_take"} -> "pop"
      [] place \in {"try_lock", "try_test"} -> "try_pop"
      [] place \in {"close_lock", "close_store"} -> "close"
      [] place \in {"empty_lock", "empty_read"} -> "empty"
      [] place = "is_closed" -> "is_closed"
      [] OTHER -> "idle"

Channel == INSTANCE FifoChannel
             WITH items <- q, op <- [t \in Threads |-> Phase(pc[t])]

(* Values leave in the order they came, none twice, none lost, and every   *)
(* operation takes effect at one step of its own, but push at two: it is   *)
(* admitted at one and inserts at the other, whatever happens in between.  *)
IsFifoChannel == Channel!Spec

(* "After calling this method, no more items can be pushed into the queue" *)
(* (concurrent_queue.hpp:124, of close): once a close has returned, the    *)
(* queue grows no more.                                                    *)
CloseReturned == closed /\ \A t \in Threads : pc[t] # "close_notify"
NoPushAfterClose == [][CloseReturned => Len(q') <= Len(q)]_vars
=============================================================================
