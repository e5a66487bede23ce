----------------------------- MODULE FifoChannel -----------------------------
(***************************************************************************)
(* What ConcurrentQueue gives its callers: a FIFO of values with a closed  *)
(* flag, on which every operation but push takes effect in one step        *)
(* between its call and its return.  No mutex, no condition variable, no   *)
(* waiting: a pop that has to wait is a call whose effect is not enabled.  *)
(*                                                                         *)
(* push has two effects, the test of the flag and the insertion.  So the   *)
(* channel is weaker than the comment of close (concurrent_queue.hpp:124): *)
(* a push that was admitted while the queue was open may insert after a    *)
(* close, even after a pop that found the closed queue empty.              *)
(***************************************************************************)
EXTENDS Sequences

CONSTANTS Threads,  \* the callers
          Values,   \* the values pushed
          NoValue   \* stands for "no value" where a value may be missing

VARIABLES items,   \* the values in the queue, oldest first
          closed,  \* the closed flag
          op,      \* op[t]: the call of t that has not taken effect, or "idle"
          arg,     \* arg[t]: the value of t's push
          ret      \* ret[t]: what t's last call returned

vars == <<items, closed, op, arg, ret>>

Operations == {"push", "pop", "try_pop", "close", "empty", "is_closed"}
Phases == Operations \cup {"idle", "admitted"}

Tags == {"none", "pushed", "refused", "popped", "nullopt", "Success", "Empty",
         "Closed", "Busy", "void", "true", "false"}
Result(tag, v) == [tag |-> tag, val |-> v]
NoResult == Result("none", NoValue)
Results == [tag : Tags, val : Values \cup {NoValue}]

TypeOK ==
    /\ items \in Seq(Values)
    /\ closed \in BOOLEAN
    /\ op \in [Threads -> Phases]
    /\ arg \in [Threads -> Values \cup {NoValue}]
    /\ ret \in [Threads -> Results]

Init ==
    /\ items = <<>>
    /\ closed = FALSE
    /\ op = [t \in Threads |-> "idle"]
    /\ arg = [t \in Threads |-> NoValue]
    /\ ret = [t \in Threads |-> NoResult]

-----------------------------------------------------------------------------
(* t calls operation o; only push has an argument. *)
Call(t, o, v) ==
    /\ op[t] = "idle"
    /\ op' = [op EXCEPT ![t] = o]
    /\ arg' = [arg EXCEPT ![t] = v]
    /\ ret' = [ret EXCEPT ![t] = NoResult]
    /\ UNCHANGED <<items, closed>>

Return(t, tag, v) ==
    /\ op' = [op EXCEPT ![t] = "idle"]
    /\ arg' = [arg EXCEPT ![t] = NoValue]
    /\ ret' = [ret EXCEPT ![t] = Result(tag, v)]

Admit(t) ==
    /\ op[t] = "push" /\ ~closed
    /\ op' = [op EXCEPT ![t] = "admitted"]
    /\ UNCHANGED <<items, closed, arg, ret>>

Refuse(t) ==
    /\ op[t] = "push" /\ closed
    /\ Return(t, "refused", NoValue)
    /\ UNCHANGED <<items, closed>>

Insert(t) ==
    /\ op[t] = "admitted"
    /\ items' = Append(items, arg[t])
    /\ Return(t, "pushed", NoValue)
    /\ UNCHANGED closed

Take(t) ==
    /\ op[t] = "pop" /\ items # <<>>
    /\ items' = Tail(items)
    /\ Return(t, "popped", Head(items))
    /\ UNCHANGED closed

Drained(t) ==
    /\ op[t] = "pop" /\ items = <<>> /\ closed
    /\ Return(t, "nullopt", NoValue)
    /\ UNCHANGED <<items, closed>>

TryTake(t) ==
    /\ op[t] = "try_pop" /\ ~closed /\ items # <<>>
    /\ items' = Tail(items)
    /\ Return(t, "Success", Head(items))
    /\ UNCHANGED closed

TryFail(t) ==
    /\ op[t] = "try_pop"
    /\ \/ Return(t, "Busy", NoValue)
       \/ closed /\ Return(t, "Closed", NoValue)
       \/ ~closed /\ items = <<>> /\ Return(t, "Empty", NoValue)
    /\ UNCHANGED <<items, closed>>

Close(t) ==
    /\ op[t] = "close"
    /\ closed' = TRUE
    /\ Return(t, "void", NoValue)
    /\ UNCHANGED items

Truth(b) == IF b THEN "true" ELSE "false"

Query(t) ==
    /\ \/ op[t] = "empty" /\ Return(t, Truth(items = <<>>), NoValue)
       \/ op[t] = "is_closed" /\ Return(t, Truth(closed), NoValue)
    /\ UNCHANGED <<items, closed>>

CallAny(t) ==
    \/ \E v \in Values : Call(t, "push", v)
    \/ \E o \in Operations \ {"push"} : Call(t, o, NoValue)

Effect(t) ==
    \/ Admit(t) \/ Refuse(t) \/ Insert(t)
    \/ Take(t) \/ Drained(t)
    \/ TryTake(t) \/ TryFail(t)
    \/ Close(t) \/ Query(t)

Next == \E t \in Threads : CallAny(t) \/ Effect(t)

Spec == Init /\ [][Next]_vars
=============================================================================
