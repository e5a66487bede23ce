------------------------------- MODULE Executor -------------------------------
(***************************************************************************)
(* What ThreadPool promises its users: a task that is offered is queued or *)
(* refused; slots start what is queued in the order of the queue, one task *)
(* each at a time, every task once and in one slot; what was started ends  *)
(* with a value or an exception; nothing is refused before the close, and  *)
(* the executor is over only when nothing is offered, queued or running.   *)
(* No queue calls, no workers that come and go, no destructor's thread.    *)
(***************************************************************************)
EXTENDS Sequences

CONSTANTS Slots,         \* how many tasks run at a time
          Tasks, NoTask

VARIABLES waiting,  \* the tasks that are queued, oldest first
          running,  \* running[s]: the task in slot s
          outcome,  \* outcome[t]: what the future of t says
          stage     \* "open", "closed" or "over"

vars == <<waiting, running, outcome, stage>>

Init ==
    /\ waiting = <<>>
    /\ running = [s \in Slots |-> NoTask]
    /\ outcome = [t \in Tasks |-> "none"]
    /\ stage = "open"

(* A task that is offered and neither queued nor running. *)
Offered(t) ==
    /\ outcome[t] = "pending"
    /\ \A i \in DOMAIN waiting : waiting[i] # t
    /\ \A s \in Slots : running[s] # t

Offer(t) ==
    /\ stage # "over" /\ outcome[t] = "none"
    /\ outcome' = [outcome EXCEPT ![t] = "pending"]
    /\ UNCHANGED <<waiting, running, stage>>

(* Also after the close, if the offer came before it. *)
Enqueue(t) ==
    /\ Offered(t)
    /\ waiting' = Append(waiting, t)
    /\ UNCHANGED <<running, outcome, stage>>

Refuse(t) ==
    /\ stage = "closed" /\ Offered(t)
    /\ outcome' = [outcome EXCEPT ![t] = "broken"]
    /\ UNCHANGED <<waiting, running, stage>>

Start(s) ==
    /\ running[s] = NoTask /\ waiting # <<>>
    /\ running' = [running EXCEPT ![s] = Head(waiting)]
    /\ waiting' = Tail(waiting)
    /\ UNCHANGED <<outcome, stage>>

Finish(s) ==
    /\ running[s] # NoTask
    /\ running' = [running EXCEPT ![s] = NoTask]
    /\ \E o \in {"value", "exception"} : outcome' = [outcome EXCEPT ![running[s]] = o]
    /\ UNCHANGED <<waiting, stage>>

Close ==
    /\ stage = "open"
    /\ stage' = "closed"
    /\ UNCHANGED <<waiting, running, outcome>>

End ==
    /\ stage = "closed" /\ waiting = <<>>
    /\ \A s \in Slots : running[s] = NoTask
    /\ \A t \in Tasks : outcome[t] # "pending"
    /\ stage' = "over"
    /\ UNCHANGED <<waiting, running, outcome>>

Next ==
    \/ \E t \in Tasks : Offer(t) \/ Enqueue(t) \/ Refuse(t)
    \/ \E s \in Slots : Start(s) \/ Finish(s)
    \/ Close \/ End

Spec == Init /\ [][Next]_vars
=============================================================================
