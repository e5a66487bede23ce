# TLA+ models of the cpp-async course code

The repository is the code of a course on asynchronous C++: a small library
(`async-lab`: a concurrent queue, a thread pool, coroutine tasks, an epoll
reactor with awaitables) and the exercises that lead to it. This directory
holds models of its concurrent parts, the TLC configurations that check them on
small instances, and theorems about them that TLAPS proves for every instance.

Paths below are relative to the repository (`async-lab/...` is
`src/async-lab/...` in `PROJECT.json`).

## 1. Inventory

| Part | Where | State | Operations | Interacts with |
|---|---|---|---|---|
| ConcurrentQueue | `async-lab/concurrent_queue.hpp`, `coroutines/concurrent_queue.hpp` | `q_`, `mtx_q_`, a condition variable, atomic `is_closed_` | push (2), pop, try_pop, close, empty, is_closed | any threads; the pool |
| ThreadPool | `async-lab/thread_pool.hpp`, `coroutines/thread_pool.hpp` | `tasks_` (a queue), `threads_` | constructor, submit, run_async, run (worker), destructor | the queue; futures; coroutines it resumes |
| Epoll::Reactor | `async-lab/reactor.hpp` 21-338 | epoll set, eventfd, `running_`, `callbacks_`, `cmd_q_` | add_fd, mod_fd, del_fd, unreg_fd, stop, add_timer, run, do_run, handle_wakeup, destructor | threads that post, callbacks that post, the kernel's descriptor table |
| EpollWithIOUring::Reactor | `async-lab/reactor.hpp` 342-760 | the same and an io_uring | the same and read_file, write_file | the same |
| I/O awaitables | `async-lab/io_awaitables.hpp` | one awaiter per operation | async_read, async_write, async_io_read, async_io_write | the reactors, coroutines |
| Task, sync_wait | `async-lab/task.hpp`, `sync_wait.hpp`, `coroutines/tasks_test.cpp` | result, continuation, frame | start, final suspend, await, move, destroy; blocking wait | each other, whoever resumes |
| FileDescriptor | `async-lab/file_descriptor.hpp` | one descriptor number | move, reset, release, close | the kernel |
| First coroutines | `coroutines/*_tests.cpp` | frames | resume, detach, resume on a new thread, generator | threads |
| Servers | `coroutines-corosio/*` | session buffers | accept, read_line, write_line | an external library |
| Capy and stdexec exercises | `coroutines-capy/*`, `senders-receivers/*` | none of their own | tests of external libraries | - |
| Threads exercise | `multithreading/*` | none shared | - | - |

What is hard here, and hardly reached by the repository's tests:

- **push reads the closed flag without the mutex.** A close may run in full
  between the read and the insertion; everything that is built on "a closed
  queue gets no more items" has to survive that.
- **Lost wakeups**: the condition variable of the queue (notified under the
  mutex in one copy, after it in the other), the eventfd of the reactor
  (drained and then swapped, without a lock around both).
- **Shutdown**: the pool's workers leave on "closed and empty" while a push is
  still on its way; tasks submit tasks while the destructor joins; the
  reactor's `stop` clears `running_` before its command is queued; `running_`
  is set by the new thread and not by `run()`.
- **Stale descriptors**: a batch of events, a queue of commands and a map of
  callbacks all hold descriptor numbers that may have been closed and reused.
- **Errors that end in silence**: a refused push whose future breaks, an
  `EPOLL_CTL_ADD` that fails and is only logged, a `sync_wait` that drops an
  exception.

`PROJECT.json` lists each hazard at its line, with the properties that cover it.

## 2. Modules

| Module | Is | Correspondence |
|---|---|---|
| `FifoChannel` | what the queue promises: a FIFO and a closed flag; every operation but push takes effect in one step, push in two | the abstract specification; `Admit`/`Insert` are the read of the flag and the insertion |
| `ConcurrentQueue` | the queue, one step per access to shared state | `pc[t]` is the place in the function, `owner` the mutex, `Waiting` the condition variable's sleepers; `Acquire` is every lock constructor and the end of every wait |
| `PoolProgram` | the program that uses the pool: its threads, its tasks and who submits what | constants and their assumptions only, shared by the two pool modules |
| `ThreadPool` | clients, workers, tasks, futures and the destructor, over an instance of `FifoChannel` | `wpc[w]` is the place in `run()`; `todo[a]` is what a thread, or the task a worker runs, has still to submit; `fut[t]` is the future, or the awaiting coroutine |
| `QueuedPool` | the pool over the steps of `ConcurrentQueue` instead of those of the channel | `pc[a]` is the place in the queue's function, `mutex` its mutex; the caller goes on with its own code in the step in which its call returns |
| `Executor` | what the pool promises its users | the abstract specification: tasks are offered, queued or refused, started in order, and end; `running[s]` is the task in slot `s`, `outcome` the future, `stage` open, closed or over |
| `EventLoop` | what the epoll reactor promises to its users | the abstract specification: commands in order, callbacks for collected events, one-shot interests |
| `Reactor` | the epoll reactor, its posters and the descriptor table | `rpc` is the place in `do_run`/`handle_wakeup`, `ppc[p]` what is left of a post, `own`/`gen` the process's descriptor table |
| `IoAwaitables` | coroutines that read, write and await timers over an instance of `EventLoop` | `at[c]` is where the coroutine is, an awaiter is a coroutine, an operation and an attempt, `tail` the `await_suspend`s that have `timer_fd_` still to assign |
| `Tasks` | `Task`, `sync_wait` and `run_async`'s awaitable: frames, the threads in them, the variables that own them | `fst[f]` is the state of a frame, `cur[t]` the frame a thread is in, `leaving[t]` one that it has handed on and is still on its way out of, `cont` the stored continuations; a wait is a frame named like its thread |
| `FileDescriptor` | the objects of `file_descriptor.hpp` and the kernel's table | `obj[x]` is `fd_`, `file[n]` which file a number stands for (0: none), `raw` the numbers that `release` handed out |
| `IoUring` | the io_uring reactor's own part, over `FileDescriptor` | `rpc` is the place in `do_run`/`handle_io_uring_completions`, `spc[t]` the place in `submit_io`, `iocb` the keys of `io_callbacks_`, `cq` the completion queue |
| `MC...` | the instances that TLC checks | |
| `...Proofs` | theorems, see 4 | |

**Composition.** `ThreadPool` uses the channel and not the queue.
`ConcurrentQueue` is shown to implement `FifoChannel` (property `IsFifoChannel`,
theorem `QueueIsChannel`, the mapping is `Phase`), and `QueuedPool`, the same pool
whose calls take the steps of `ConcurrentQueue`, is shown to implement `ThreadPool`
(`IsThreadPool`), which implements `Executor` (`IsExecutor`): the chain from the
accesses to mutex, flag and condition variable up to what a user of the pool may
rely on is put together in `QueuedPoolIsExecutor`. Safety goes down that chain;
progress does not, because a queue in which everybody sleeps for ever refines the
channel as well: `DestructorReturns` and `EveryFutureReady` are checked over the
code's queue, with its condition variable. TLC runs `QueuedPool` only, whose
`TypeOK` and `OneHolder` are those of `ThreadPool` under the mapping. The channel is
a weak one, and so is what it says of the queue: `try_pop` may always answer Busy, and
push is two steps, the second of which may come after a close (finding 1). In the same
way `IoAwaitables` uses `EventLoop`, which `Reactor` implements (`IsEventLoop`, theorem
`ReactorIsEventLoop`): the mapping hides the eventfd, the queue and the handler's own
batch of commands behind one sequence of pending commands. `IoUring` is composed
with `FileDescriptor`, whose objects supply the numbers of its operations.

**Queue, details.** A memory access to the atomic flag is a step of its own and
all of them are sequentially consistent, as in the code
(`memory_order_seq_cst`, and the default in the other copy). What happens with
the mutex held and touches nothing else is one step with the release. pop's
section is split at the test of the predicate, because whether the answer still
holds when pop acts on it is something to be shown, and the wait's
release-and-sleep is one step, as the standard demands. `NotifyUnderLock`
chooses the copy. A result of try_pop on a closed queue with items is `Closed`,
as both copies do it (112-113); pop would still deliver the items. The comment
of close says that "no more items can be pushed" after it
(`async-lab/concurrent_queue.hpp` 124); a push that had read the flag before
inserts after close returned. That is `NoPushAfterClose`, which the run
`queue_late_push` violates, and why `FifoChannel` has `Insert` apart:
`IsFifoChannel` permits the late insertion, and does not show that there is none.

**Pool, details.** `Submits` (in `PoolProgram`) fixes who submits what: client
threads from the start, tasks while they run; a coroutine that `co_await`s run_async
is suspended, so that submission is the last of its task. A task in `Throwing` may
throw: in a packaged_task that is a future with an exception, in run_async's
wrapper it leaves `run()` and ends the process (`aborted = "terminate"`).
`Asserts` selects a build with assertions; with FALSE the pool behaves as one
built with NDEBUG, which is also what `coroutines/thread_pool.hpp` does: it
ignores the result of push. The program destroys the pool when its own threads
are done with it (`ClientsDone`, the scope in `thread_pool_tests.cpp` 31-39).

**Reactor, details.** `own` is the contract about descriptors: a program may
add only what it owns, then it is lent to the reactor, `del_fd` has it closed by
the reactor, `unreg_fd` gives it back at once (which is how the awaitables and
their tests use it). `gen` counts the files a number has stood for. A poll
returns any of the ready descriptors and the eventfd if it is readable, and the
events of a batch are dispatched in any order; batches over 64 events are not
modelled. A callback is a place from which the reactor thread may post.
`add_timer` is `Open` and `Post("Add")`; time and the read of the timerfd are
left out. The owner starts, stops and destroys the reactor in any order that the
class allows. One of them does not return: `run()`, the destructor reads
`running_` as false before the new thread has set it, posts nothing, and joins for
ever. `Missed` is just that state, and `DestructorReturns` speaks of all others.
`given` remembers the numbers of which `unreg_fd` gave a file back: such a number
the program may close and open again while an event or the removal of the old file
is still to come, and `NoStaleEvent` promises nothing for it. A descriptor whose add
is still queued when the loop ends stays open, which `Custody` permits.

**Awaitables, details.** `Plan` fixes what each coroutine awaits. A coroutine
starts on its own thread (`outcome = "none"`) and goes on in the callback that
resumes it, which returns when the coroutine suspends or ends; the await of a
timer is made on either. A transfer fails when the end or its peer is closed and,
up to `MaxFaults` times, for no reason; after a failure the program tries again
or closes the descriptor. What is lost is stated, not excluded: a coroutine whose
add is refused (`refused`) is never resumed, and `OnlyClashesAreRefused` says who
that can be; a timer may stay open for a coroutine that was resumed before
`timer_fd_` was assigned (`early`), and `NoTimerForgotten` says that it is no
other.

**Tasks, details.** A main thread creates, moves, drops and waits for tasks in
any order; a body awaits what `Body` says, each task as a temporary that lives
until the end of its await. A coroutine is called at one place
(`CalledOnceAssumption`): it stands for one call, two calls are two coroutines. A
second wait for a task that ended is left out, as a program that does so resumes
a finished coroutine. An exception ends a body that does not catch it.
A frame is handed on before the thread that does it is out of it: `AwaitPool` is the
push of the handle in `run_async`, `Notify` the release of the semaphore in the
final suspend of the wait, and in both the thread is in `leaving` until a step of
its own, `Leave`, the return from `await_suspend`. In between a worker may resume
the frame, finish it and have it destroyed, and the waiting thread may destroy the
frame and its semaphore. In `Tasks` the pool is its queue of handles alone; that it
runs what it is given is what `ThreadPool` shows. Its destructor may begin at any
time (`ClosePool`): a push is then refused, and as `run_async` ignores the answer in
a build without assertions, the frame is never resumed. `NoOrphan` and
`SyncWaitReturns` say that this is the only way to lose a frame, or a wait.

**io_uring, details.** The program is one thread that uses `FileDescriptor`
objects and submits operations one after the other, waiting for each as the tests
do and leaving alone the object whose number it uses meanwhile; further operations
are awaited by its coroutine in the callback, on the reactor's thread. How many
there are is a bound (`MaxMain`, `MaxIds`) and no rule. The completion handler peeks at
the first completion and never marks it as seen, as the code. `io_uring_get_sqe` may
find no entry (`NoEntry`: submit_io throws before it changed anything) and
`io_uring_submit` may fail (`NotSubmitted`: the callback stays in the map, the entry
in the ring). Where the exception goes depends on the caller: out of
`await_suspend`, which is noexcept (`io_awaitables.hpp` 116), and out of a callback,
to `do_run`'s catch (`reactor.hpp` 587-591), it ends the process (`mpc =
"aborted"`); out of the program's own call it ends the program, which destroys its
objects and the reactor. Descriptor commands are left to `Reactor`.

## 3. Runs

| Run | Instance | Shows |
|---|---|---|
| `queue_safety` | 3 symmetric threads, 2 calls each, 2 values, 1 spurious wakeup, late notification | type, `NoLostWakeup`, `CloseWakesSleepers`, `IsFifoChannel` |
| `queue_late_push` | 2 threads, 1 call each, early notification | violation of `NoPushAfterClose` |
| `queued_pool` | 2 workers, client `c1` (p1, which submits p2) and `c2` (a chain of awaits s1, s2); p1 and s2 may throw; NDEBUG; notification under the mutex, 1 spurious wakeup | type, `OneHolder`, `IsThreadPool`, `IsExecutor`, `DestructorReturns`, `EveryFutureReady` |
| `pool_refused_submit` | the same program, with asserts and without throws | violation of `SubmitNeverRefused` |
| `reactor` | 1 descriptor number opened twice, owner, client and callbacks, all commands, 3 posts and the owner's first stop, no rule for the end | type, `NoLostWakeup`, `Custody`, `AddFindsRoom`, `IsEventLoop`, `NoStaleEvent`, `CommandsExecuted`, `DestructorReturns` |
| `reactor_double_close` | add and unreg, 3 posts | violation of `ClosesOnlyItsOwn` |
| `tasks` | thread m1 calls a, which awaits the pool and then k; k awaits the pool and may throw; m2 calls d, which catches what it awaits; e, which d awaits, awaits the pool and may throw; 2 workers, 2 variables each; the pool may close | type, `NoDanglingHandle`, `NoOrphan`, `OneOwner`, `OneAtWork`, `DestroyedAtRest`, `ExceptionReachesCaller`, `SyncWaitReturns` |
| `sync_wait_void` | the same, but d, which has no result, does not catch | violation of `ExceptionReachesCaller` |
| `io_awaitables` | a client, a server and a third writer on one pair of sockets, a coroutine with two timers, 1 fault | type, `NoAwaiterForgotten`, `NoTimerForgotten`, `ResumesItsAwaiter`, `OnlyClashesAreRefused`, `ReadyIsResumed` |
| `uring` | 2 objects, 2 numbers opened twice each, 3 operations of which the program submits up to 2, failing submissions | type, `OnlyRepeatedLookupRaces`, `CallbackOnce`, `UsesOwnFile`, `OneHolderPerFile`, `FirstOperationCompletes` |
| `uring_race` | the same | violation of `NoRace` |
| `uring_stop` | 1 number, 1 operation | violation of `StopEndsLoop` |

**Why the bounds are enough.** Queue: a lost wakeup needs a sleeper, a producer
and a third thread that takes the item or closes, and each of them a second call
to come back; with three threads and two calls every pair of critical sections
occurs in every order. The run is on the variant of `coroutines`, in which other
threads may come between a producer's release of the mutex and its notification;
`queued_pool` is on that of `async-lab`, and the theorems are about both. Pool: the
interesting shutdown needs a worker that has left or is asleep and one that still
runs a task that submits, and a client that is in a push when the other is done:
two workers and two clients. `MaxCalls` = 8 is more than any thread of that instance
makes. Reactor: a stale event or a refused add needs an add, a removal and a second
add of the reused number: three posts and two openings; an overtaken removal an add,
an unreg and a stop, and the owner's first stop is outside the bound.
Awaitables: a clash needs two coroutines at one descriptor and a
third at the other end; a refused retry needs one fault; a late assignment hits
the next awaiter only when there are two timers. Tasks: an await of the pool under
an await of a task, an exception that is caught and one that is not, two threads
that wait at the same time, two workers that may resume either's frames. io_uring:
a move needs two objects, a number that is given again two openings, a race a second
operation of the program, a callback that submits a further one a third.
No bound is in the code: `MaxCalls`, `MaxSpurious`, `MaxPosts`, `MaxOpens`,
`MaxFaults`, `MaxMain` and `MaxIds` are the models'.

**Deadlock** is checked for the pool, the reactor, the tasks and io_uring, whose
finished states loop (`Finished`; in `Tasks` it includes a thread that waits for a
frame the pool refused, in `IoUring` a process that has ended). It is not for the
queue: a program may stop calling it, and a pop of a queue nobody closes sleeps
for good; nor for the awaitables: when all coroutines have ended, or were refused,
the reactor waits in `epoll_wait` for what never comes.

**Fairness.** Pool, over the code's queue: weak fairness of every worker (tasks
return), of a client inside a submit, and of the destructor once it began; nothing
obliges a client to submit or the owner to destroy. No fairness of the mutex is
needed: the tasks and so the calls are finitely many, and a thread that waits for
it is alone with it in the end. `IsThreadPool`, `IsExecutor` and the queue's
properties need none. Reactor and io_uring: weak fairness of a post that has
begun, of the reactor thread, of the kernel's work on an operation and of the
join; nothing obliges `epoll_wait` to time out or a descriptor to become ready.
Awaitables: weak fairness of the reactor's thread, of every coroutine and of each
timer. Tasks: weak fairness of every thread, in a frame, on its way out of one or in a
wait, and of each worker, which also takes handles; nothing obliges a main thread to
wait or to end, or the pool to close.

### Findings

1. `queue_late_push`: "no more items can be pushed into the queue" after close
   (`async-lab/concurrent_queue.hpp` 124). A push that read the flag before the close
   inserts after it has returned (54-58, 71-75), even after a pop said that the queue
   is drained. The pool survives it (`IsExecutor`), another user of the queue need not.
2. `pool_refused_submit`: `assert(result)` (`async-lab/thread_pool.hpp` 68, 94)
   fails for a task that submits while the destructor runs.
3. `reactor_double_close`: with an `unreg_fd` queued, a stop (the destructor's is
   enough) may end the loop before it executes the removal, and the destructor closes
   the number that was given back (`reactor.hpp` 69-72, 112, 326); the program's own
   close (the end of `io_awaitables_tests.cpp` 21-62) is then a second one, of
   whatever the number stands for. For numbers never given back by `unreg_fd` (timers:
   add, del) this cannot happen, which is proved (`DestructorClosesItsOwn`).
4. `sync_wait_void`: `sync_wait` of a task without a result returns although the
   task threw (`async-lab/sync_wait.hpp` 131-134, and its copy).
5. `uring_race`: `read_file` and `write_file` stand under "Public API (thread-safe) for
   fd-based events" (`reactor.hpp` 434) and change `io_callbacks_` on the caller's
   thread, while the reactor's thread looks it up. A program that waits for every
   operation before the next races all the same, because the handler goes on looking
   up the first completion; that this is its only race is proved (`TheOnlyRace`).
6. `uring_stop`: after the first completion the handler never leaves the
   completion queue (`reactor.hpp` 744-758, no `io_uring_cqe_seen`): a second
   completion is not handled, stop does not end the loop, the destructor joins
   for ever. That it is so for every program is proved (`FirstCompletionHoldsTheLoop`).

## 4. Proofs

TLAPS checks every theorem below for all values of the constants, under the
named assumptions of the modules. Each inductive invariant was checked by TLC on
the run's instance before it was proved.

**`ConcurrentQueueProofs`** (`TypeCorrect`, `AnswersStayValid`, `NoWakeupIsLost`,
`CloseWakes`, `QueueIsChannel`). The inductive invariant adds to the properties
that a thread in a critical section owns the mutex (`LockInv`) and that a push
has its value until it is decided (`ArgInv`). Mutual exclusion makes pop's answer
valid; the wakeup invariant is a counting argument: a step adds an item together
with a helper (the producer that will notify, or the sleeper it woke), or removes
an item together with one, or removes a helper that found the queue empty, and
then the bound on the items is trivial. The refinement maps every step to one
effect of the channel or to a stutter.

**`ThreadPoolProofs`** (`TypeCorrect`, `SomebodyIsLeft`, `DestructorHasDrained`,
`TaskHasOneHolder`, `ThreadPoolIsExecutor`). A worker leaves only when the queue is
closed and empty; the queue is closed only after the clients are done, so whoever
still pushes is a worker, and one that pushes comes back to pop: the last to leave
leaves an empty queue (`WorkerInv`, `ClientInv`, `OwnerInv`). A pending future has a
holder (`HeldInv`: in a call, in the queue, in a worker), and when all have left
there is none. That it has only one rests on the lists of submissions (`HolderInv`):
a task has one place in one submitter's list, a submitter starts at most once, and
what it has still to submit is in nobody's hands. The refinement of `Executor` uses
both: that a task is in one place is what makes one in a call a task that is offered
and neither queued nor running, and that the destructor has drained is the guard of
`End`. `SomebodyLeft` and `DestructorDrains` are steps of that proof and no properties of
a run, which checks what they are for: `Executor` has no `End` with a task left.

**`QueuedPoolProofs`** (`TypeCorrect`, `QueuedPoolIsThreadPool`,
`QueuedPoolIsExecutor`, `QueuedTaskHasOneHolder`, `QueuedPoolDrains`). The module has no invariant of the queue of its own: every step of
the pool is one of its queue's, or leaves the queue alone (`QueueStep`), so that of
`ConcurrentQueueProofs` holds here, by instance. What is added says which operation
each thread may be in, and that who is in push has a task to push (`PlaceInv`,
`TodoInv`). The mapping lets a call take effect where the queue's does; between that
step and the return (`push_notify`, `close_notify`) the list of the caller, or the
destructor, is ahead of the code. Then the theorems of `ThreadPoolProofs`, whose
instance is the mapped pool, carry over to the code's.

**`ReactorProofs`** (`TypeCorrect`, `WakeupIsNeverLost`, `ReactorIsEventLoop`). A
poster queues before it writes and the handler drains before it takes, so between
a queued command and the loop there is a readable eventfd, a handler or a poster.
The handler swaps only with nothing left to execute, so commands leave the pending
sequence at its head and enter it at its end, which is the refinement; `BatchInv`
says what is left of a batch, and `GenInv` (a descriptor that is open, or that
epoll knows, has been opened) is what the types of commands and events rest on.
The second half of the module (`CustodyIsKept`, `AddIsAccepted`, `EventsAreNotStale`,
`DestructorClosesItsOwn`) is about who closes what. The contract makes the
additions and removals of a descriptor alternate in the order of their posts,
which is the order of their execution (`Alternate`). So the first that is pending
tells what the tables hold of the descriptor, and the last what the contract says
(`Agree`): an add that is executed finds no callback and no interest, and a
descriptor that is lent is registered or its add is pending. Events refer to the
current file of their number, or to one that left the tables (`Current`, `Gone`).
A number that `unreg_fd` never gave back is in no removal of that kind (`TimersInv`),
so for it the last two theorems hold with no assumption about the program; for one
that was given back the destructor's may fail (finding 3), and it may be reused while
an event of the old file is still to be dispatched.

**`IoUringProofs`** (`TypeCorrect`, `CallbackRunsOnce`, `OperationsMeetTheirFile`,
`TheOnlyRace`, `EveryFileHasItsHolder`, `FirstCompletionHoldsTheLoop`), without an
assumption on how many operations there are or which submissions fail. At most
one operation is outstanding: in submission, in the kernel, or with its callback
in the map (`OpsInv`); after a submission that failed the program submits no more.
While it is, the program leaves alone the object whose number it uses (`UseInv`), and
since no two objects hold one number and a number is open exactly when one holds it
(`HolderInv`), nothing done to the others closes it. A callback leaves the map before
it runs and never comes back (`CalledInv`), which is why a completion that stays in
the queue does not run it again. `TheOnlyRace` follows: a completion whose callback has
not run is that of the outstanding operation, and then nobody is in submission; so
when somebody puts a callback into the map during a lookup, the lookup is of a
completion that was handled before, and the one who puts it is the program, because
the reactor's own thread cannot be in both. The last theorem is finding 6 for every
program: once a callback has run, its completion is at the head of the queue for good
and the thread is in the loop over it (`HeldInv`), so no other callback runs, no stop
is executed and the join does not return.

**`TasksProofs`** (`TypeCorrect`, `HandlesAreLive`, `FrameIsOnOneThread`,
`NobodyIsOrphaned`, `EveryFrameHasOneOwner`, `FramesAreDestroyedAtRest`). A frame is
busy from its first resumption until its final suspend has let go of it. A busy task
has an awaiter, which is suspended at the await of just this task (`ContInv`), and a
suspended frame is with the pool or awaits a busy task (`AwaitInv`, `PoolInv`): along
these pairs frames are handed from thread to thread, so a frame is never on two. What
a body has not awaited yet does not exist yet (`FreshInv`), which rests on
`CalledOnceAssumption`: so the frame that an await starts is a new one, a task has one
awaiter (`UniqueAwaiter`), and the temporary that ends with an await was the
awaiter's alone. A main thread's variables hold exactly its live tasks (`SlotInv`),
and one of them is busy only while the thread waits for it (`RootBusy`): so moves and
destructors meet frames at rest, and a frame has one owner. Threads on their
way out of an `await_suspend` (`leaving`) hold nothing that these facts are about: that
is what the theorems say of the window after a push or a release.

**`TaskCallsProofs`** (`OneFrameIsAtWork`, `ExceptionsReachTheirCallers`) is about whole
trees of calls under a wait, defined as least closed sets so that facts about all of a
tree come from sets that are closed under calls: the coroutines that have not started
(`Fresh`), and those that are neither running nor suspended (`Idle`). A tree is fresh
when its wait begins and idle when it ends, and in between the one frame that is on a
thread or with the pool is handed along the awaits (`WorkInv`): it strengthens "no
frame is on two threads" (`FrameIsOnOneThread`) to "no two frames of a tree are", which
is what makes the unlocked results and exceptions safe. For the second theorem, the
result of a body that ended is an exception exactly if its tree let one out
(`ResultInv`), a body that went on met none that it did not catch (`PastInv`), and the
frame of the wait passes on what the root let out (`CallerInv`). It assumes that a task
without a result lets nothing out: with one that does it is false (finding 4).

**`IoAwaitablesProofs`** (`TypeCorrect`, `NobodyIsForgotten`, `TimersAreFound`,
`CallbacksAreRight`, `RefusalsAreClashes`), for any coroutines, descriptors and
plans. A pending add is that of the one suspended coroutine it names (`AddInv`). The
callback of a socket belongs to a coroutine that still waits, was resumed, or has
asked for the removal, or to a read that failed and left it behind (`SocketInv`,
`ResumedInv`): so an event that runs one meets its awaiter, and an add that is
refused met somebody else's. A timer's number is on one coroutine only, in its
awaiter or still to be assigned (`OnInv`, `NumberInv`), and `early` collects exactly
those whose coroutine was resumed before the assignment (`EarlyInv`), so every other
open timer is one that somebody awaits or will delete.

**Only model-checked.** Liveness, which rests on fairness and is out of this prover's
reach: `EveryFutureReady`, `DestructorReturns` (pool and reactor), `CommandsExecuted`,
`SyncWaitReturns`, `ReadyIsResumed`, `FirstOperationCompletes`. Every invariant, every
action property and every refinement that a passing run checks is also proved
(`ExceptionReachesCaller` under the assumption above).

## 5. Not modelled

- **Clocks and error codes**: durations of timers, the sign and value of errno,
  SIGPIPE. A timer expires, a transfer succeeds or fails.
- **Failures of the runtime**: thread creation, allocation, a failing `epoll_wait`
  (which ends the process); a pool of zero workers (one copy asserts against it, the
  other does not).
- **The descriptor commands in the io_uring copy** (`reactor.hpp` 434-473, 629-713): the
  text is that of the epoll reactor (84-119, 252-336), from which `Reactor` and
  `EventLoop` are taken; `IoUring` does not repeat it. Batches of more than 64 events.
- **Other users of the io_uring reactor**: one that submits while an operation is
  outstanding or from several threads, which nothing in the class prevents, or one that
  catches the exception of a failed submission and goes on (its callback and its entry
  in the ring are still there).
- **The assertions of `run_async` in `Tasks`**: there a refused push loses the frame, as
  with NDEBUG; the failing assertion is finding 2.
- **The first coroutine exercises** (`coroutines/basic_coroutine_tests.cpp`,
  `generator_tests.cpp`): a frame that one caller resumes step by step, or a thread
  that is detached and never joined; sequential demonstrations whose only states
  are those of the one frame. The general case, frames that resume each other, is
  `Tasks`.
- **The echo and hash servers, the capy and stdexec exercises**: they drive
  libraries (sockets, executors, stop tokens, schedulers) that are not in the
  repository, so a model of them would be one of guesses about the library.
- **The threads exercise** shares nothing between its threads; **concepts** do not
  run; **build files** and templates hold no program.
