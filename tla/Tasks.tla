-------------------------------- MODULE Tasks ---------------------------------
(***************************************************************************)
(* Coroutine tasks (task.hpp), the blocking wait for one (sync_wait.hpp)   *)
(* and the threads that run them.  A coroutine is a frame: created lazily, *)
(* started by the first co_await, suspended at an await, final, destroyed  *)
(* by the Task that owns it.  A body awaits other tasks (temporaries, that *)
(* live until the await is over) and ThreadPool::run_async, which resumes  *)
(* it on a worker.  sync_wait is a frame too, named like its thread: it    *)
(* awaits the task, its final suspend releases the semaphore the thread    *)
(* waits for, and the thread then destroys it.                             *)
(***************************************************************************)
EXTENDS Sequences, Naturals, FiniteSets

CONSTANTS Coros,     \* coroutines that return a Task, each called once
          Mains,     \* threads that call sync_wait
          Workers,   \* threads of the pool
          Names,     \* the Task variables of a main thread
          Pool,      \* the step of a body that awaits run_async
          None,
          Body,      \* Body[c]: what c awaits, one after the other
          Roots,     \* Roots[m]: the coroutines that m calls
          MayThrow,  \* the coroutines that may throw
          Catches,   \* those that catch what they await
          Void       \* those without a result

Frames == Coros \cup Mains
Threads == Mains \cup Workers

ASSUME BodyAssumption ==
    /\ Body \in [Coros -> Seq(Coros \cup {Pool})]
    /\ Roots \in [Mains -> SUBSET Coros]
    /\ MayThrow \subseteq Coros /\ Catches \subseteq Coros /\ Void \subseteq Coros
    /\ Pool \notin Frames /\ None \notin Frames /\ Coros \cap Mains = {}
    /\ Mains \cap Workers = {}
(* A coroutine is called at one place. *)
ASSUME CalledOnceAssumption ==
    /\ \A c, d \in Coros : \A i \in DOMAIN Body[c], j \in DOMAIN Body[d] :
          Body[c][i] = Body[d][j] /\ Body[c][i] # Pool => c = d /\ i = j
    /\ \A c \in Coros, m, n \in Mains :
          /\ \A i \in DOMAIN Body[c] : Body[c][i] \notin Roots[m]
          /\ Roots[m] \cap Roots[n] # {} => m = n

VARIABLES fst,        \* fst[f]: the state of frame f
          pos,        \* pos[f]: the step of its body it is at
          cont,       \* continuation_handle_
          res,        \* result_ and exception_ of the promise
          cur,        \* cur[t]: the frame that thread t runs
          leaving,    \* leaving[t]: the frame whose await_suspend t is still in,
                      \* having handed that frame on
          submitted,  \* frames suspended in run_async
          closed,     \* the pool's destructor has closed its queue
          refused,    \* the submitted frames that the queue did not take
          slot,       \* slot[m][v]: the frame that a Task variable owns
          root,       \* the task of m's sync_wait
          sem,        \* sync, the binary semaphore
          mpc,        \* where thread m is
          got,        \* what m's last sync_wait did
          raised      \* the coroutines that threw of themselves

threads == <<cur, leaving>>
queue == <<submitted, closed, refused>>
vars == <<fst, pos, cont, res, threads, queue, slot, root, sem, mpc, got, raised>>

(* "running": in its body; "resumed": at the await_resume of step pos.     *)
States == {"none", "created", "running", "suspended", "resumed", "final",
           "destroyed"}
Live == States \ {"none", "destroyed"}

Steps(f) == IF f \in Mains THEN <<root[f]>> ELSE Body[f]
Awaited(f) == Steps(f)[pos[f]]

FrameTypes ==
    /\ fst \in [Frames -> States]
    /\ pos \in [Frames -> Nat \ {0}]
    /\ \A f \in Frames : pos[f] <= Len(Steps(f)) + 1
    /\ cont \in [Coros -> Frames \cup {None}]
    /\ res \in [Frames -> {"none", "value", "exception"}]
    /\ cur \in [Threads -> Frames \cup {None}]
    /\ submitted \subseteq Coros
    /\ slot \in [Mains -> [Names -> Coros \cup {None}]]
    /\ root \in [Mains -> Coros \cup {None}]
    /\ sem \in [Mains -> 0 .. 1]
    /\ mpc \in [Mains -> {"free", "start", "acquire", "collect", "done"}]
    /\ got \in [Mains -> {"none", "returns", "throws"}]
    /\ raised \subseteq MayThrow
ThreadTypes ==
    /\ leaving \in [Threads -> Frames \cup {None}]
    /\ closed \in BOOLEAN /\ refused \subseteq submitted
TypeOK == FrameTypes /\ ThreadTypes

Init ==
    /\ fst = [f \in Frames |-> "none"] /\ pos = [f \in Frames |-> 1]
    /\ cont = [c \in Coros |-> None] /\ res = [f \in Frames |-> "none"]
    /\ cur = [t \in Threads |-> None] /\ leaving = [t \in Threads |-> None]
    /\ submitted = {} /\ closed = FALSE /\ refused = {}
    /\ slot = [m \in Mains |-> [v \in Names |-> None]]
    /\ root = [m \in Mains |-> None] /\ sem = [m \in Mains |-> 0]
    /\ mpc = [m \in Mains |-> "free"] /\ got = [m \in Mains |-> "none"]
    /\ raised = {}

-----------------------------------------------------------------------------
(* Task objects, in a main thread between its waits. *)
DestroyOwned(c) ==
    fst' = IF c = None THEN fst ELSE [fst EXCEPT ![c] = "destroyed"]

Create(m, v, c) ==
    /\ mpc[m] = "free" /\ slot[m][v] = None
    /\ c \in Roots[m] /\ fst[c] = "none"
    /\ fst' = [fst EXCEPT ![c] = "created"]
    /\ slot' = [slot EXCEPT ![m][v] = c]
    /\ UNCHANGED <<pos, cont, res, threads, queue, root, sem, mpc, got, raised>>

(* Mistake: the source keeps its handle. *)
MoveCopies(m, v, w) ==
    /\ mpc[m] = "free" /\ v # w
    /\ DestroyOwned(slot[m][v])
    /\ slot' = [slot EXCEPT ![m][v] = slot[m][w]]
    /\ UNCHANGED <<pos, cont, res, threads, queue, root, sem, mpc, got, raised>>

(* v is assigned from w, or, if v owns nothing, constructed from it; the   *)
(* assignment of a variable to itself does nothing.                        *)
Move(m, v, w) ==
    /\ mpc[m] = "free" /\ v # w
    /\ DestroyOwned(slot[m][v])
    /\ slot' = [slot EXCEPT ![m][v] = slot[m][w], ![m][w] = None]
    /\ UNCHANGED <<pos, cont, res, threads, queue, root, sem, mpc, got, raised>>

Drop(m, v) ==
    /\ mpc[m] = "free" /\ slot[m][v] # None
    /\ DestroyOwned(slot[m][v])
    /\ slot' = [slot EXCEPT ![m][v] = None]
    /\ UNCHANGED <<pos, cont, res, threads, queue, root, sem, mpc, got, raised>>

-----------------------------------------------------------------------------
(* sync_wait(std::move(v)): the frame of the wait is made and started on   *)
(* the thread; the task stays v's.                                         *)
SyncWait(m, v) ==
    LET c == slot[m][v] IN
    /\ mpc[m] = "free" /\ c # None
    /\ fst[c] = "created"
    /\ root' = [root EXCEPT ![m] = c] /\ sem' = [sem EXCEPT ![m] = 0]
    /\ fst' = [fst EXCEPT ![m] = "running"]
    /\ pos' = [pos EXCEPT ![m] = 1] /\ res' = [res EXCEPT ![m] = "none"]
    /\ cur' = [cur EXCEPT ![m] = m]
    /\ mpc' = [mpc EXCEPT ![m] = "start"]
    /\ UNCHANGED <<cont, leaving, queue, slot, got, raised>>

(* resume() has returned: something suspended, or all is done. *)
Started(m) ==
    /\ mpc[m] = "start" /\ cur[m] = None /\ leaving[m] = None
    /\ mpc' = [mpc EXCEPT ![m] = "acquire"]
    /\ UNCHANGED <<fst, pos, cont, res, threads, queue, slot, root, sem, got,
                   raised>>

(* Mistake: the thread does not wait. *)
AcquireAtOnce(m) ==
    /\ mpc[m] = "acquire"
    /\ sem' = [sem EXCEPT ![m] = 0] /\ mpc' = [mpc EXCEPT ![m] = "collect"]
    /\ UNCHANGED <<fst, pos, cont, res, threads, queue, slot, root, got,
                   raised>>

Acquire(m) ==
    /\ mpc[m] = "acquire" /\ sem[m] = 1
    /\ sem' = [sem EXCEPT ![m] = 0] /\ mpc' = [mpc EXCEPT ![m] = "collect"]
    /\ UNCHANGED <<fst, pos, cont, res, threads, queue, slot, root, got,
                   raised>>

(* A wait for a task without a result does not look at the exception. *)
Collect(m) ==
    /\ mpc[m] = "collect"
    /\ got' = [got EXCEPT ![m] = IF res[m] = "exception" /\ root[m] \notin Void
                                    THEN "throws" ELSE "returns"]
    /\ fst' = [fst EXCEPT ![m] = "destroyed"]
    /\ mpc' = [mpc EXCEPT ![m] = "free"]
    /\ UNCHANGED <<pos, cont, res, threads, queue, slot, root, sem, raised>>

Exit(m) ==
    /\ mpc[m] = "free" /\ \A v \in Names : slot[m][v] = None
    /\ mpc' = [mpc EXCEPT ![m] = "done"]
    /\ UNCHANGED <<fst, pos, cont, res, threads, queue, slot, root, sem, got,
                   raised>>

-----------------------------------------------------------------------------
(* A thread in the frame it runs. *)
Runs(t, f, state) == cur[t] = f /\ f # None /\ fst[f] = state

(* Mistake: the awaited task does not learn who waits for it. *)
AwaitTaskForgets(t, f) ==
    /\ Runs(t, f, "running") /\ pos[f] <= Len(Steps(f)) /\ Awaited(f) # Pool
    /\ fst' = [fst EXCEPT ![f] = "suspended", ![Awaited(f)] = "running"]
    /\ cur' = [cur EXCEPT ![t] = Awaited(f)]
    /\ UNCHANGED <<pos, cont, res, leaving, queue, slot, root, sem, mpc, got,
                   raised>>

(* co_await of a task, which for a body is a new temporary: it is told its *)
(* continuation, and the thread goes over to it.                           *)
AwaitTask(t, f) ==
    /\ Runs(t, f, "running") /\ pos[f] <= Len(Steps(f)) /\ Awaited(f) # Pool
    /\ cont' = [cont EXCEPT ![Awaited(f)] = f]
    /\ fst' = [fst EXCEPT ![f] = "suspended", ![Awaited(f)] = "running"]
    /\ cur' = [cur EXCEPT ![t] = Awaited(f)]
    /\ UNCHANGED <<pos, res, leaving, queue, slot, root, sem, mpc, got, raised>>

(* Mistake: await_suspend lets the coroutine go on. *)
AwaitPoolGoesOn(t, f) ==
    /\ Runs(t, f, "running") /\ pos[f] <= Len(Steps(f)) /\ Awaited(f) = Pool
    /\ submitted' = submitted \cup {f}
    /\ refused' = IF closed THEN refused \cup {f} ELSE refused
    /\ fst' = [fst EXCEPT ![f] = "resumed"]
    /\ UNCHANGED <<pos, cont, res, threads, closed, slot, root, sem, mpc, got,
                   raised>>

(* run_async pushes the handle; from there on a worker may resume the      *)
(* frame, and finish and destroy it, while t is still in await_suspend,    *)
(* where it has only the end of push and the assertion left.  The handle   *)
(* of a push that is refused is gone (without NDEBUG, so is the process).  *)
AwaitPool(t, f) ==
    /\ Runs(t, f, "running") /\ pos[f] <= Len(Steps(f)) /\ Awaited(f) = Pool
    /\ fst' = [fst EXCEPT ![f] = "suspended"]
    /\ submitted' = submitted \cup {f}
    /\ refused' = IF closed THEN refused \cup {f} ELSE refused
    /\ cur' = [cur EXCEPT ![t] = None] /\ leaving' = [leaving EXCEPT ![t] = f]
    /\ UNCHANGED <<pos, cont, res, closed, slot, root, sem, mpc, got, raised>>

(* Mistake: await_suspend has the last word on the frame, after the push. *)
LeaveMarks(t) ==
    /\ leaving[t] # None
    /\ fst' = [fst EXCEPT ![leaving[t]] = "suspended"]
    /\ leaving' = [leaving EXCEPT ![t] = None]
    /\ UNCHANGED <<pos, cont, res, cur, queue, slot, root, sem, mpc, got, raised>>

(* The thread is out of await_suspend, of the pool's or of the wait's. *)
Leave(t) ==
    /\ leaving[t] # None
    /\ leaving' = [leaving EXCEPT ![t] = None]
    /\ UNCHANGED <<fst, pos, cont, res, cur, queue, slot, root, sem, mpc, got, raised>>

(* A worker runs the wrapper that run_async queued. *)
Resume(w, f) ==
    /\ cur[w] = None /\ leaving[w] = None /\ f \in submitted \ refused
    /\ submitted' = submitted \ {f}
    /\ fst' = [fst EXCEPT ![f] = "resumed"] /\ cur' = [cur EXCEPT ![w] = f]
    /\ UNCHANGED <<pos, cont, res, leaving, closed, refused, slot, root, sem, mpc,
                   got, raised>>

(* The pool's destructor begins; it still runs what its queue took. *)
ClosePool ==
    /\ ~closed /\ closed' = TRUE
    /\ UNCHANGED <<fst, pos, cont, res, threads, submitted, refused, slot, root, sem,
                   mpc, got, raised>>

(* The temporary that a body awaited is destroyed with the await. *)
Temporary(f) == IF f \in Coros THEN {Awaited(f)} \ {Pool} ELSE {}
Rethrows(f) == Awaited(f) # Pool /\ res[Awaited(f)] = "exception"

(* Mistake: the stored exception is not thrown again. *)
AwaitResumeSwallows(t, f) ==
    /\ Runs(t, f, "resumed")
    /\ fst' = [g \in Frames |-> IF g \in Temporary(f) THEN "destroyed"
                                ELSE IF g = f THEN "running" ELSE fst[g]]
    /\ pos' = [pos EXCEPT ![f] = @ + 1]
    /\ UNCHANGED <<cont, res, threads, queue, slot, root, sem, mpc, got,
                   raised>>

(* await_resume: the result, or the exception, which ends a body that does *)
(* not catch it.                                                           *)
AwaitResume(t, f) ==
    LET ends == Rethrows(f) /\ f \notin Catches IN
    /\ Runs(t, f, "resumed")
    /\ fst' = [g \in Frames |->
                 IF g \in Temporary(f) THEN "destroyed"
                 ELSE IF g = f THEN (IF ends THEN "final" ELSE "running")
                 ELSE fst[g]]
    /\ res' = IF ends THEN [res EXCEPT ![f] = "exception"] ELSE res
    /\ pos' = IF ends THEN pos ELSE [pos EXCEPT ![f] = @ + 1]
    /\ UNCHANGED <<cont, threads, queue, slot, root, sem, mpc, got, raised>>

(* The end of a body: co_return (for the wait, co_yield of the result). *)
Return(t, f) ==
    /\ Runs(t, f, "running") /\ pos[f] > Len(Steps(f))
    /\ fst' = [fst EXCEPT ![f] = "final"] /\ res' = [res EXCEPT ![f] = "value"]
    /\ UNCHANGED <<pos, cont, threads, queue, slot, root, sem, mpc, got,
                   raised>>

Throw(t, f) ==
    /\ Runs(t, f, "running") /\ f \in MayThrow
    /\ fst' = [fst EXCEPT ![f] = "final"] /\ res' = [res EXCEPT ![f] = "exception"]
    /\ raised' = raised \cup {f}
    /\ UNCHANGED <<pos, cont, threads, queue, slot, root, sem, mpc, got>>

(* Mistake: the awaiter is not resumed. *)
FinalSuspendNoop(t, f) ==
    /\ Runs(t, f, "final") /\ f \in Coros
    /\ cur' = [cur EXCEPT ![t] = None]
    /\ UNCHANGED <<fst, pos, cont, res, leaving, queue, slot, root, sem, mpc, got,
                   raised>>

(* The final suspend of a task: the thread goes over to the awaiter. *)
FinalSuspend(t, f) ==
    /\ Runs(t, f, "final") /\ f \in Coros
    /\ cur' = [cur EXCEPT ![t] = cont[f]]
    /\ fst' = IF cont[f] = None THEN fst ELSE [fst EXCEPT ![cont[f]] = "resumed"]
    /\ UNCHANGED <<pos, cont, res, leaving, queue, slot, root, sem, mpc, got,
                   raised>>

(* Mistake: the thread is not done with the frame after the release. *)
NotifyStays(t, f) ==
    /\ Runs(t, f, "final") /\ f \in Mains
    /\ sem' = [sem EXCEPT ![f] = @ + 1]
    /\ UNCHANGED <<fst, pos, cont, res, threads, queue, slot, root, mpc, got,
                   raised>>

(* The final suspend of the wait.  Once the semaphore is released, m may   *)
(* destroy it and the frame, while t is still on its way out of both.      *)
Notify(t, f) ==
    /\ Runs(t, f, "final") /\ f \in Mains
    /\ sem' = [sem EXCEPT ![f] = @ + 1]
    /\ cur' = [cur EXCEPT ![t] = None] /\ leaving' = [leaving EXCEPT ![t] = f]
    /\ UNCHANGED <<fst, pos, cont, res, queue, slot, root, mpc, got, raised>>

(* What c leads to along next: what every set has that has c and is closed *)
(* under next.                                                             *)
LeadsTo(next, c) ==
    {d \in Coros :
        \A S \in SUBSET Coros : c \in S /\ (\A e \in S : next[e] \subseteq S) => d \in S}
Called == [c \in Coros |-> {Body[c][i] : i \in DOMAIN Body[c]} \ {Pool}]
Tree == [c \in Coros |-> LeadsTo(Called, c)]

(* One of the frames that m waits for is lost: m never returns. *)
Lost(m) == root[m] # None /\ mpc[m] = "acquire" /\ Tree[root[m]] \cap refused # {}

Finished == (\A m \in Mains : mpc[m] = "done" \/ Lost(m)) /\ UNCHANGED vars

-----------------------------------------------------------------------------
RunFrame(t) ==
    \E f \in Frames \cap {cur[t]} :
        \/ AwaitTask(t, f) \/ AwaitPool(t, f) \/ AwaitResume(t, f)
        \/ Return(t, f) \/ Throw(t, f) \/ FinalSuspend(t, f) \/ Notify(t, f)

Wait(m) == Started(m) \/ Acquire(m) \/ Collect(m)

Work(w) == \E f \in Frames : Resume(w, f)

Next ==
    \/ \E m \in Mains : \/ \E v \in Names, c \in Coros : Create(m, v, c)
                        \/ \E v, w \in Names : Move(m, v, w)
                        \/ \E v \in Names : Drop(m, v) \/ SyncWait(m, v)
                        \/ Wait(m) \/ Exit(m)
    \/ \E t \in Threads : RunFrame(t) \/ Leave(t)
    \/ \E w \in Workers : Work(w)
    \/ ClosePool \/ Finished

Spec == Init /\ [][Next]_vars

(* A thread that has something to do goes on: in a frame, in a wait, and a *)
(* worker with what the pool was given.                                    *)
FairSpec ==
    /\ Spec
    /\ \A m \in Mains : WF_vars(RunFrame(m) \/ Leave(m) \/ Wait(m))
    /\ \A w \in Workers : WF_vars(RunFrame(w) \/ Leave(w) \/ Work(w))

-----------------------------------------------------------------------------
(* Every handle that somebody may still use is one of a live frame in the  *)
(* state that use expects: a thread's, the pool's, a continuation's (until *)
(* it is taken), a Task variable's.                                        *)
NoDanglingHandle ==
    /\ \A t \in Threads : cur[t] # None =>
          fst[cur[t]] \in {"running", "resumed", "final"}
    /\ \A f \in submitted : fst[f] = "suspended"
    /\ \A c \in Coros :
          fst[c] \in {"running", "suspended", "resumed"} /\ cont[c] # None =>
             fst[cont[c]] = "suspended"
    /\ \A m \in Mains, v \in Names : slot[m][v] # None => fst[slot[m][v]] \in Live

(* A frame runs on one thread at a time, and a running one on some thread: *)
(* a worker that resumes it never meets the thread that suspended it.      *)
OneThread ==
    /\ \A t, u \in Threads : cur[t] = cur[u] /\ cur[t] # None => t = u
    /\ \A f \in Frames : fst[f] \in {"running", "resumed"} =>
          \E t \in Threads : cur[t] = f

(* A suspended frame is in somebody's hands: the pool's, unless its closed *)
(* queue refused the handle, or those of the task it awaits, which knows   *)
(* it and has not finished its own final suspend.  A refusal is the only   *)
(* way to lose a frame.                                                    *)
NoOrphan ==
    \A f \in Frames : fst[f] = "suspended" =>
        \/ f \in submitted
        \/ LET c == Awaited(f) IN
           /\ c # Pool /\ cont[c] = f
           /\ \/ fst[c] \in {"running", "suspended", "resumed"}
              \/ \E t \in Threads : cur[t] = c

(* A frame has one owner from its creation to its destruction (a variable, *)
(* or the await whose temporary it is): no leak, no double destroy.        *)
Owners(c) ==
    {o \in Mains \X Names : slot[o[1]][o[2]] = c}
    \cup {f \in Coros : fst[f] \in {"suspended", "resumed"} /\ Awaited(f) = c}
OneOwner ==
    \A c \in Coros : Cardinality(Owners(c)) = IF fst[c] \in Live THEN 1 ELSE 0

(* A frame is destroyed before it started or after its final suspend let   *)
(* go of it, whatever thread that was on; a thread may still be leaving it. *)
DestroyedAtRest ==
    [][\A f \in Frames : fst'[f] = "destroyed" /\ fst[f] # "destroyed" =>
          /\ fst[f] \in {"created", "final"}
          /\ \A t \in Threads : cur[t] # f]_vars

(* Promises, results and bodies are not locked.  They need not be: of all  *)
(* the frames below a wait exactly one is at work, on one thread or on its *)
(* way through the pool, until the wait is over, and none after that.  So  *)
(* threads hand the tree of calls on, never share it, and a thread that    *)
(* sleeps in sync_wait has just one frame to thank for its return: if the  *)
(* pool refuses that one, nobody is left to wake it.                       *)
Hands(f) == {t \in Threads : cur[t] = f} \cup (IF f \in submitted THEN {Pool} ELSE {})
Awaits(m) == mpc[m] \in {"start", "acquire"} /\ sem[m] = 0
OneAtWork ==
    \A m \in Mains : root[m] # None =>
        LET work == UNION {{f} \X Hands(f) : f \in {m} \cup Tree[root[m]]} IN
        IF Awaits(m) THEN \E f \in Frames, h \in Threads \cup {Pool} : work = {<<f, h>>}
                     ELSE work = {}

(* sync_wait throws if and only if a coroutine threw whose exception goes  *)
(* past every awaiter up to the task waited for: "sync_wait propagates     *)
(* exceptions from Task" (task_tests.cpp:41).                              *)
Passed == [c \in Coros |-> IF c \in Catches THEN {} ELSE Called[c]]
Reaching == [c \in Coros |-> LeadsTo(Passed, c)]
ExceptionReachesCaller ==
    [][\A m \in Mains : mpc[m] = "collect" /\ mpc'[m] = "free" =>
          (got'[m] = "throws" <=> Reaching[root[m]] \cap raised # {})]_vars

(* sync_wait returns, unless the pool lost one of the frames it waits for. *)
SyncWaitReturns ==
    \A m \in Mains :
        mpc[m] = "start" ~> mpc[m] = "free" \/ Lost(m)
=============================================================================
