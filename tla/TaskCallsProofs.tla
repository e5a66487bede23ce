---------------------------- MODULE TaskCallsProofs ----------------------------
(***************************************************************************)
(* Theorems about Tasks that concern a whole tree of calls: exactly one    *)
(* of its frames is at work while its wait lasts, and sync_wait throws if  *)
(* and only if an exception reached it.                                    *)
(*                                                                         *)
(* A tree is a least closed set, so what is said of every frame of one is  *)
(* proved from a set that is closed: the coroutines that have not started  *)
(* are closed under their calls (Fresh), and so are those that are neither *)
(* running nor suspended (Idle).                                           *)
(***************************************************************************)
EXTENDS TasksProofs

USE DEF threads, queue

(* What a coroutine leads to along a relation. *)
LEMMA LeadsToSet ==
    ASSUME NEW next \in [Coros -> SUBSET Coros], NEW c \in Coros
    PROVE  /\ LeadsTo(next, c) \subseteq Coros
           /\ c \in LeadsTo(next, c)
           /\ \A e \in LeadsTo(next, c) : next[e] \subseteq LeadsTo(next, c)
BY DEF LeadsTo

LEMMA LeadsToLeast ==
    ASSUME NEW next, NEW c, NEW S, S \subseteq Coros, c \in S,
           \A e \in S : next[e] \subseteq S
    PROVE  LeadsTo(next, c) \subseteq S
BY DEF LeadsTo

(* Whoever is led to is led to by somebody. *)
LEMMA LeadsToFrom ==
    ASSUME NEW next \in [Coros -> SUBSET Coros], NEW c \in Coros,
           NEW d \in LeadsTo(next, c), d # c
    PROVE  \E e \in LeadsTo(next, c) : d \in next[e]
<1> DEFINE S == LeadsTo(next, c) \ {d}
<1>1. SUFFICES ASSUME \A e \in LeadsTo(next, c) : d \notin next[e] PROVE FALSE
  OBVIOUS
<1>2. S \in SUBSET Coros /\ c \in S /\ \A e \in S : next[e] \subseteq S
  BY <1>1, LeadsToSet
<1>3. LeadsTo(next, c) \subseteq S
  BY <1>2, LeadsToLeast
<1> QED BY <1>3

(* The first step, and then the rest. *)
LEMMA LeadsToUnfold ==
    ASSUME NEW next \in [Coros -> SUBSET Coros], NEW c \in Coros
    PROVE  LeadsTo(next, c) = {c} \cup UNION {LeadsTo(next, e) : e \in next[c]}
<1> DEFINE S == {c} \cup UNION {LeadsTo(next, e) : e \in next[c]}
<1>1. S \in SUBSET Coros /\ c \in S
  BY LeadsToSet
<1>2. ASSUME NEW e \in S PROVE next[e] \subseteq S
  <2>1. CASE e = c
    BY <2>1, LeadsToSet
  <2>2. CASE e # c
    <3>1. PICK d \in next[c] : e \in LeadsTo(next, d)
      BY <1>2, <2>2
    <3>2. next[e] \subseteq LeadsTo(next, d)
      BY <3>1, LeadsToSet
    <3> QED BY <3>2
  <2> QED BY <2>1, <2>2
<1>3. LeadsTo(next, c) \subseteq S
  <2> HIDE DEF S
  <2> QED BY <1>1, <1>2, LeadsToLeast
<1>4. ASSUME NEW d \in next[c] PROVE LeadsTo(next, d) \subseteq LeadsTo(next, c)
  <2>1. d \in LeadsTo(next, c) /\ LeadsTo(next, c) \in SUBSET Coros
    BY LeadsToSet
  <2> QED BY <2>1, LeadsToSet, LeadsToLeast
<1>5. S \subseteq LeadsTo(next, c)
  BY <1>4, LeadsToSet
<1> QED BY <1>3, <1>5

(* Calls, and the calls that exceptions come back through. *)
LEMMA CallTypes ==
    /\ Called \in [Coros -> SUBSET Coros] /\ Passed \in [Coros -> SUBSET Coros]
    /\ \A c \in Coros : Passed[c] \subseteq Called[c]
    /\ \A c \in Coros : Tree[c] = LeadsTo(Called, c) /\ Reaching[c] = LeadsTo(Passed, c)
    /\ \A c \in Coros : \A d : d \in Called[c] <=> d # Pool /\ \E i \in DOMAIN Body[c] : d = Body[c][i]
<1>1. Called \in [Coros -> SUBSET Coros]
  BY BodyAssumption DEF Called
<1>2. \A c \in Coros : \A d : d \in Called[c] <=> d # Pool /\ \E i \in DOMAIN Body[c] : d = Body[c][i]
  BY DEF Called
<1> QED BY <1>1, <1>2 DEF Passed, Tree, Reaching

(* A coroutine has one caller; a root has none. *)
LEMMA OneCaller ==
    ASSUME NEW c \in Coros, NEW d \in Called[c]
    PROVE  /\ d \in Coros /\ d \in Frames
           /\ \A e \in Coros : d \in Called[e] => e = c
           /\ \A m \in Mains : d \notin Roots[m]
BY CallTypes, CalledOnceAssumption DEF Frames

-----------------------------------------------------------------------------
StartInv == \A c \in Coros : fst[c] \in {"none", "created"} => pos[c] = 1
RootInv == \A m \in Mains : root[m] \in Roots[m] \cup {None}

(* Who is on a thread or on its way through the pool. *)
AtWork(f) == f \in submitted \/ \E t \in Threads : cur[t] = f

BaseInv == IInv /\ StartInv /\ RootInv

(* Closed sets. *)
Fresh == {c \in Coros : fst[c] \in {"none", "created"}}
Idle == {c \in Coros : fst[c] \notin {"running", "suspended", "resumed"}}

LEMMA FreshClosed ==
    ASSUME IInv, StartInv, NEW c \in Fresh
    PROVE  Called[c] \subseteq Fresh
<1> SUFFICES ASSUME NEW d \in Called[c] PROVE fst[d] = "none"
  BY CallTypes, OneCaller DEF Fresh
<1>1. PICK i \in DOMAIN Body[c] : d = Body[c][i] /\ d # Pool
  BY CallTypes DEF Fresh
<1>2. c \in Coros /\ pos[c] = 1 /\ fst[c] \in {"none", "created"}
  BY DEF StartInv, Fresh
<1>3. i \in Nat /\ i >= 1
  BY <1>2, BodyAssumption
<1>4. NotYet(c, i)
  BY <1>2, <1>3 DEF NotYet
<1> QED BY <1>1, <1>2, <1>4, Basics DEF FreshInv

(* Whoever called a busy coroutine is suspended there. *)
LEMMA BusyCallee ==
    ASSUME IInv, NEW c \in Coros, NEW d \in Called[c], Busy(d)
    PROVE  fst[c] = "suspended" /\ Awaited(c) = d /\ cont[d] = c /\ pos[c] \in DOMAIN Body[c]
<1>1. d \in Coros /\ d # Pool
  BY OneCaller, CallTypes
<1>2. cont[d] \in Frames /\ fst[cont[d]] = "suspended" /\ Awaited(cont[d]) = d
  BY <1>1, Basics DEF ContInv
<1> DEFINE g == cont[d]
<1>3. pos[g] <= Len(Steps(g))
  BY <1>2, Basics DEF AwaitInv
<1>4. CASE g \in Mains
  <2>1. d \in Roots[g]
    BY <1>2, <1>3, <1>4, AwaitedType
  <2> QED BY <1>4, <2>1, OneCaller
<1>5. CASE g \in Coros
  <2>1. pos[g] \in DOMAIN Body[g] /\ d = Body[g][pos[g]]
    BY <1>2, <1>3, <1>5, AwaitedType
  <2>2. d \in Called[g]
    BY <1>1, <1>5, <2>1, CallTypes
  <2>3. g = c
    BY <1>5, <2>2, OneCaller
  <2> QED BY <1>2, <2>1, <2>3
<1> QED BY <1>2, <1>4, <1>5 DEF Frames

LEMMA IdleClosed ==
    ASSUME IInv, NEW c \in Idle
    PROVE  Called[c] \subseteq Idle
<1> SUFFICES ASSUME NEW d \in Called[c], Busy(d) PROVE FALSE
  BY OneCaller DEF Idle, Busy
<1> QED BY BusyCallee DEF Idle

LEMMA FreshTree ==
    ASSUME IInv, StartInv, NEW c \in Fresh
    PROVE  Tree[c] \subseteq Fresh
<1>1. c \in Coros /\ Fresh \in SUBSET Coros
  BY DEF Fresh
<1> QED BY <1>1, FreshClosed, CallTypes, LeadsToLeast

LEMMA IdleReaching ==
    ASSUME IInv, NEW c \in Idle
    PROVE  Reaching[c] \subseteq Idle
<1>1. c \in Coros /\ Idle \in SUBSET Coros
  BY DEF Idle
<1>2. \A e \in Idle : Passed[e] \subseteq Idle
  BY <1>1, IdleClosed, CallTypes
<1> QED BY <1>1, <1>2, CallTypes, LeadsToLeast

-----------------------------------------------------------------------------
(* What the steps leave of the base. *)
LEMMA BaseInit == Init => BaseInv
<1> SUFFICES ASSUME Init PROVE BaseInv
  OBVIOUS
<1>1. StartInv
  BY DEF Init, StartInv, Frames
<1>2. RootInv
  BY DEF Init, RootInv
<1> QED BY <1>1, <1>2, InitInv DEF BaseInv

LEMMA StartStep ==
    ASSUME BaseInv, [Next]_vars
    PROVE  StartInv'
<1> SUFFICES ASSUME NEW c \in Coros, fst'[c] \in {"none", "created"} PROVE pos'[c] = 1
  BY DEF StartInv
<1>0. FrameTypes /\ c \in Frames /\ c \notin Mains /\ c # None
      /\ (fst[c] \in {"none", "created"} => pos[c] = 1)
  BY Basics DEF BaseInv, StartInv
<1>1. ASSUME NEW m \in Mains, NEW v \in Names, SyncWait(m, v) PROVE pos'[c] = 1
  BY <1>0, <1>1 DEF SyncWait, FrameTypes
<1>2. ASSUME NEW t \in Threads, NEW f \in Frames, AwaitResume(t, f) PROVE pos'[c] = 1
  BY <1>0, <1>2 DEF AwaitResume, FrameTypes, Runs
<1>3. ASSUME NEW m \in Mains, NEW v \in Names, NEW d \in Coros, Create(m, v, d)
      PROVE  pos'[c] = 1
  BY <1>0, <1>3 DEF Create, FrameTypes
<1>4. ASSUME NEW m \in Mains, NEW v \in Names, NEW w \in Names, Move(m, v, w) \/ Drop(m, v)
      PROVE  pos'[c] = 1
  BY <1>0, <1>4 DEF Move, Drop, DestroyOwned, FrameTypes
<1>5. ASSUME NEW m \in Mains, Wait(m) \/ Exit(m) PROVE pos'[c] = 1
  BY <1>0, <1>5 DEF Wait, Started, Acquire, Collect, Exit, FrameTypes
<1>6. ASSUME NEW t \in Threads, NEW f \in Frames, AwaitTask(t, f) PROVE pos'[c] = 1
  BY <1>0, <1>6 DEF AwaitTask, FrameTypes
<1>7. ASSUME NEW t \in Threads, NEW f \in Frames, AwaitPool(t, f) \/ Return(t, f) \/ Throw(t, f)
      PROVE  pos'[c] = 1
  BY <1>0, <1>7 DEF AwaitPool, Return, Throw, FrameTypes
<1>8. ASSUME NEW t \in Threads, NEW f \in Frames, FinalSuspend(t, f) \/ Notify(t, f)
      PROVE  pos'[c] = 1
  BY <1>0, <1>8 DEF FinalSuspend, Notify, FrameTypes
<1>9. ASSUME NEW w \in Workers, NEW f \in Frames, Resume(w, f) PROVE pos'[c] = 1
  BY <1>0, <1>9 DEF Resume, FrameTypes
<1>10. CASE (\E t \in Threads : Leave(t)) \/ ClosePool \/ UNCHANGED vars
  BY <1>0, <1>10 DEF Leave, ClosePool, vars
<1>11. CASE \E m \in Mains : \/ \E v \in Names, d \in Coros : Create(m, v, d)
                             \/ \E v, w \in Names : Move(m, v, w)
                             \/ \E v \in Names : Drop(m, v) \/ SyncWait(m, v)
                             \/ Wait(m) \/ Exit(m)
  BY <1>11, <1>1, <1>3, <1>4, <1>5
<1>12. CASE \E t \in Threads : RunFrame(t)
  BY <1>12, <1>2, <1>6, <1>7, <1>8 DEF RunFrame
<1> QED BY <1>9, <1>10, <1>11, <1>12 DEF Next, Work, Finished

LEMMA RootStep ==
    ASSUME BaseInv, [Next]_vars
    PROVE  RootInv'
<1>1. ASSUME NEW m \in Mains, NEW v \in Names, SyncWait(m, v) PROVE RootInv'
  <2>1. slot[m][v] \in Roots[m] /\ root' = [root EXCEPT ![m] = slot[m][v]]
    BY <1>1, Basics DEF BaseInv, SyncWait, SlotInv
  <2> QED BY <2>1, Basics DEF BaseInv, RootInv, FrameTypes
<1>2. UNCHANGED root \/ \E m \in Mains, v \in Names : SyncWait(m, v)
  <2>1. ASSUME NEW t \in Threads, RunFrame(t) PROVE UNCHANGED root
    BY <2>1 DEF RunFrame, AwaitTask, AwaitPool, AwaitResume, Return, Throw, FinalSuspend, Notify
  <2> QED BY <2>1 DEF Next, Create, Move, Drop, Wait, Started, Acquire, Collect, Exit, Resume,
                     Work, Leave, ClosePool, Finished, vars
<1> QED BY <1>1, <1>2 DEF BaseInv, RootInv

LEMMA BaseStep == ASSUME BaseInv, [Next]_vars PROVE BaseInv'
BY StartStep, RootStep, NextInv DEF BaseInv

-----------------------------------------------------------------------------
Below(m) == {m} \cup Tree[root[m]]

(* The tree of a wait: a task of its thread's and what that leads to. *)
LEMMA BelowType ==
    ASSUME BaseInv, NEW m \in Mains, root[m] # None
    PROVE  /\ root[m] \in Roots[m] /\ root[m] \in Coros
           /\ Tree[root[m]] \subseteq Coros /\ root[m] \in Tree[root[m]]
           /\ Below(m) \subseteq Frames
           /\ \A k \in Mains : k \in Below(m) => k = m
<1>1. root[m] \in Roots[m] /\ root[m] \in Coros
  BY Basics DEF BaseInv, RootInv
<1>2. Tree[root[m]] \subseteq Coros /\ root[m] \in Tree[root[m]]
  BY <1>1, CallTypes, LeadsToSet
<1> QED BY <1>1, <1>2, Basics DEF Below, Frames, BaseInv

(* Whoever awaits and what it awaits are in the same trees. *)
Links(f, d) == (f \in Coros /\ d \in Called[f]) \/ (f \in Mains /\ d = root[f] /\ d # None)

LEMMA SameTree ==
    ASSUME BaseInv, NEW f, NEW d, Links(f, d), NEW m \in Mains, root[m] # None
    PROVE  f \in Below(m) <=> d \in Below(m)
<1> DEFINE r == root[m]
<1>0. /\ r \in Roots[m] /\ r \in Coros /\ Tree[r] = LeadsTo(Called, r)
      /\ Called \in [Coros -> SUBSET Coros] /\ Tree[r] \subseteq Coros
  BY BelowType, CallTypes
<1>1. CASE f \in Coros /\ d \in Called[f]
  <2>1. d \in Coros /\ f \notin Mains /\ d \notin Mains /\ d # r
    BY <1>0, <1>1, OneCaller, Basics DEF BaseInv
  <2>2. f \in Tree[r] => d \in Tree[r]
    BY <1>0, <1>1, LeadsToSet
  <2>3. d \in Tree[r] => \E e \in Tree[r] : d \in Called[e]
    BY <1>0, <2>1, LeadsToFrom
  <2>4. d \in Tree[r] => f \in Tree[r]
    BY <1>0, <1>1, <2>3, OneCaller
  <2> QED BY <2>1, <2>2, <2>4 DEF Below
<1>2. CASE f \in Mains /\ d = root[f] /\ d # None
  <2>1. d \in Roots[f] /\ d \in Coros /\ d \in Tree[d] /\ d \notin Mains
    BY <1>2, BelowType, Basics DEF BaseInv
  <2>2. f \in Below(m) => f = m
    BY <1>2, BelowType
  <2>3. f = m => d \in Below(m)
    BY <1>2, <2>1 DEF Below
  <2>4. ASSUME d \in Below(m) PROVE f = m
    <3>1. d \in Tree[r]
      BY <2>1, <2>4 DEF Below
    <3>2. d = r
      <4> SUFFICES ASSUME d # r PROVE FALSE
        OBVIOUS
      <4>1. PICK e \in Tree[r] : d \in Called[e]
        BY <1>0, <3>1, LeadsToFrom
      <4> QED BY <1>0, <1>2, <2>1, <4>1, OneCaller
    <3> QED BY <1>0, <1>2, <2>1, <3>2, CalledOnceAssumption
  <2> QED BY <2>2, <2>3, <2>4 DEF Below
<1> QED BY <1>1, <1>2 DEF Links

LEMMA AwaitLinks ==
    ASSUME BaseInv, NEW f \in Frames, fst[f] \in {"running", "suspended", "resumed"},
           pos[f] <= Len(Steps(f)), Awaited(f) # Pool
    PROVE  Awaited(f) \in Coros /\ Links(f, Awaited(f))
<1>1. Awaited(f) \in Coros
  BY AwaitedType DEF BaseInv
<1>2. CASE f \in Coros
  BY <1>2, AwaitedType, CallTypes DEF BaseInv, Links
<1>3. CASE f \in Mains
  BY <1>1, <1>3, AwaitedType, Basics DEF BaseInv, Links
<1> QED BY <1>1, <1>2, <1>3 DEF Frames

-----------------------------------------------------------------------------
Working(m) == {f \in Below(m) : AtWork(f)}
WorkInv ==
    \A m \in Mains : root[m] # None =>
        IF Awaits(m) THEN \E f \in Frames : Working(m) = {f} ELSE Working(m) = {}

(* A frame at work is in one pair of hands. *)
LEMMA AtWorkIs ==
    ASSUME IInv, NEW f \in Frames
    PROVE  /\ AtWork(f) <=> f \in submitted \/ OnThread(f)
           /\ AtWork(f) => fst[f] \in {"running", "resumed", "final", "suspended"}
           /\ f \in submitted => ~OnThread(f)
           /\ \A t, u \in Threads : cur[t] = f /\ cur[u] = f => t = u
BY Basics DEF AtWork, OnThread, PoolInv, ThreadInv, OneThread

(* Nothing changes at work: the same frames, for the same waits. *)
LEMMA WorkGoesOn ==
    ASSUME BaseInv, WorkInv, UNCHANGED root,
           \A f \in Frames : AtWork(f)' <=> AtWork(f),
           \A m \in Mains : Awaits(m)' <=> Awaits(m)
    PROVE  WorkInv'
<1>1. ASSUME NEW m \in Mains, root[m] # None PROVE Working(m)' = Working(m)
  BY <1>1, BelowType DEF Working, Below
<1> QED BY <1>1 DEF WorkInv

(* The work goes over from f to g, of the same trees. *)
LEMMA WorkGoesOver ==
    ASSUME BaseInv, WorkInv, UNCHANGED root, NEW f \in Frames, NEW g \in Frames, f # g,
           AtWork(f), \A m \in Mains : root[m] # None => (f \in Below(m) <=> g \in Below(m)),
           \A h \in Frames : AtWork(h)' <=> h = g \/ (AtWork(h) /\ h # f),
           \A m \in Mains : Awaits(m)' <=> Awaits(m)
    PROVE  WorkInv'
<1> SUFFICES ASSUME NEW m \in Mains, root[m] # None
             PROVE  IF Awaits(m) THEN \E h \in Frames : Working(m)' = {h}
                                 ELSE Working(m)' = {}
  BY DEF WorkInv
<1>1. Below(m)' = Below(m) /\ Below(m) \subseteq Frames
  BY BelowType DEF Below
<1>2. CASE f \in Below(m)
  <2>1. f \in Working(m)
    BY <1>2 DEF Working
  <2>2. Awaits(m) /\ Working(m) = {f}
    BY <2>1 DEF WorkInv
  <2>3. Working(m)' = {g}
    BY <1>1, <1>2, <2>2 DEF Working
  <2> QED BY <2>2, <2>3
<1>3. CASE f \notin Below(m)
  <2>1. Working(m)' = Working(m)
    BY <1>1, <1>3 DEF Working
  <2> QED BY <2>1 DEF WorkInv
<1> QED BY <1>2, <1>3

LEMMA SyncWaitWork ==
    ASSUME BaseInv, WorkInv, NEW m \in Mains, NEW v \in Names, SyncWait(m, v), BaseInv'
    PROVE  WorkInv'
<1> DEFINE c == slot[m][v]
<1>0. FrameTypes /\ WaitInv /\ IInv
  BY Basics DEF BaseInv
<1>1. /\ c \in Coros /\ fst[c] = "created" /\ mpc[m] = "free" /\ c # None
      /\ root' = [root EXCEPT ![m] = c] /\ sem' = [sem EXCEPT ![m] = 0]
      /\ cur' = [cur EXCEPT ![m] = m] /\ mpc' = [mpc EXCEPT ![m] = "start"]
      /\ submitted' = submitted
  BY <1>0 DEF SyncWait, FrameTypes
<1>2. m \in Threads /\ m \in Frames /\ m # None /\ cur[m] = None
  BY <1>0, <1>1, Basics DEF WaitInv, FrameTypes
<1>3. \A f \in Frames : AtWork(f)' <=> AtWork(f) \/ f = m
  BY <1>0, <1>1, <1>2, Basics DEF AtWork, FrameTypes
<1>4. \A k \in Mains : k # m => (Awaits(k)' <=> Awaits(k)) /\ root'[k] = root[k]
  BY <1>0, <1>1 DEF Awaits, FrameTypes
<1>5. Awaits(m)' /\ root'[m] = c
  BY <1>0, <1>1 DEF Awaits, FrameTypes
<1>6. Working(m)' = {m}
  <2>1. Tree[c] \subseteq Fresh /\ Tree[c] \subseteq Frames
    BY <1>0, <1>1, FreshTree, CallTypes, LeadsToSet DEF Fresh, BaseInv, Frames
  <2>2. \A f \in Tree[c] : ~AtWork(f)
    BY <1>0, <2>1, AtWorkIs DEF Fresh
  <2>3. \A f \in Tree[c] : f # m
    BY <1>0, <2>1, Basics DEF Fresh
  <2>4. Below(m)' = {m} \cup Tree[c]
    BY <1>5 DEF Below
  <2>5. Working(m)' = {f \in {m} \cup Tree[c] : AtWork(f)'}
    BY <2>4 DEF Working
  <2> QED BY <1>2, <1>3, <2>1, <2>2, <2>3, <2>5
<1>7. ASSUME NEW k \in Mains, k # m, root[k] # None PROVE Working(k)' = Working(k)
  <2>1. Below(k)' = Below(k)
    BY <1>4, <1>7 DEF Below
  <2>2. Below(k) \subseteq Frames /\ m \notin Below(k)
    BY <1>7, BelowType
  <2> QED BY <1>3, <2>1, <2>2 DEF Working
<1> SUFFICES ASSUME NEW k \in Mains, root'[k] # None
             PROVE  IF Awaits(k)' THEN \E f \in Frames : Working(k)' = {f}
                                  ELSE Working(k)' = {}
  BY DEF WorkInv
<1>8. CASE k = m
  BY <1>2, <1>5, <1>6, <1>8
<1>9. CASE k # m
  BY <1>4, <1>7, <1>9 DEF WorkInv
<1> QED BY <1>8, <1>9

(* Steps of a main thread that change nobody's work. *)
LEMMA QuietWork ==
    ASSUME BaseInv, WorkInv, NEW m \in Mains,
           \/ \E v \in Names : Drop(m, v) \/ \E c \in Coros : Create(m, v, c)
           \/ \E v, w \in Names : Move(m, v, w)
           \/ Wait(m) \/ Exit(m)
    PROVE  WorkInv'
<1>1. UNCHANGED <<root, cur, submitted>>
  BY DEF Drop, Create, Move, Wait, Started, Acquire, Collect, Exit
<1>2. \A f \in Frames : AtWork(f)' <=> AtWork(f)
  BY <1>1 DEF AtWork
<1>3. \A k \in Mains : Awaits(k)' <=> Awaits(k)
  <2>1. CASE Acquire(m)
    BY <2>1, Basics DEF BaseInv, Acquire, Awaits, FrameTypes
  <2>2. CASE Started(m) \/ Collect(m) \/ Exit(m)
    BY <2>2, Basics DEF BaseInv, Started, Collect, Exit, Awaits, FrameTypes
  <2>3. CASE UNCHANGED <<mpc, sem>>
    BY <2>3 DEF Awaits
  <2> QED BY <2>1, <2>2, <2>3 DEF Drop, Create, Move, Wait
<1> QED BY <1>1, <1>2, <1>3, WorkGoesOn

LEMMA BodyWork ==
    ASSUME BaseInv, WorkInv, NEW t \in Threads, NEW f \in Frames,
           AwaitResume(t, f) \/ Return(t, f) \/ Throw(t, f)
    PROVE  WorkInv'
<1>1. UNCHANGED <<root, cur, submitted, mpc, sem>>
  BY DEF AwaitResume, Return, Throw
<1> QED BY <1>1, WorkGoesOn DEF AtWork, Awaits

LEMMA PoolWork ==
    ASSUME BaseInv, WorkInv, NEW t \in Threads, NEW f \in Frames,
           AwaitPool(t, f) \/ Resume(t, f)
    PROVE  WorkInv'
<1>0. IInv /\ FrameTypes /\ f # None
  BY Basics DEF BaseInv
<1>1. UNCHANGED <<root, mpc, sem>>
  BY DEF AwaitPool, Resume
<1>2. ASSUME NEW h \in Frames PROVE AtWork(h)' <=> AtWork(h)
  <2>0. h # None
    BY <1>0, Basics
  <2>1. CASE AwaitPool(t, f)
    <3>1. submitted' = submitted \cup {f} /\ cur[t] = f /\ cur' = [cur EXCEPT ![t] = None]
      BY <2>1 DEF AwaitPool, Runs
    <3> QED BY <1>0, <2>0, <3>1 DEF AtWork, FrameTypes
  <2>2. CASE Resume(t, f)
    <3>1. /\ submitted' = submitted \ {f} /\ f \in submitted /\ cur[t] = None
          /\ cur' = [cur EXCEPT ![t] = f]
      BY <2>2 DEF Resume
    <3> QED BY <1>0, <2>0, <3>1 DEF AtWork, FrameTypes
  <2> QED BY <2>1, <2>2
<1> QED BY <1>1, <1>2, WorkGoesOn DEF Awaits

LEMMA AwaitWork ==
    ASSUME BaseInv, WorkInv, NEW t \in Threads, NEW f \in Frames, AwaitTask(t, f)
    PROVE  WorkInv'
<1> DEFINE d == Awaited(f)
<1>0. IInv /\ FrameTypes /\ f # None
  BY Basics DEF BaseInv
<1>1. /\ cur[t] = f /\ fst[f] = "running" /\ pos[f] <= Len(Steps(f)) /\ d # Pool
      /\ cur' = [cur EXCEPT ![t] = d] /\ UNCHANGED <<root, mpc, sem, submitted>>
  BY DEF AwaitTask, Runs
<1>2. d \in Coros /\ Links(f, d) /\ d \in Frames
  BY <1>1, AwaitLinks DEF Frames
<1>3. \A m \in Mains : root[m] # None => (f \in Below(m) <=> d \in Below(m))
  BY <1>2, SameTree
<1>4. f # d
  <2>1. CASE f \in Coros
    <3>1. PICK i \in DOMAIN Body[f] : i = pos[f] /\ d = Body[f][i]
      BY <1>0, <1>1, <2>1, AwaitedType
    <3>2. fst[d] = "none"
      BY <1>0, <1>1, <2>1, <3>1, Basics DEF FreshInv, NotYet
    <3> QED BY <1>1, <3>2
  <2>2. CASE f \in Mains
    BY <1>0, <1>2, <2>2, Basics
  <2> QED BY <2>1, <2>2 DEF Frames
<1>5. AtWork(f) /\ f \notin submitted /\ \A u \in Threads : cur[u] = f => u = t
  BY <1>0, <1>1, AtWorkIs, Basics DEF OnThread
<1>6. ASSUME NEW h \in Frames PROVE AtWork(h)' <=> h = d \/ (AtWork(h) /\ h # f)
  BY <1>0, <1>1, <1>4, <1>5 DEF AtWork, FrameTypes
<1> HIDE DEF d
<1> QED BY <1>1, <1>2, <1>3, <1>4, <1>5, <1>6, WorkGoesOver DEF Awaits

LEMMA FinalWork ==
    ASSUME BaseInv, WorkInv, NEW t \in Threads, NEW f \in Frames, FinalSuspend(t, f)
    PROVE  WorkInv'
<1> DEFINE g == cont[f]
<1>0. IInv /\ FrameTypes /\ f # None /\ f \in Coros
  BY Basics DEF BaseInv, FinalSuspend
<1>1. /\ cur[t] = f /\ fst[f] = "final"
      /\ cur' = [cur EXCEPT ![t] = g] /\ UNCHANGED <<root, mpc, sem, submitted>>
  BY DEF FinalSuspend, Runs
<1>2. g \in Frames /\ fst[g] = "suspended" /\ Awaited(g) = f /\ f # Pool
  BY <1>0, <1>1, Basics DEF ContInv, Busy, OnThread
<1>3. Links(g, f)
  BY <1>0, <1>2, AwaitLinks, Basics DEF AwaitInv
<1>4. \A m \in Mains : root[m] # None => (f \in Below(m) <=> g \in Below(m))
  BY <1>3, SameTree
<1>5. AtWork(f) /\ f \notin submitted /\ \A u \in Threads : cur[u] = f => u = t
  BY <1>0, <1>1, AtWorkIs, Basics DEF OnThread
<1>6. f # g
  BY <1>1, <1>2
<1>7. ASSUME NEW h \in Frames PROVE AtWork(h)' <=> h = g \/ (AtWork(h) /\ h # f)
  BY <1>0, <1>1, <1>5, <1>6 DEF AtWork, FrameTypes
<1> HIDE DEF g
<1> QED BY <1>1, <1>2, <1>4, <1>5, <1>6, <1>7, WorkGoesOver DEF Awaits

(* The wait is over: its own frame was the last at work. *)
LEMMA NotifyWork ==
    ASSUME BaseInv, WorkInv, NEW t \in Threads, NEW m \in Frames, Notify(t, m)
    PROVE  WorkInv'
<1>0. IInv /\ FrameTypes /\ m # None /\ m \in Mains
  BY Basics DEF BaseInv, Notify
<1>1. /\ cur[t] = m /\ fst[m] = "final"
      /\ sem' = [sem EXCEPT ![m] = @ + 1]
      /\ cur' = [cur EXCEPT ![t] = None] /\ UNCHANGED <<root, mpc, submitted>>
  BY DEF Notify, Runs
<1>2. AtWork(m) /\ m \notin submitted /\ \A u \in Threads : cur[u] = m => u = t
  BY <1>0, <1>1, AtWorkIs, Basics DEF OnThread
<1>3. ASSUME NEW h \in Frames PROVE AtWork(h)' <=> AtWork(h) /\ h # m
  BY <1>0, <1>1, <1>2, Basics DEF AtWork, FrameTypes
<1>4. ~Awaits(m)' /\ \A k \in Mains : k # m => (Awaits(k)' <=> Awaits(k))
  <2>1. sem[m] \in 0 .. 1 /\ sem'[m] = sem[m] + 1 /\ \A k \in Mains : k # m => sem'[k] = sem[k]
    BY <1>0, <1>1 DEF FrameTypes
  <2>2. sem'[m] # 0
    BY <2>1
  <2> QED BY <1>1, <2>1, <2>2 DEF Awaits
<1> SUFFICES ASSUME NEW k \in Mains, root[k] # None
             PROVE  IF Awaits(k)' THEN \E f \in Frames : Working(k)' = {f}
                                  ELSE Working(k)' = {}
  BY <1>1 DEF WorkInv
<1>5. Below(k)' = Below(k) /\ Below(k) \subseteq Frames /\ (m \in Below(k) <=> k = m)
  BY <1>0, <1>1, BelowType DEF Below
<1>6. CASE k = m
  <2>1. m \in Working(m)
    BY <1>2, <1>5, <1>6 DEF Working
  <2>2. Working(m) = {m}
    BY <1>0, <1>6, <2>1 DEF WorkInv
  <2> QED BY <1>3, <1>4, <1>5, <1>6, <2>2 DEF Working
<1>7. CASE k # m
  <2>1. Working(k)' = Working(k)
    BY <1>3, <1>5, <1>7 DEF Working
  <2> QED BY <1>4, <1>7, <2>1 DEF WorkInv
<1> QED BY <1>6, <1>7

LEMMA WorkStep ==
    ASSUME BaseInv, WorkInv, [Next]_vars, BaseInv'
    PROVE  WorkInv'
<1>1. CASE \E m \in Mains : \/ \E v \in Names, c \in Coros : Create(m, v, c)
                            \/ \E v, w \in Names : Move(m, v, w)
                            \/ \E v \in Names : Drop(m, v) \/ SyncWait(m, v)
                            \/ Wait(m) \/ Exit(m)
  BY <1>1, SyncWaitWork, QuietWork
<1>2. CASE \E t \in Threads : RunFrame(t)
  BY <1>2, BodyWork, PoolWork, AwaitWork, FinalWork, NotifyWork DEF RunFrame
<1>3. ASSUME NEW w \in Workers, NEW f \in Frames, Resume(w, f) PROVE WorkInv'
  BY <1>3, PoolWork DEF Threads
<1>4. CASE (\E t \in Threads : Leave(t)) \/ ClosePool \/ UNCHANGED vars
  <2>1. UNCHANGED <<root, cur, submitted, mpc, sem>>
    BY <1>4 DEF Leave, ClosePool, vars
  <2> QED BY <2>1, WorkGoesOn DEF AtWork, Awaits
<1> QED BY <1>1, <1>2, <1>3, <1>4 DEF Next, Work, Finished

(* While a wait lasts exactly one frame below it is at work, on a thread   *)
(* or handed to the pool, and afterwards none: promises and results need   *)
(* no lock, and whoever sleeps in sync_wait has one frame that works for   *)
(* it (task.hpp:57, sync_wait.hpp:163).                                    *)
THEOREM OneFrameIsAtWork == Spec => []OneAtWork
<1>1. Init => BaseInv /\ WorkInv
  <2>1. Init => WorkInv
    BY DEF Init, WorkInv
  <2> QED BY <2>1, BaseInit
<1>2. BaseInv /\ WorkInv /\ [Next]_vars => (BaseInv /\ WorkInv)'
  BY BaseStep, WorkStep
<1>3. IInv /\ WorkInv => OneAtWork
  <2> SUFFICES ASSUME IInv, WorkInv, NEW m \in Mains, root[m] # None
               PROVE  LET work == UNION {{f} \X Hands(f) : f \in Below(m)} IN
                      IF Awaits(m)
                        THEN \E f \in Frames, h \in Threads \cup {Pool} : work = {<<f, h>>}
                        ELSE work = {}
    BY DEF OneAtWork, Below
  <2> DEFINE work == UNION {{f} \X Hands(f) : f \in Below(m)}
  <2>1. \A f : Hands(f) # {} <=> AtWork(f)
    BY DEF Hands, AtWork
  <2>2. CASE Awaits(m)
    <3>1. PICK f \in Frames : Working(m) = {f}
      BY <2>2 DEF WorkInv
    <3>2. f \in Below(m) /\ AtWork(f) /\ \A g \in Below(m) : g # f => Hands(g) = {}
      BY <2>1, <3>1 DEF Working
    <3>3. PICK h \in Threads \cup {Pool} : Hands(f) = {h}
      BY <3>2, AtWorkIs DEF Hands, AtWork, OnThread
    <3>4. work = {<<f, h>>}
      BY <3>2, <3>3
    <3> QED BY <2>2, <3>4
  <2>3. CASE ~Awaits(m)
    <3>1. \A g \in Below(m) : Hands(g) = {}
      BY <2>1, <2>3 DEF WorkInv, Working
    <3> QED BY <2>3, <3>1
  <2> QED BY <2>2, <2>3
<1> QED BY <1>1, <1>2, <1>3, PTL DEF Spec, BaseInv

-----------------------------------------------------------------------------
(* Where exceptions are: c has let one of its tree's out. *)
Escapes(c) == Reaching[c] \cap raised # {}
Active == {"running", "suspended", "resumed"}

RaisedInv == \A c \in raised : fst[c] \in {"final", "destroyed"}
ResultInv ==
    \A c \in Coros : fst[c] = "final" =>
        res[c] # "none" /\ (res[c] = "exception" <=> Escapes(c))
(* A body that goes on has caught, or not met, what its calls let out. *)
PastInv ==
    \A c \in Coros \ Catches : fst[c] \in Active =>
        \A i \in DOMAIN Body[c] : i < pos[c] /\ Body[c][i] # Pool => ~Escapes(Body[c][i])
CallerInv ==
    \A m \in Mains :
        /\ fst[m] = "final" => (res[m] = "exception" <=> Escapes(root[m]))
        /\ fst[m] = "running" /\ pos[m] # 1 => ~Escapes(root[m])

ExceptionInv ==
    RaisedInv /\ ResultInv /\ PastInv /\ CallerInv /\ raised \subseteq MayThrow

(* What a coroutine lets out is its own, or what a call that it does not   *)
(* catch lets out.                                                         *)
LEMMA EscapesIs ==
    ASSUME NEW c \in Coros
    PROVE  /\ c \in Reaching[c] /\ Reaching[c] \subseteq Coros
           /\ Escapes(c) <=> c \in raised \/ \E d \in Passed[c] : Escapes(d)
<1>1. Reaching[c] = LeadsTo(Passed, c) /\ Passed \in [Coros -> SUBSET Coros]
  BY CallTypes
<1>2. Reaching[c] = {c} \cup UNION {LeadsTo(Passed, d) : d \in Passed[c]}
  BY <1>1, LeadsToUnfold
<1>3. \A d \in Passed[c] : Reaching[d] = LeadsTo(Passed, d)
  BY <1>1, CallTypes
<1>4. c \in Reaching[c] /\ Reaching[c] \subseteq Coros
  BY <1>1, LeadsToSet
<1> QED BY <1>2, <1>3, <1>4 DEF Escapes

(* A call that is over is idle. *)
LEMMA PastIsIdle ==
    ASSUME IInv, NEW c \in Coros, NEW i \in DOMAIN Body[c], i < pos[c], Body[c][i] # Pool
    PROVE  Body[c][i] \in Idle
<1>1. Body[c][i] \in Called[c]
  BY CallTypes
<1> SUFFICES ASSUME Busy(Body[c][i]) PROVE FALSE
  BY <1>1, OneCaller DEF Idle, Busy
<1>2. Awaited(c) = Body[c][i] /\ pos[c] \in DOMAIN Body[c]
  BY <1>1, BusyCallee
<1>3. Body[c][pos[c]] = Body[c][i] /\ pos[c] \in Nat /\ i \in Nat
  BY <1>2, Basics, BodyAssumption DEF Awaited, Steps, FrameTypes
<1> QED BY <1>3, <1>2, CalledOnceAssumption

LEMMA RootIsIdle ==
    ASSUME IInv, NEW m \in Mains, fst[m] = "final" \/ (fst[m] = "running" /\ pos[m] # 1)
    PROVE  root[m] \in Idle /\ root[m] \in Roots[m] /\ fst[root[m]] = "final"
BY Basics DEF WaitInv, Idle, Live, States

(* A step that ends no body and starts none but at its beginning. *)
LEMMA NoEnd ==
    ASSUME BaseInv, ExceptionInv, UNCHANGED <<pos, res, raised, root>>,
           \A f \in Frames : fst'[f] = "final" => fst[f] = "final",
           \A f \in Frames : fst'[f] \in Active /\ pos[f] # 1 => fst[f] \in Active,
           \A m \in Mains : fst'[m] = "running" /\ pos[m] # 1 => fst[m] = "running",
           \A c \in Coros : fst[c] \in {"final", "destroyed"} =>
                              fst'[c] \in {"final", "destroyed"}
    PROVE  ExceptionInv'
<1>0. FrameTypes /\ \A c \in Coros : c \in Frames
  BY Basics DEF BaseInv
<1>2. RaisedInv' /\ ResultInv'
  <2>1. raised \subseteq Coros
    BY BodyAssumption DEF ExceptionInv
  <2> QED BY <1>0, <2>1 DEF ExceptionInv, RaisedInv, ResultInv, Escapes
<1>3. PastInv'
  <2> SUFFICES ASSUME NEW c \in Coros \ Catches, fst'[c] \in Active,
                      NEW i \in DOMAIN Body[c], i < pos[c], Body[c][i] # Pool
               PROVE  ~Escapes(Body[c][i])
    BY DEF PastInv, Escapes
  <2>1. pos[c] # 1
    BY BodyAssumption
  <2> QED BY <1>0, <2>1 DEF ExceptionInv, PastInv
<1>4. CallerInv'
  <2>1. \A m \in Mains : m \in Frames
    BY DEF Frames
  <2> QED BY <2>1 DEF ExceptionInv, CallerInv, Escapes
<1> QED BY <1>2, <1>3, <1>4 DEF ExceptionInv

LEMMA ExceptionInit == Init => ExceptionInv
BY DEF Init, ExceptionInv, RaisedInv, ResultInv, PastInv, CallerInv, Active, Frames

(* Steps that hand frames on. *)
LEMMA QuietExceptions ==
    ASSUME BaseInv, ExceptionInv, NEW m \in Mains,
           \/ \E v \in Names : Drop(m, v) \/ \E c \in Coros : Create(m, v, c)
           \/ \E v, w \in Names : Move(m, v, w)
           \/ Wait(m) \/ Exit(m)
    PROVE  ExceptionInv'
<1>0. FrameTypes /\ m \in Frames /\ m \notin Coros /\ \A c \in Coros : c \in Frames /\ c # None
  BY Basics DEF BaseInv
<1>1. UNCHANGED <<pos, res, raised, root>>
  BY DEF Drop, Create, Move, Wait, Started, Acquire, Collect, Exit
<1>2. CASE \E v \in Names : Drop(m, v) \/ \E w \in Names : Move(m, v, w)
  <2>1. PICK v \in Names : DestroyOwned(slot[m][v])
    BY <1>2 DEF Drop, Move
  <2>2. \A f \in Frames : fst'[f] = fst[f] \/ fst'[f] = "destroyed"
    BY <1>0, <2>1 DEF DestroyOwned, FrameTypes
  <2> QED BY <1>0, <1>1, <2>2, NoEnd DEF Active, Frames
<1>3. CASE \E v \in Names, c \in Coros : Create(m, v, c)
  <2>1. \A f \in Frames : fst'[f] = fst[f] \/ (fst[f] = "none" /\ fst'[f] = "created")
    BY <1>0, <1>3 DEF Create, FrameTypes
  <2> QED BY <1>0, <1>1, <2>1, NoEnd DEF Active, Frames
<1>4. CASE Wait(m) \/ Exit(m)
  <2>1. \A f \in Frames : fst'[f] = fst[f] \/ fst'[f] = "destroyed"
    BY <1>0, <1>4 DEF Wait, Started, Acquire, Collect, Exit, FrameTypes
  <2> QED BY <1>0, <1>1, <2>1, NoEnd DEF Active, Frames
<1> QED BY <1>2, <1>3, <1>4

LEMMA HandExceptions ==
    ASSUME BaseInv, ExceptionInv, NEW t \in Threads, NEW f \in Frames,
           AwaitPool(t, f) \/ Resume(t, f) \/ FinalSuspend(t, f) \/ Notify(t, f)
    PROVE  ExceptionInv'
<1>0. IInv /\ FrameTypes /\ \A c \in Coros : c \in Frames /\ c # None
  BY Basics DEF BaseInv
<1>1. UNCHANGED <<pos, res, raised, root>>
  BY DEF AwaitPool, Resume, FinalSuspend, Notify
<1>2. CASE AwaitPool(t, f)
  <2>1. \A g \in Frames : fst'[g] = fst[g] \/ (fst[g] = "running" /\ fst'[g] = "suspended")
    BY <1>0, <1>2 DEF AwaitPool, FrameTypes, Runs
  <2> QED BY <1>0, <1>1, <2>1, NoEnd DEF Active, Frames
<1>3. CASE Resume(t, f)
  <2>1. \A g \in Frames : fst'[g] = fst[g] \/ (fst[g] = "suspended" /\ fst'[g] = "resumed")
    BY <1>0, <1>3, Basics DEF Resume, FrameTypes, PoolInv
  <2> QED BY <1>0, <1>1, <2>1, NoEnd DEF Active, Frames
<1>4. CASE FinalSuspend(t, f)
  <2>1. cont[f] \in Frames /\ fst[cont[f]] = "suspended"
    BY <1>0, <1>4, Basics DEF FinalSuspend, Runs, ContInv, Busy, OnThread
  <2>2. \A g \in Frames : fst'[g] = fst[g] \/ (fst[g] = "suspended" /\ fst'[g] = "resumed")
    BY <1>0, <1>4, <2>1 DEF FinalSuspend, FrameTypes
  <2> QED BY <1>0, <1>1, <2>2, NoEnd DEF Active, Frames
<1>5. CASE Notify(t, f)
  <2>1. fst' = fst
    BY <1>5 DEF Notify
  <2> QED BY <1>1, <2>1, NoEnd DEF Active, Frames
<1> QED BY <1>2, <1>3, <1>4, <1>5

(* The frame that an await starts is at its beginning. *)
LEMMA AwaitExceptions ==
    ASSUME BaseInv, ExceptionInv, NEW t \in Threads, NEW f \in Frames, AwaitTask(t, f)
    PROVE  ExceptionInv'
<1> DEFINE d == Awaited(f)
<1>0. IInv /\ FrameTypes /\ \A c \in Coros : c \in Frames /\ c \notin Mains
  BY Basics DEF BaseInv
<1>1. /\ fst[f] = "running" /\ pos[f] <= Len(Steps(f)) /\ d # Pool
      /\ fst' = [fst EXCEPT ![f] = "suspended", ![d] = "running"]
      /\ UNCHANGED <<pos, res, raised, root>>
  BY DEF AwaitTask, Runs
<1>2. d \in Coros
  BY <1>1, AwaitLinks
<1>3. fst[d] \in {"none", "created"} /\ pos[d] = 1
  <2>1. CASE f \in Coros
    <3>1. pos[f] \in DOMAIN Body[f] /\ d = Body[f][pos[f]]
      BY <1>0, <1>1, <2>1, AwaitedType
    <3>2. fst[d] = "none"
      BY <1>0, <1>1, <2>1, <3>1, Basics DEF FreshInv, NotYet
    <3> QED BY <1>2, <3>2 DEF BaseInv, StartInv
  <2>2. CASE f \in Mains
    <3>1. fst[d] = "created"
      BY <1>0, <1>1, <2>2, AwaitedType, Basics DEF WaitInv
    <3> QED BY <1>2, <3>1 DEF BaseInv, StartInv
  <2> QED BY <2>1, <2>2 DEF Frames
<1>4. \A g \in Frames : \/ fst'[g] = fst[g] \/ (g = f /\ fst'[g] = "suspended")
                        \/ g = d /\ fst'[g] = "running"
  BY <1>0, <1>1 DEF FrameTypes
<1> HIDE DEF d
<1>5. \A m \in Mains : m # d /\ m \in Frames
  BY <1>0, <1>2 DEF Frames
<1> QED BY <1>0, <1>1, <1>3, <1>4, <1>5, NoEnd DEF Active

LEMMA SyncWaitExceptions ==
    ASSUME BaseInv, ExceptionInv, NEW m \in Mains, NEW v \in Names, SyncWait(m, v)
    PROVE  ExceptionInv'
<1>0. IInv /\ FrameTypes /\ m \notin Coros /\ m \in Frames
  BY Basics DEF BaseInv
<1>1. /\ raised' = raised
      /\ \A f \in Frames : f # m => fst'[f] = fst[f] /\ pos'[f] = pos[f] /\ res'[f] = res[f]
      /\ \A k \in Mains : k # m => root'[k] = root[k]
      /\ fst'[m] = "running" /\ pos'[m] = 1
  BY <1>0 DEF SyncWait, FrameTypes
<1>2. \A c \in Coros : c \in Frames /\ c # m
  BY <1>0 DEF Frames
<1>3. RaisedInv' /\ ResultInv' /\ PastInv'
  BY <1>1, <1>2, BodyAssumption DEF ExceptionInv, RaisedInv, ResultInv, PastInv, Escapes
<1>4. CallerInv'
  BY <1>1 DEF ExceptionInv, CallerInv, Escapes, Frames
<1> QED BY <1>1, <1>3, <1>4 DEF ExceptionInv

(* A body that ends has let nothing out, whatever it called. *)
LEMMA ReturnExceptions ==
    ASSUME BaseInv, ExceptionInv, NEW t \in Threads, NEW f \in Frames, Return(t, f)
    PROVE  ExceptionInv'
<1>0. IInv /\ FrameTypes
  BY DEF BaseInv, IInv
<1>1. /\ fst[f] = "running" /\ pos[f] > Len(Steps(f)) /\ UNCHANGED <<pos, raised, root>>
      /\ fst'[f] = "final" /\ res'[f] = "value"
      /\ \A g \in Frames : g # f => fst'[g] = fst[g] /\ res'[g] = res[g]
  BY <1>0 DEF Return, Runs, FrameTypes
<1>2. f \in Coros => ~Escapes(f)
  <2> SUFFICES ASSUME f \in Coros, Escapes(f) PROVE FALSE
    OBVIOUS
  <2>1. f \notin raised
    BY <1>1 DEF ExceptionInv, RaisedInv
  <2>2. PICK d \in Passed[f] : Escapes(d)
    BY <2>1, EscapesIs
  <2>3. f \notin Catches /\ d \in Called[f]
    BY <2>2 DEF Passed
  <2>4. PICK i \in DOMAIN Body[f] : d = Body[f][i] /\ d # Pool
    BY <2>3, CallTypes
  <2>5. i < pos[f]
    <3>1. Steps(f) = Body[f] /\ Body[f] \in Seq(Coros \cup {Pool}) /\ pos[f] \in Nat
      BY <1>0, BodyAssumption DEF Steps, FrameTypes
    <3>2. i \in 1 .. Len(Body[f]) /\ pos[f] > Len(Body[f]) /\ Len(Body[f]) \in Nat
      BY <1>1, <2>4, <3>1
    <3> QED BY <3>1, <3>2
  <2> QED BY <1>1, <2>2, <2>3, <2>4, <2>5 DEF ExceptionInv, PastInv, Active
<1>3. f \in Mains => ~Escapes(root[f])
  <2> SUFFICES ASSUME f \in Mains PROVE pos[f] # 1
    BY <1>1 DEF ExceptionInv, CallerInv
  <2>1. Len(Steps(f)) = 1
    BY DEF Steps
  <2> QED BY <1>1, <2>1
<1>4. RaisedInv' /\ PastInv'
  BY <1>1, BodyAssumption DEF ExceptionInv, RaisedInv, PastInv, Escapes, Active, Frames
<1>5. ResultInv'
  BY <1>1, <1>2 DEF ExceptionInv, ResultInv, Escapes, Frames
<1>6. CallerInv'
  BY <1>1, <1>3 DEF ExceptionInv, CallerInv, Escapes, Frames
<1> QED BY <1>1, <1>4, <1>5, <1>6 DEF ExceptionInv

(* Who throws is running, and nobody who has finished leads to it. *)
LEMMA ThrowExceptions ==
    ASSUME BaseInv, ExceptionInv, NEW t \in Threads, NEW f \in Frames, Throw(t, f)
    PROVE  ExceptionInv'
<1>0. IInv /\ FrameTypes /\ \A m \in Mains : m \in Frames /\ m \notin Coros
  BY Basics DEF BaseInv
<1>1. /\ fst[f] = "running" /\ f \in Coros /\ f \in MayThrow
      /\ raised' = raised \cup {f} /\ UNCHANGED <<pos, root>>
      /\ fst'[f] = "final" /\ res'[f] = "exception"
      /\ \A g \in Frames : g # f => fst'[g] = fst[g] /\ res'[g] = res[g]
  BY <1>0, BodyAssumption DEF Throw, Runs, FrameTypes
<1>2. ASSUME NEW c \in Idle PROVE Escapes(c)' <=> Escapes(c)
  <2>1. Reaching[c] \subseteq Idle /\ f \notin Idle
    BY <1>0, <1>1, IdleReaching DEF Idle
  <2> QED BY <1>1, <2>1 DEF Escapes
<1>3. Escapes(f)'
  BY <1>1, EscapesIs DEF Escapes
<1>4. RaisedInv'
  BY <1>1, BodyAssumption DEF ExceptionInv, RaisedInv, Frames
<1>5. ResultInv'
  BY <1>1, <1>2, <1>3 DEF ExceptionInv, ResultInv, Frames, Idle
<1>6. PastInv'
  <2> SUFFICES ASSUME NEW c \in Coros \ Catches, fst'[c] \in Active,
                      NEW i \in DOMAIN Body[c], i < pos[c], Body[c][i] # Pool
               PROVE  ~Escapes(Body[c][i])'
    BY <1>1 DEF PastInv
  <2>1. c # f /\ fst[c] \in Active
    BY <1>1 DEF Active, Frames
  <2>2. Body[c][i] \in Idle
    BY <1>0, PastIsIdle
  <2> QED BY <1>2, <2>1, <2>2 DEF ExceptionInv, PastInv
<1>7. CallerInv'
  <2>1. ASSUME NEW m \in Mains, fst[m] = "final" \/ (fst[m] = "running" /\ pos[m] # 1)
        PROVE  Escapes(root[m])' <=> Escapes(root[m])
    <3>1. root[m] \in Idle
      BY <1>0, <2>1, RootIsIdle
    <3>2. Reaching[root[m]] \subseteq Idle /\ f \notin Idle
      BY <1>0, <1>1, <3>1, IdleReaching DEF Idle
    <3> QED BY <1>1, <3>2 DEF Escapes
  <2>2. \A m \in Mains : /\ fst'[m] = fst[m] /\ res'[m] = res[m] /\ pos'[m] = pos[m]
    BY <1>0, <1>1
  <2> QED BY <2>1, <2>2 DEF ExceptionInv, CallerInv
<1> QED BY <1>1, <1>4, <1>5, <1>6, <1>7 DEF ExceptionInv

(* A call is over: its exception goes on, unless it is caught. *)
LEMMA ResumeExceptions ==
    ASSUME BaseInv, ExceptionInv, NEW t \in Threads, NEW f \in Frames, AwaitResume(t, f)
    PROVE  ExceptionInv'
<1> DEFINE d == Awaited(f)
           ends == Rethrows(f) /\ f \notin Catches
<1>0. IInv /\ FrameTypes /\ \A m \in Mains : m \in Frames /\ m \notin Coros
  BY Basics DEF BaseInv
<1>1. /\ fst[f] = "resumed" /\ pos[f] <= Len(Steps(f)) /\ UNCHANGED <<raised, root>>
      /\ pos[f] \in Nat
  BY <1>0, Basics DEF AwaitResume, Runs, AwaitInv, FrameTypes
<1>2. /\ f \notin Temporary(f) /\ Temporary(f) \subseteq {d} \ {Pool}
      /\ d # Pool => d \in Coros /\ fst[d] = "final" /\ d # f
  <2>1. d # Pool => d \in Coros /\ fst[d] = "final"
    BY <1>0, <1>1, AwaitedType, Basics DEF AwaitInv
  <2> QED BY <1>1, <2>1 DEF Temporary
<1>3. /\ fst'[f] = IF ends THEN "final" ELSE "running"
      /\ pos'[f] = IF ends THEN pos[f] ELSE pos[f] + 1
      /\ res'[f] = IF ends THEN "exception" ELSE res[f]
  BY <1>0, <1>2 DEF AwaitResume, FrameTypes
<1>4. /\ \A g \in Frames : g # f => pos'[g] = pos[g] /\ res'[g] = res[g]
      /\ \A g \in Frames : g # f => fst'[g] = fst[g] \/ (fst[g] = "final" /\ fst'[g] = "destroyed")
      /\ \A m \in Mains : m # f => fst'[m] = fst[m]
  BY <1>0, <1>2 DEF AwaitResume, FrameTypes
<1>5. d # Pool => (res[d] = "exception" <=> Escapes(d))
  BY <1>2 DEF ExceptionInv, ResultInv
<1>6. ends => d # Pool /\ Escapes(d)
  BY <1>5 DEF Rethrows
<1>7. ~ends /\ f \notin Catches /\ d # Pool => ~Escapes(d)
  BY <1>5 DEF Rethrows
<1>8. f \in Coros => d = Body[f][pos[f]] /\ pos[f] \in DOMAIN Body[f]
  BY <1>0, <1>1, AwaitedType
<1>9. f \in Mains => pos[f] = 1 /\ d = root[f] /\ d # Pool /\ f \notin Catches
  BY <1>0, <1>1, AwaitedType, BodyAssumption
<1>10. ends /\ f \in Coros => Escapes(f)
  <2> SUFFICES ASSUME ends, f \in Coros PROVE d \in Passed[f]
    BY <1>6, EscapesIs
  <2> QED BY <1>6, <1>8, CallTypes DEF Passed
<1> HIDE DEF ends, d
<1>11. RaisedInv'
  <2>1. f \notin raised
    BY <1>1 DEF ExceptionInv, RaisedInv
  <2> QED BY <1>1, <1>4, <2>1, BodyAssumption DEF ExceptionInv, RaisedInv, Frames
<1>12. ResultInv'
  <2> SUFFICES ASSUME NEW c \in Coros, fst'[c] = "final"
               PROVE  res'[c] # "none" /\ (res'[c] = "exception" <=> Escapes(c))
    BY <1>1 DEF ResultInv, Escapes
  <2>1. CASE c = f
    <3>1. ends
      BY <1>3, <2>1
    <3> QED BY <1>3, <1>10, <2>1, <3>1
  <2>2. CASE c # f
    BY <1>4, <2>2 DEF ExceptionInv, ResultInv, Frames
  <2> QED BY <2>1, <2>2
<1>13. PastInv'
  <2> SUFFICES ASSUME NEW c \in Coros \ Catches, fst'[c] \in Active,
                      NEW i \in DOMAIN Body[c], i < pos'[c], Body[c][i] # Pool
               PROVE  ~Escapes(Body[c][i])
    BY <1>1 DEF PastInv, Escapes
  <2>1. CASE c = f
    <3>1. ~ends /\ i < pos[f] + 1 /\ i \in Nat /\ fst[f] \in Active
      BY <1>1, <1>3, <2>1, BodyAssumption DEF Active
    <3>2. CASE i < pos[f]
      BY <2>1, <3>1, <3>2 DEF ExceptionInv, PastInv
    <3>3. CASE i = pos[f]
      BY <1>7, <1>8, <2>1, <3>1, <3>3
    <3> QED BY <1>1, <3>1, <3>2, <3>3
  <2>2. CASE c # f
    BY <1>4, <2>2 DEF ExceptionInv, PastInv, Frames, Active
  <2> QED BY <2>1, <2>2
<1>14. CallerInv'
  <2> SUFFICES ASSUME NEW m \in Mains
               PROVE  /\ fst'[m] = "final" => (res'[m] = "exception" <=> Escapes(root[m]))
                      /\ fst'[m] = "running" /\ pos'[m] # 1 => ~Escapes(root[m])
    BY <1>1 DEF CallerInv, Escapes
  <2>1. CASE m = f
    <3>1. CASE ends
      BY <1>3, <1>6, <1>9, <2>1, <3>1
    <3>2. CASE ~ends
      BY <1>3, <1>7, <1>9, <2>1, <3>2
    <3> QED BY <3>1, <3>2
  <2>2. CASE m # f
    BY <1>0, <1>4, <2>2 DEF ExceptionInv, CallerInv
  <2> QED BY <2>1, <2>2
<1> QED BY <1>1, <1>11, <1>12, <1>13, <1>14 DEF ExceptionInv

LEMMA ExceptionStep ==
    ASSUME BaseInv, ExceptionInv, [Next]_vars
    PROVE  ExceptionInv'
<1>1. CASE \E m \in Mains : \/ \E v \in Names, c \in Coros : Create(m, v, c)
                            \/ \E v, w \in Names : Move(m, v, w)
                            \/ \E v \in Names : Drop(m, v) \/ SyncWait(m, v)
                            \/ Wait(m) \/ Exit(m)
  BY <1>1, SyncWaitExceptions, QuietExceptions
<1>2. CASE \E t \in Threads : RunFrame(t)
  BY <1>2, HandExceptions, AwaitExceptions, ReturnExceptions, ThrowExceptions, ResumeExceptions
     DEF RunFrame
<1>3. ASSUME NEW w \in Workers, NEW f \in Frames, Resume(w, f) PROVE ExceptionInv'
  BY <1>3, HandExceptions DEF Threads
<1>4. CASE (\E t \in Threads : Leave(t)) \/ ClosePool \/ UNCHANGED vars
  <2>1. UNCHANGED <<fst, pos, res, raised, root>>
    BY <1>4 DEF Leave, ClosePool, vars
  <2> QED BY <2>1 DEF ExceptionInv, RaisedInv, ResultInv, PastInv, CallerInv, Escapes
<1> QED BY <1>1, <1>2, <1>3, <1>4 DEF Next, Work, Finished

(* sync_wait throws if and only if a coroutine threw whose exception goes  *)
(* past every awaiter up to the task that is waited for, for any bodies,   *)
(* threads and interleavings; provided that the tasks without a result let *)
(* nothing out, since sync_wait drops what they store (finding 3;          *)
(* sync_wait.hpp:129).                                                     *)
THEOREM ExceptionsReachTheirCallers ==
    ASSUME \A c \in Void : Reaching[c] \cap MayThrow = {}
    PROVE  Spec => ExceptionReachesCaller
<1>1. Init => BaseInv /\ ExceptionInv
  BY BaseInit, ExceptionInit
<1>2. BaseInv /\ ExceptionInv /\ [Next]_vars => (BaseInv /\ ExceptionInv)'
  BY BaseStep, ExceptionStep
<1>3. ASSUME BaseInv, ExceptionInv, [Next]_vars, NEW m \in Mains, mpc[m] = "collect", mpc'[m] = "free"
      PROVE  got'[m] = "throws" <=> Reaching[root[m]] \cap raised # {}
  <2>0. FrameTypes
    BY <1>3 DEF BaseInv, IInv
  <2>1. Collect(m)
    <3>1. ASSUME NEW k \in Mains, NEW v \in Names,
                 Drop(k, v) \/ SyncWait(k, v) \/ Started(k) \/ Acquire(k) \/ Exit(k)
          PROVE  mpc'[m] = mpc[m] \/ mpc'[m] # "free"
      BY <2>0, <3>1 DEF Drop, SyncWait, Started, Acquire, Exit, FrameTypes
    <3>2. ASSUME NEW k \in Mains, Started(k) \/ Acquire(k) \/ Exit(k)
          PROVE  mpc'[m] = mpc[m] \/ mpc'[m] # "free"
      BY <2>0, <3>2 DEF Started, Acquire, Exit, FrameTypes
    <3>3. ASSUME NEW k \in Mains, Collect(k) PROVE k = m
      BY <1>3, <2>0, <3>3 DEF Collect, FrameTypes
    <3>4. ASSUME NEW t \in Threads, RunFrame(t) PROVE mpc' = mpc
      BY <3>4 DEF RunFrame, AwaitTask, AwaitPool, AwaitResume, Return, Throw, FinalSuspend, Notify
    <3> QED BY <1>3, <3>1, <3>2, <3>3, <3>4
            DEF Next, Wait, Create, Move, Resume, Work, Leave, ClosePool, Finished, vars
  <2>2. got'[m] = IF res[m] = "exception" /\ root[m] \notin Void THEN "throws" ELSE "returns"
    BY <2>0, <2>1 DEF Collect, FrameTypes
  <2>3. fst[m] = "final"
    BY <1>3 DEF BaseInv, IInv, WaitInv
  <2>4. res[m] = "exception" <=> Escapes(root[m])
    BY <1>3, <2>3 DEF ExceptionInv, CallerInv
  <2>5. root[m] \in Void => ~Escapes(root[m])
    BY <1>3 DEF ExceptionInv, Escapes
  <2> QED BY <2>2, <2>4, <2>5 DEF Escapes
<1>4. BaseInv /\ ExceptionInv /\ [Next]_vars =>
        [\A m \in Mains : mpc[m] = "collect" /\ mpc'[m] = "free" =>
            (got'[m] = "throws" <=> Reaching[root[m]] \cap raised # {})]_vars
  BY <1>3
<1> QED BY <1>1, <1>2, <1>4, PTL DEF Spec, ExceptionReachesCaller

================================================================================
