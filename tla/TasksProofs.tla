------------------------------ MODULE TasksProofs ------------------------------
(***************************************************************************)
(* Theorems about Tasks, for any coroutines, bodies, threads and names.    *)
(*                                                                         *)
(* A frame is busy from its first resumption until its final suspend has   *)
(* let go of it.  A busy task has an awaiter, which is suspended at the    *)
(* await of just this task, and a suspended frame is with the pool or      *)
(* awaits a busy task: so frames are handed on along these pairs, and      *)
(* whoever is destroyed is at rest.  Since a coroutine is called at one    *)
(* place, the frame that an await starts is a new one (FreshInv), and the  *)
(* one that it destroys is its own.                                        *)
(***************************************************************************)
EXTENDS Tasks, FiniteSetTheorems, TLAPS

USE DEF threads, queue

OnThread(f) == \E t \in Threads : cur[t] = f
Busy(f) == fst[f] \in {"running", "suspended", "resumed"} \/ OnThread(f)

ThreadInv ==
    /\ \A t \in Threads : cur[t] # None =>
          fst[cur[t]] \in {"running", "resumed", "final"}
    /\ OneThread

(* Who is suspended, and for whom; and who has just been resumed. *)
AwaitInv ==
    \A f \in Frames :
        /\ fst[f] \in {"suspended", "resumed"} => pos[f] <= Len(Steps(f))
        /\ fst[f] = "suspended" =>
              IF Awaited(f) = Pool THEN f \in submitted
                                   ELSE cont[Awaited(f)] = f /\ Busy(Awaited(f))
        /\ fst[f] = "resumed" /\ Awaited(f) # Pool =>
              fst[Awaited(f)] = "final" /\ ~Busy(Awaited(f))

PoolInv == \A f \in submitted : fst[f] = "suspended" /\ Awaited(f) = Pool

ContInv ==
    \A c \in Coros : Busy(c) =>
        cont[c] \in Frames /\ fst[cont[c]] = "suspended" /\ Awaited(cont[c]) = c

(* What a body has not awaited yet does not exist yet. *)
NotYet(f, i) == i > pos[f] \/ (i = pos[f] /\ fst[f] \in {"none", "created", "running"})
FreshInv ==
    \A f \in Coros : \A i \in DOMAIN Body[f] :
        Body[f][i] # Pool /\ NotYet(f, i) => fst[Body[f][i]] = "none"

(* The task of an await lives as long as the await. *)
BelowInv ==
    \A c \in Coros : fst[c] \in Live /\ (\A m \in Mains : c \notin Roots[m]) =>
        \E f \in Coros : fst[f] \in {"suspended", "resumed"} /\ Awaited(f) = c

(* The tasks of a main thread are those in its variables. *)
SlotInv ==
    /\ \A m \in Mains, v \in Names : slot[m][v] # None =>
          slot[m][v] \in Roots[m] /\ fst[slot[m][v]] \in Live
    /\ \A m \in Mains, v, w \in Names : slot[m][v] = slot[m][w] /\ slot[m][v] # None => v = w
    /\ \A m \in Mains : \A c \in Roots[m] : fst[c] \in Live => \E v \in Names : slot[m][v] = c

WaitInv ==
    \A m \in Mains :
        /\ mpc[m] \in {"free", "done"} <=> fst[m] \in {"none", "destroyed"}
        /\ fst[m] # "created"
        /\ cur[m] # None => mpc[m] = "start"
        /\ fst[m] \in Live => root[m] \in Roots[m]
        /\ fst[m] = "running" /\ pos[m] = 1 => fst[root[m]] = "created"
        /\ (fst[m] = "running" /\ pos[m] # 1) \/ fst[m] = "final" =>
              fst[root[m]] = "final" /\ ~Busy(root[m])
        /\ sem[m] = 1 \/ mpc[m] = "collect" => fst[m] = "final" /\ ~OnThread(m)
        /\ sem[m] = 1 => mpc[m] \in {"start", "acquire"}

FramesInv == ThreadInv /\ AwaitInv /\ PoolInv /\ ContInv /\ FreshInv /\ BelowInv
IInv == FrameTypes /\ FramesInv /\ SlotInv /\ WaitInv

-----------------------------------------------------------------------------
LEMMA InitInv == Init => IInv
<1> SUFFICES ASSUME Init PROVE IInv
  OBVIOUS
<1>1. Frames = Coros \cup Mains /\ Coros \cap Mains = {} /\ \A c \in Coros : Len(Body[c]) \in Nat
  BY BodyAssumption DEF Frames
<1>2. \A f \in Frames : Len(Steps(f)) \in Nat
  BY <1>1 DEF Steps
<1>3. FrameTypes
  <2>1. pos \in [Frames -> Nat \ {0}] /\ \A f \in Frames : pos[f] <= Len(Steps(f)) + 1
    BY <1>2 DEF Init
  <2>2. fst \in [Frames -> States]
    BY DEF Init, States
  <2> QED BY <2>1, <2>2 DEF Init, FrameTypes
<1>4. /\ \A f \in Frames : fst[f] = "none" /\ pos[f] = 1 /\ ~Busy(f)
      /\ \A t \in Threads : cur[t] = None
  BY BodyAssumption DEF Init, Busy, OnThread, Threads
<1>5. ThreadInv /\ AwaitInv /\ PoolInv /\ ContInv
  BY <1>1, <1>4 DEF ThreadInv, OneThread, AwaitInv, PoolInv, ContInv, Init, Busy
<1>6. FreshInv
  <2>1. \A f \in Coros : \A i \in DOMAIN Body[f] : Body[f][i] \in Coros \cup {Pool}
    BY BodyAssumption
  <2> QED BY <1>1, <1>4, <2>1 DEF FreshInv
<1>7. BelowInv /\ SlotInv /\ WaitInv
  BY <1>1, <1>4, BodyAssumption DEF BelowInv, SlotInv, WaitInv, Init, Live, States, Threads
<1> QED BY <1>3, <1>5, <1>6, <1>7 DEF IInv, FramesInv

(* What a frame awaits is a task or the pool. *)
LEMMA AwaitedType ==
    ASSUME IInv, NEW f \in Frames, fst[f] \in {"running", "suspended", "resumed"},
           pos[f] <= Len(Steps(f))
    PROVE  /\ Awaited(f) \in Coros \cup {Pool}
           /\ f \in Coros => pos[f] \in DOMAIN Body[f] /\ Awaited(f) = Body[f][pos[f]]
           /\ f \in Mains => pos[f] = 1 /\ Awaited(f) = root[f] /\ root[f] \in Roots[f]
                             /\ Awaited(f) # Pool
<1>1. pos[f] \in Nat \ {0}
  BY DEF IInv, FrameTypes
<1>2. CASE f \in Coros
  <2>1. Steps(f) = Body[f] /\ Body[f] \in Seq(Coros \cup {Pool}) /\ f \notin Mains
    BY <1>2, BodyAssumption DEF Steps
  <2> QED BY <1>1, <2>1 DEF Awaited
<1>3. CASE f \in Mains
  <2>1. Steps(f) = <<root[f]>> /\ Len(Steps(f)) = 1 /\ f \notin Coros
    BY <1>3, BodyAssumption DEF Steps
  <2>2. root[f] \in Roots[f]
    BY <1>3 DEF IInv, WaitInv, Live, States
  <2> QED BY <1>1, <1>3, <2>1, <2>2, BodyAssumption DEF Awaited, Frames
<1> QED BY <1>2, <1>3 DEF Frames

(* A task has one awaiter. *)
LEMMA UniqueAwaiter ==
    ASSUME IInv, NEW f \in Frames, NEW g \in Frames,
           fst[f] \in {"running", "suspended", "resumed"}, pos[f] <= Len(Steps(f)),
           fst[g] \in {"running", "suspended", "resumed"}, pos[g] <= Len(Steps(g)),
           Awaited(f) = Awaited(g), Awaited(f) # Pool
    PROVE  f = g
<1>1. CASE f \in Coros /\ g \in Coros
  BY <1>1, AwaitedType, CalledOnceAssumption
<1>2. CASE f \in Mains /\ g \in Mains
  BY <1>2, AwaitedType, CalledOnceAssumption
<1>3. ASSUME NEW x \in Coros, NEW m \in Mains, {x, m} = {f, g} PROVE FALSE
  <2>1. /\ pos[x] \in DOMAIN Body[x] /\ Awaited(x) = Body[x][pos[x]]
        /\ Awaited(m) \in Roots[m] /\ Awaited(x) = Awaited(m)
    BY <1>3, AwaitedType, ZenonT(60)
  <2>2. Body[x][pos[x]] \notin Roots[m]
    BY <2>1, CalledOnceAssumption
  <2> QED BY <2>1, <2>2
<1> QED BY <1>1, <1>2, <1>3 DEF Frames

(* A main thread's task is busy only while the thread waits for it. *)
LEMMA RootBusy ==
    ASSUME IInv, NEW m \in Mains, NEW c \in Roots[m], Busy(c)
    PROVE  root[m] = c /\ fst[m] = "suspended"
<1>1. c \in Coros
  BY BodyAssumption
<1>2. PICK g \in Frames : fst[g] = "suspended" /\ Awaited(g) = c
  BY <1>1 DEF IInv, FramesInv, ContInv
<1>3. pos[g] <= Len(Steps(g))
  BY <1>2 DEF IInv, FramesInv, AwaitInv
<1>4. c # Pool
  BY <1>1, BodyAssumption DEF Frames
<1>5. CASE g \in Coros
  BY <1>2, <1>3, <1>4, <1>5, AwaitedType, CalledOnceAssumption
<1>6. CASE g \in Mains
  BY <1>2, <1>3, <1>6, AwaitedType, CalledOnceAssumption
<1> QED BY <1>5, <1>6 DEF Frames

-----------------------------------------------------------------------------
(* Steps of a main thread that leave every frame as it is. *)
LEMMA QuietFrames ==
    ASSUME IInv, UNCHANGED <<fst, pos, cont, cur, submitted, root>>
    PROVE  FramesInv'
<1>0. FramesInv
  BY DEF IInv
<1>1. \A f \in Frames : Steps(f)' = Steps(f) /\ Awaited(f)' = Awaited(f)
  BY DEF Steps, Awaited
<1>2. \A f : (OnThread(f)' <=> OnThread(f)) /\ (Busy(f)' <=> Busy(f))
  BY DEF OnThread, Busy
<1>3. ThreadInv'
  BY <1>0 DEF FramesInv, ThreadInv, OneThread
<1>4. AwaitInv'
  BY <1>0, <1>1, <1>2 DEF FramesInv, AwaitInv
<1>5. PoolInv'
  <2> \A f \in submitted : f \in Frames
    BY DEF IInv, FrameTypes, Frames
  <2> QED BY <1>0, <1>1 DEF FramesInv, PoolInv
<1>6. ContInv'
  BY <1>0, <1>1, <1>2 DEF FramesInv, ContInv
<1>7. FreshInv'
  BY <1>0 DEF FramesInv, FreshInv, NotYet
<1>8. BelowInv'
  BY <1>0, <1>1 DEF FramesInv, BelowInv, Frames
<1> QED BY <1>3, <1>4, <1>5, <1>6, <1>7, <1>8 DEF FramesInv

LEMMA StartedInv ==
    ASSUME IInv, NEW m \in Mains, Started(m)
    PROVE  IInv'
<1>1. FramesInv'
  BY QuietFrames DEF Started
<1>2. FrameTypes'
  BY DEF IInv, FrameTypes, Started, Steps
<1>3. SlotInv'
  BY DEF IInv, SlotInv, Started
<1>4. WaitInv'
  BY DEF IInv, FrameTypes, WaitInv, Started, Busy, OnThread
<1> QED BY <1>1, <1>2, <1>3, <1>4 DEF IInv

LEMMA AcquireInv ==
    ASSUME IInv, NEW m \in Mains, Acquire(m)
    PROVE  IInv'
<1>1. FramesInv'
  BY QuietFrames DEF Acquire
<1>2. FrameTypes'
  BY DEF IInv, FrameTypes, Acquire, Steps
<1>3. SlotInv'
  BY DEF IInv, SlotInv, Acquire
<1>4. WaitInv'
  BY DEF IInv, FrameTypes, WaitInv, Acquire, Busy, OnThread
<1> QED BY <1>1, <1>2, <1>3, <1>4 DEF IInv

LEMMA ExitInv ==
    ASSUME IInv, NEW m \in Mains, Exit(m)
    PROVE  IInv'
<1>1. FramesInv'
  BY QuietFrames DEF Exit
<1>2. FrameTypes'
  BY DEF IInv, FrameTypes, Exit, Steps
<1>3. SlotInv'
  BY DEF IInv, SlotInv, Exit
<1>4. WaitInv'
  BY DEF IInv, FrameTypes, WaitInv, Exit, Busy, OnThread
<1> QED BY <1>1, <1>2, <1>3, <1>4 DEF IInv

(* A task is created: nobody knew its frame before. *)
LEMMA CreateInv ==
    ASSUME IInv, NEW m \in Mains, NEW v \in Names, NEW c \in Coros, Create(m, v, c)
    PROVE  IInv'
<1>0. FrameTypes /\ ThreadInv /\ AwaitInv /\ PoolInv /\ ContInv /\ FreshInv /\ BelowInv /\ SlotInv
      /\ WaitInv
  BY DEF IInv, FramesInv
<1>1. /\ c \in Frames /\ c \notin Mains /\ c # None /\ c # Pool /\ c \in Roots[m]
      /\ fst[c] = "none" /\ fst' = [fst EXCEPT ![c] = "created"]
      /\ mpc[m] = "free" /\ slot[m][v] = None
  BY BodyAssumption DEF Create, Frames
<1>2. /\ fst'[c] = "created" /\ \A f \in Frames : f # c => fst'[f] = fst[f]
      /\ UNCHANGED <<pos, cont, res, cur, submitted, root, sem, mpc, got, raised>>
  BY <1>0, <1>1 DEF Create, FrameTypes
<1>3. \A f \in Frames : Steps(f)' = Steps(f) /\ Awaited(f)' = Awaited(f)
  BY <1>2 DEF Steps, Awaited
<1>4. \A f \in Frames : (OnThread(f)' <=> OnThread(f)) /\ (Busy(f)' <=> Busy(f))
  BY <1>1, <1>2 DEF OnThread, Busy
<1>5. ~Busy(c)
  BY <1>0, <1>1 DEF Busy, OnThread, ThreadInv
<1>6. FrameTypes'
  BY <1>0, <1>1, <1>2, <1>3 DEF FrameTypes, Create, States
<1>7. ThreadInv' /\ PoolInv'
  BY <1>0, <1>1, <1>2, <1>3, <1>4 DEF ThreadInv, OneThread, PoolInv, FrameTypes, Frames
<1>8. AwaitInv'
  <2>1. \A f \in Frames : fst[f] \in {"suspended", "resumed"} => Awaited(f) \in Frames \cup {Pool}
    BY <1>0, AwaitedType DEF AwaitInv, Frames
  <2> QED BY <1>0, <1>1, <1>2, <1>3, <1>4, <2>1 DEF AwaitInv
<1>9. ContInv'
  BY <1>0, <1>1, <1>2, <1>3, <1>4, <1>5 DEF ContInv, Frames
<1>10. FreshInv'
  BY <1>0, <1>1, <1>2, CalledOnceAssumption, BodyAssumption DEF FreshInv, NotYet, Frames
<1>11. BelowInv'
  BY <1>0, <1>1, <1>2, <1>3 DEF BelowInv, Frames
<1>12. SlotInv'
  BY <1>0, <1>1, <1>2, CalledOnceAssumption, BodyAssumption
     DEF SlotInv, Create, FrameTypes, Live, States, Frames
<1>13. WaitInv'
  BY <1>0, <1>1, <1>2, <1>4, BodyAssumption DEF WaitInv, Live, States, Frames
<1> QED BY <1>6, <1>7, <1>8, <1>9, <1>10, <1>11, <1>12, <1>13 DEF IInv, FramesInv

(* What every step below needs of the invariant and the assumptions. *)
LEMMA Basics ==
    ASSUME IInv
    PROVE  /\ FrameTypes /\ ThreadInv /\ AwaitInv /\ PoolInv /\ ContInv /\ FreshInv /\ BelowInv
           /\ SlotInv /\ WaitInv
           /\ \A f \in Frames : f # None /\ f # Pool
           /\ \A c \in Coros : c \in Frames /\ c \notin Mains
           /\ \A m \in Mains : m \in Frames /\ m \notin Coros /\ m \in Threads /\ m \notin Workers
                                /\ \A c \in Roots[m] : c \in Coros
           /\ \A f \in Coros : \A i \in DOMAIN Body[f] : Body[f][i] \in Coros \cup {Pool}
           /\ \A f \in Frames : OnThread(f) => fst[f] \in {"running", "resumed", "final"}
           /\ \A f \in Frames : fst[f] \in {"suspended", "resumed"} =>
                                   Awaited(f) \in Coros \cup {Pool}
<1>1. FrameTypes /\ ThreadInv /\ AwaitInv /\ PoolInv /\ ContInv /\ FreshInv /\ BelowInv /\ SlotInv
      /\ WaitInv
  BY DEF IInv, FramesInv
<1>2. \A f \in Frames : f # None /\ f # Pool
  BY BodyAssumption
<1>3. \A c \in Coros : c \in Frames /\ c \notin Mains
  BY BodyAssumption DEF Frames
<1>4. \A m \in Mains : m \in Frames /\ m \notin Coros /\ m \in Threads /\ m \notin Workers
                        /\ \A c \in Roots[m] : c \in Coros
  BY BodyAssumption DEF Frames, Threads
<1>5. \A f \in Coros : \A i \in DOMAIN Body[f] : Body[f][i] \in Coros \cup {Pool}
  BY BodyAssumption
<1>6. \A f \in Frames : OnThread(f) => fst[f] \in {"running", "resumed", "final"}
  BY <1>1, <1>2 DEF ThreadInv, OnThread
<1>7. \A f \in Frames : fst[f] \in {"suspended", "resumed"} => Awaited(f) \in Coros \cup {Pool}
  BY <1>1, AwaitedType DEF AwaitInv
<1> QED BY <1>1, <1>2, <1>3, <1>4, <1>5, <1>6, <1>7

(* A main thread between its waits destroys a task of its own: it is at    *)
(* rest, and nobody awaits it.                                             *)
LEMMA DestroyInv ==
    ASSUME IInv, NEW m \in Mains, NEW c \in Roots[m], mpc[m] = "free", fst[c] \in Live,
           fst' = [fst EXCEPT ![c] = "destroyed"],
           UNCHANGED <<pos, cont, res, cur, submitted, root, sem, mpc, got, raised>>
    PROVE  /\ ~Busy(c) /\ FramesInv' /\ WaitInv'
           /\ slot' \in [Mains -> [Names -> Coros \cup {None}]] => FrameTypes'
<1>0. FrameTypes /\ ThreadInv /\ AwaitInv /\ PoolInv /\ ContInv /\ FreshInv /\ BelowInv /\ WaitInv
  BY Basics
<1>1. c \in Coros /\ c \in Frames /\ fst[c] # "none" /\ fst[m] \in {"none", "destroyed"}
  BY <1>0, Basics DEF WaitInv, Live
<1>2. fst'[c] = "destroyed" /\ \A f \in Frames : f # c => fst'[f] = fst[f]
  BY <1>0, <1>1 DEF FrameTypes
<1>3. ~Busy(c)
  BY <1>1, RootBusy
<1>4. \A f \in Frames : Steps(f)' = Steps(f) /\ Awaited(f)' = Awaited(f)
  BY DEF Steps, Awaited
<1>5. \A f \in Frames : (OnThread(f)' <=> OnThread(f)) /\ (Busy(f)' <=> Busy(f))
  BY <1>2, <1>3 DEF OnThread, Busy
<1>6. \A k \in Mains : c \in Roots[k] => k = m
  BY <1>1, CalledOnceAssumption
<1>7. \A f \in Frames : fst[f] \in {"suspended", "resumed"} => Awaited(f) # c
  <2> SUFFICES ASSUME NEW f \in Frames, fst[f] \in {"suspended", "resumed"}, Awaited(f) = c
               PROVE  FALSE
    OBVIOUS
  <2>1. pos[f] <= Len(Steps(f))
    BY <1>0 DEF AwaitInv
  <2>2. CASE f \in Coros
    BY <1>1, <2>1, <2>2, AwaitedType, CalledOnceAssumption
  <2>3. CASE f \in Mains
    BY <1>1, <1>6, <2>1, <2>3, AwaitedType
  <2> QED BY <2>2, <2>3 DEF Frames
<1>8. ThreadInv'
  BY <1>0, <1>1, <1>2, <1>3, <1>5, Basics DEF ThreadInv, OneThread, OnThread, Busy, FrameTypes
<1>9. AwaitInv'
  BY <1>0, <1>1, <1>2, <1>3, <1>4, <1>5, <1>7, Basics DEF AwaitInv, Busy
<1>10. PoolInv'
  BY <1>0, <1>1, <1>2, <1>3, <1>4, Basics DEF PoolInv, FrameTypes, Busy
<1>11. ContInv'
  BY <1>0, <1>1, <1>2, <1>3, <1>4, <1>5, Basics DEF ContInv, Busy
<1>12. FreshInv'
  BY <1>0, <1>1, <1>2, Basics DEF FreshInv, NotYet
<1>13. BelowInv'
  BY <1>0, <1>1, <1>2, <1>3, <1>4, Basics DEF BelowInv, Busy, Live
<1>14. WaitInv'
  <2>1. \A k \in Mains : fst'[k] = fst[k]
    BY <1>1, <1>2, Basics
  <2>2. \A k \in Mains : fst[k] \in Live =>
           root[k] \in Roots[k] /\ root[k] \in Frames /\ fst'[root[k]] = fst[root[k]]
                /\ (Busy(root[k])' <=> Busy(root[k]))
    <3> SUFFICES ASSUME NEW k \in Mains, fst[k] \in Live
                 PROVE  root[k] \in Roots[k] /\ root[k] \in Frames /\ root[k] # c
      BY <1>2, <1>5
    <3>1. root[k] \in Roots[k] /\ k # m
      BY <1>0, <1>1 DEF WaitInv, Live
    <3> QED BY <3>1, <1>6, Basics
  <2>3. \A k \in Mains : OnThread(k)' <=> OnThread(k)
    BY <1>5, Basics
  <2> QED BY <1>0, <2>1, <2>2, <2>3 DEF WaitInv, Live, States
<1>15. slot' \in [Mains -> [Names -> Coros \cup {None}]] => FrameTypes'
  BY <1>0, <1>1, <1>2, <1>4 DEF FrameTypes, States
<1> QED BY <1>3, <1>8, <1>9, <1>10, <1>11, <1>12, <1>13, <1>14, <1>15 DEF FramesInv

LEMMA MoveInv ==
    ASSUME IInv, NEW m \in Mains, NEW v \in Names, NEW w \in Names, Move(m, v, w)
    PROVE  IInv'
<1>0. FrameTypes /\ SlotInv /\ WaitInv
  BY Basics
<1> DEFINE c == slot[m][v]
<1>1. /\ mpc[m] = "free" /\ v # w /\ c \in Coros \cup {None} /\ slot[m][w] \in Coros \cup {None}
      /\ slot' \in [Mains -> [Names -> Coros \cup {None}]]
      /\ slot'[m][v] = slot[m][w] /\ slot'[m][w] = None
      /\ \A u \in Names : u # v /\ u # w => slot'[m][u] = slot[m][u]
      /\ \A k \in Mains : k # m => slot'[k] = slot[k]
  BY <1>0 DEF Move, FrameTypes
<1>2. UNCHANGED <<pos, cont, res, cur, submitted, root, sem, mpc, got, raised>>
  BY DEF Move
<1>3. CASE c = None
  <2>1. fst' = fst
    BY <1>3 DEF Move, DestroyOwned
  <2>2. FramesInv'
    BY <1>2, <2>1, QuietFrames
  <2>3. FrameTypes' /\ WaitInv'
    BY <1>0, <1>1, <1>2, <2>1 DEF FrameTypes, WaitInv, Busy, OnThread, Steps
  <2>4. SlotInv'
    BY <1>0, <1>1, <1>3, <2>1, Basics DEF SlotInv
  <2> QED BY <2>2, <2>3, <2>4 DEF IInv
<1>4. CASE c # None
  <2>1. c \in Roots[m] /\ fst[c] \in Live /\ c \in Frames /\ fst' = [fst EXCEPT ![c] = "destroyed"]
    BY <1>0, <1>1, <1>4, Basics DEF SlotInv, Move, DestroyOwned
  <2>2. FramesInv' /\ WaitInv' /\ FrameTypes'
    BY <1>1, <1>2, <2>1, DestroyInv
  <2>3. fst'[c] = "destroyed" /\ \A f \in Frames : f # c => fst'[f] = fst[f]
    BY <1>0, <2>1 DEF FrameTypes
  <2>4. \A k \in Mains : c \in Roots[k] => k = m
    BY <1>1, <1>4, <2>1, CalledOnceAssumption
  <2>5. SlotInv'
    <3>1. \A k \in Mains, u \in Names : slot'[k][u] # None =>
             slot'[k][u] \in Roots[k] /\ fst'[slot'[k][u]] \in Live
      BY <1>0, <1>1, <1>4, <2>1, <2>3, <2>4, Basics DEF SlotInv
    <3>2. \A k \in Mains, u, x \in Names : slot'[k][u] = slot'[k][x] /\ slot'[k][u] # None => u = x
      BY <1>0, <1>1 DEF SlotInv
    <3>3. \A k \in Mains : \A d \in Roots[k] : fst'[d] \in Live => \E u \in Names : slot'[k][u] = d
      BY <1>0, <1>1, <2>1, <2>3, Basics DEF SlotInv, Live
    <3> QED BY <3>1, <3>2, <3>3 DEF SlotInv
  <2> QED BY <2>2, <2>5 DEF IInv
<1> QED BY <1>3, <1>4

LEMMA DropInv ==
    ASSUME IInv, NEW m \in Mains, NEW v \in Names, Drop(m, v)
    PROVE  IInv'
<1>0. FrameTypes /\ SlotInv
  BY Basics
<1> DEFINE c == slot[m][v]
<1>1. /\ mpc[m] = "free" /\ c # None
      /\ slot' \in [Mains -> [Names -> Coros \cup {None}]] /\ slot'[m][v] = None
      /\ \A u \in Names : u # v => slot'[m][u] = slot[m][u]
      /\ \A k \in Mains : k # m => slot'[k] = slot[k]
  BY <1>0 DEF Drop, FrameTypes
<1>2. c \in Roots[m] /\ fst[c] \in Live /\ c \in Frames /\ fst' = [fst EXCEPT ![c] = "destroyed"]
  BY <1>0, <1>1, Basics DEF SlotInv, Drop, DestroyOwned
<1>3. FramesInv' /\ WaitInv' /\ FrameTypes'
  BY <1>1, <1>2, DestroyInv DEF Drop
<1>4. fst'[c] = "destroyed" /\ \A f \in Frames : f # c => fst'[f] = fst[f]
  BY <1>0, <1>2 DEF FrameTypes
<1>5. \A k \in Mains : c \in Roots[k] => k = m
  BY <1>2, Basics, CalledOnceAssumption
<1>6. SlotInv'
  <2>1. \A k \in Mains, u \in Names : slot'[k][u] # None =>
           slot'[k][u] \in Roots[k] /\ fst'[slot'[k][u]] \in Live
    BY <1>0, <1>1, <1>2, <1>4, <1>5, Basics DEF SlotInv
  <2>2. \A k \in Mains, u, x \in Names : slot'[k][u] = slot'[k][x] /\ slot'[k][u] # None => u = x
    BY <1>0, <1>1 DEF SlotInv
  <2>3. \A k \in Mains : \A d \in Roots[k] : fst'[d] \in Live => \E u \in Names : slot'[k][u] = d
    BY <1>0, <1>1, <1>2, <1>4, Basics DEF SlotInv, Live
  <2> QED BY <2>1, <2>2, <2>3 DEF SlotInv
<1> QED BY <1>3, <1>6 DEF IInv

(* The wait is a frame that nobody awaits. *)
LEMMA SyncWaitInv ==
    ASSUME IInv, NEW m \in Mains, NEW v \in Names, SyncWait(m, v)
    PROVE  IInv'
<1>0. FrameTypes /\ ThreadInv /\ AwaitInv /\ PoolInv /\ ContInv /\ FreshInv /\ BelowInv /\ SlotInv
      /\ WaitInv
  BY Basics
<1> DEFINE c == slot[m][v]
<1>1. /\ mpc[m] = "free" /\ fst[m] \in {"none", "destroyed"} /\ cur[m] = None
      /\ c \in Roots[m] /\ c \in Coros /\ c # m /\ fst[c] = "created" /\ m \in Frames /\ m # None
  BY <1>0, Basics DEF SyncWait, WaitInv, SlotInv
<1>2. /\ fst'[m] = "running" /\ \A f \in Frames : f # m => fst'[f] = fst[f]
      /\ root'[m] = c /\ \A k \in Mains : k # m => root'[k] = root[k]
      /\ pos'[m] = 1 /\ \A f \in Frames : f # m => pos'[f] = pos[f]
      /\ cur'[m] = m /\ \A t \in Threads : t # m => cur'[t] = cur[t]
      /\ sem'[m] = 0 /\ \A k \in Mains : k # m => sem'[k] = sem[k]
      /\ mpc'[m] = "start" /\ \A k \in Mains : k # m => mpc'[k] = mpc[k]
      /\ UNCHANGED <<cont, submitted, slot, got, raised>>
  BY <1>0, <1>1, Basics DEF SyncWait, FrameTypes
<1>3. \A f \in Frames : f # m => Steps(f)' = Steps(f) /\ Awaited(f)' = Awaited(f)
  BY <1>2 DEF Steps, Awaited
<1>4. ~Busy(m)
  BY <1>1, Basics DEF Busy
<1>5. \A f \in Frames : f # m => (OnThread(f)' <=> OnThread(f)) /\ (Busy(f)' <=> Busy(f))
  <2> SUFFICES ASSUME NEW f \in Frames, f # m PROVE OnThread(f)' <=> OnThread(f)
    BY <1>2 DEF Busy
  <2> QED BY <1>1, <1>2, Basics DEF OnThread
<1>6. FrameTypes'
  <2>1. Steps(m)' = <<c>> /\ \A f \in Frames : pos'[f] <= Len(Steps(f)') + 1
    BY <1>0, <1>2, <1>3 DEF FrameTypes, Steps
  <2>2. fst' \in [Frames -> States]
    BY <1>0 DEF FrameTypes, SyncWait, States
  <2>3. pos' \in [Frames -> Nat \ {0}] /\ res' \in [Frames -> {"none", "value", "exception"}]
    <3>1. pos' = [pos EXCEPT ![m] = 1] /\ res' = [res EXCEPT ![m] = "none"]
      BY DEF SyncWait
    <3>2. pos \in [Frames -> Nat \ {0}] /\ res \in [Frames -> {"none", "value", "exception"}]
      BY <1>0 DEF FrameTypes
    <3>3. pos' \in [Frames -> Nat \ {0}]
      <4>1. 1 \in Nat \ {0}
        OBVIOUS
      <4> QED BY <3>1, <3>2, <4>1, Zenon
    <3>4. res' \in [Frames -> {"none", "value", "exception"}]
      BY <3>1, <3>2
    <3> QED BY <3>3, <3>4
  <2>4. cur' \in [Threads -> Frames \cup {None}] /\ root' \in [Mains -> Coros \cup {None}]
    BY <1>0, <1>1 DEF FrameTypes, SyncWait
  <2>5. sem' \in [Mains -> 0 .. 1]
        /\ mpc' \in [Mains -> {"free", "start", "acquire", "collect", "done"}]
    BY <1>0 DEF FrameTypes, SyncWait
  <2> QED BY <1>0, <1>2, <2>1, <2>2, <2>3, <2>4, <2>5 DEF FrameTypes
<1>7. ThreadInv'
  <2>1. \A t \in Threads : t # m => cur[t] # m
    BY <1>1, <1>4 DEF Busy, OnThread
  <2>2. \A t \in Threads : cur'[t] \in Frames \cup {None}
    BY <1>6 DEF FrameTypes
  <2> QED BY <1>0, <1>1, <1>2, <2>1, <2>2, Basics DEF ThreadInv, OneThread
<1>8. AwaitInv'
  BY <1>0, <1>1, <1>2, <1>3, <1>5, Basics DEF AwaitInv
<1>9. PoolInv'
  BY <1>0, <1>2, <1>3, Basics DEF PoolInv, FrameTypes
<1>10. ContInv'
  BY <1>0, <1>1, <1>2, <1>3, <1>5, Basics DEF ContInv
<1>11. FreshInv'
  BY <1>0, <1>2, Basics DEF FreshInv, NotYet
<1>12. BelowInv'
  BY <1>0, <1>2, <1>3, Basics DEF BelowInv
<1>13. SlotInv'
  BY <1>0, <1>2, Basics DEF SlotInv
<1>14. WaitInv'
  <2>1. \A k \in Mains : k # m /\ fst[k] \in Live =>
           root[k] \in Roots[k] /\ root[k] \in Frames /\ root[k] # m
    BY <1>0, Basics DEF WaitInv
  <2> QED BY <1>0, <1>1, <1>2, <1>5, <2>1, Basics DEF WaitInv, Live, States
<1> QED BY <1>6, <1>7, <1>8, <1>9, <1>10, <1>11, <1>12, <1>13, <1>14 DEF IInv, FramesInv

LEMMA CollectInv ==
    ASSUME IInv, NEW m \in Mains, Collect(m)
    PROVE  IInv' /\ fst[m] = "final" /\ ~OnThread(m)
<1>0. FrameTypes /\ ThreadInv /\ AwaitInv /\ PoolInv /\ ContInv /\ FreshInv /\ BelowInv /\ SlotInv
      /\ WaitInv
  BY Basics
<1>1. mpc[m] = "collect" /\ fst[m] = "final" /\ ~OnThread(m) /\ m \in Frames /\ sem[m] # 1
  BY <1>0, Basics DEF Collect, WaitInv
<1>2. /\ fst'[m] = "destroyed" /\ \A f \in Frames : f # m => fst'[f] = fst[f]
      /\ mpc'[m] = "free" /\ \A k \in Mains : k # m => mpc'[k] = mpc[k]
      /\ UNCHANGED <<pos, cont, res, cur, submitted, slot, root, sem, raised>>
  BY <1>0, <1>1 DEF Collect, FrameTypes
<1>3. \A f \in Frames : Steps(f)' = Steps(f) /\ Awaited(f)' = Awaited(f)
  BY <1>2 DEF Steps, Awaited
<1>4. \A f \in Frames : (OnThread(f)' <=> OnThread(f)) /\ (Busy(f)' <=> Busy(f))
  BY <1>1, <1>2 DEF OnThread, Busy
<1>5. FrameTypes'
  BY <1>0, <1>1, <1>2, <1>3 DEF Collect, FrameTypes, States
<1>6. ThreadInv'
  BY <1>0, <1>1, <1>2, Basics DEF ThreadInv, OneThread, OnThread, FrameTypes
<1>7. AwaitInv' /\ PoolInv'
  BY <1>0, <1>1, <1>2, <1>3, <1>4, Basics DEF AwaitInv, PoolInv, FrameTypes
<1>8. ContInv'
  BY <1>0, <1>1, <1>2, <1>3, <1>4, Basics DEF ContInv
<1>9. FreshInv'
  BY <1>0, <1>2, Basics DEF FreshInv, NotYet
<1>10. BelowInv'
  BY <1>0, <1>2, <1>3, Basics DEF BelowInv
<1>11. SlotInv'
  BY <1>0, <1>2, Basics DEF SlotInv
<1>12. WaitInv'
  <2>1. \A k \in Mains : k # m /\ fst[k] \in Live =>
           root[k] \in Roots[k] /\ root[k] \in Frames /\ root[k] # m
    BY <1>0, Basics DEF WaitInv
  <2>2. cur[m] = None
    BY <1>0, <1>1 DEF WaitInv
  <2> QED BY <1>0, <1>1, <1>2, <1>4, <2>1, <2>2, Basics DEF WaitInv, Live, States
<1> QED BY <1>1, <1>5, <1>6, <1>7, <1>8, <1>9, <1>10, <1>11, <1>12 DEF IInv, FramesInv

(* A body ends; whoever runs it still has to suspend it. *)
LEMMA EndInv ==
    ASSUME IInv, NEW t \in Threads, NEW f \in Frames, Runs(t, f, "running"),
           f \in Mains => pos[f] # 1, fst' = [fst EXCEPT ![f] = "final"],
           res' \in [Frames -> {"none", "value", "exception"}], raised' \subseteq MayThrow,
           UNCHANGED <<pos, cont, cur, submitted, slot, root, sem, mpc, got>>
    PROVE  IInv'
<1>0. FrameTypes /\ ThreadInv /\ AwaitInv /\ PoolInv /\ ContInv /\ FreshInv /\ BelowInv /\ SlotInv
      /\ WaitInv
  BY Basics
<1>1. fst[f] = "running" /\ cur[t] = f /\ OnThread(f) /\ OnThread(f)'
  BY DEF Runs, OnThread
<1>2. fst'[f] = "final" /\ \A g \in Frames : g # f => fst'[g] = fst[g]
  BY <1>0 DEF FrameTypes
<1>3. \A g \in Frames : Steps(g)' = Steps(g) /\ Awaited(g)' = Awaited(g)
  BY DEF Steps, Awaited
<1>4. \A g \in Frames : (OnThread(g)' <=> OnThread(g)) /\ (Busy(g)' <=> Busy(g))
  BY <1>1, <1>2 DEF OnThread, Busy
<1>5. FrameTypes'
  BY <1>0, <1>3 DEF FrameTypes, States
<1>6. ThreadInv'
  BY <1>0, <1>1, <1>2, Basics DEF ThreadInv, OneThread, FrameTypes
<1>7. AwaitInv' /\ PoolInv'
  BY <1>0, <1>1, <1>2, <1>3, <1>4, Basics DEF AwaitInv, PoolInv, FrameTypes
<1>8. ContInv'
  BY <1>0, <1>1, <1>2, <1>3, <1>4, Basics DEF ContInv
<1>9. FreshInv'
  BY <1>0, <1>1, <1>2, Basics DEF FreshInv, NotYet
<1>10. BelowInv'
  <2>1. \A c \in Coros : fst'[c] \in Live => fst[c] \in Live
    BY <1>1, <1>2, Basics DEF Live, States
  <2>2. \A g \in Coros : fst[g] \in {"suspended", "resumed"} => fst'[g] = fst[g]
    BY <1>1, <1>2, Basics
  <2> QED BY <1>0, <1>3, <2>1, <2>2, Basics DEF BelowInv
<1>11. SlotInv'
  BY <1>0, <1>1, <1>2, Basics DEF SlotInv, Live, States
<1>12. WaitInv'
  <2>1. \A k \in Mains : fst[k] \in Live => root[k] \in Roots[k] /\ root[k] \in Frames
    BY <1>0, Basics DEF WaitInv
  <2>2. \A k \in Mains : fst[k] = "final" => k # f
    BY <1>1
  <2>3. \A k \in Mains : (fst'[k] = "running" /\ pos[k] # 1) \/ fst'[k] = "final" =>
              fst'[root[k]] = "final" /\ ~Busy(root[k])'
    BY <1>0, <1>1, <1>2, <1>4, <2>1, Basics DEF WaitInv, Live, States
  <2>4. \A k \in Mains : fst'[k] = "running" /\ pos[k] = 1 => fst'[root[k]] = "created"
    BY <1>0, <1>1, <1>2, <2>1, Basics DEF WaitInv, Live, States
  <2> QED BY <1>0, <1>1, <1>2, <1>4, <2>1, <2>3, <2>4, Basics DEF WaitInv, Live, States
<1> QED BY <1>5, <1>6, <1>7, <1>8, <1>9, <1>10, <1>11, <1>12 DEF IInv, FramesInv

LEMMA ReturnInv ==
    ASSUME IInv, NEW t \in Threads, NEW f \in Frames, Return(t, f)
    PROVE  IInv'
<1>1. Runs(t, f, "running") /\ res' \in [Frames -> {"none", "value", "exception"}]
      /\ raised' \subseteq MayThrow
  BY DEF IInv, FrameTypes, Return
<1>2. f \in Mains => pos[f] # 1
  BY DEF Return, Steps
<1> QED BY <1>1, <1>2, EndInv DEF Return

LEMMA ThrowInv ==
    ASSUME IInv, NEW t \in Threads, NEW f \in Frames, Throw(t, f)
    PROVE  IInv'
<1>1. Runs(t, f, "running") /\ res' \in [Frames -> {"none", "value", "exception"}]
      /\ raised' \subseteq MayThrow
  BY DEF IInv, FrameTypes, Throw
<1>2. f \notin Mains
  BY BodyAssumption DEF Throw
<1> QED BY <1>1, <1>2, EndInv DEF Throw

(* The awaited task is told of f and taken over: it is a new one.          *)
LEMMA AwaitTaskInv ==
    ASSUME IInv, NEW t \in Threads, NEW f \in Frames, AwaitTask(t, f)
    PROVE  IInv'
<1>0. FrameTypes /\ ThreadInv /\ AwaitInv /\ PoolInv /\ ContInv /\ FreshInv /\ BelowInv /\ SlotInv
      /\ WaitInv
  BY Basics
<1> DEFINE a == Awaited(f)
<1>1. fst[f] = "running" /\ cur[t] = f /\ OnThread(f) /\ pos[f] <= Len(Steps(f)) /\ a # Pool
  BY DEF AwaitTask, Runs, OnThread
<1>2. a \in Coros /\ a \in Frames
  BY <1>1, AwaitedType, Basics
<1>3. fst[a] \in {"none", "created"}
  <2>1. CASE f \in Coros
    <3>1. pos[f] \in DOMAIN Body[f] /\ a = Body[f][pos[f]]
      BY <1>1, <2>1, AwaitedType
    <3> QED BY <1>0, <1>1, <2>1, <3>1 DEF FreshInv, NotYet
  <2>2. CASE f \in Mains
    BY <1>0, <1>1, <2>2, AwaitedType DEF WaitInv
  <2> QED BY <2>1, <2>2 DEF Frames
<1>4. a # f /\ ~Busy(a)
  BY <1>1, <1>2, <1>3, Basics DEF Busy
<1>5. \A k \in Mains : a \in Roots[k] => f = k /\ fst[a] = "created"
  <2> SUFFICES ASSUME NEW k \in Mains, a \in Roots[k] PROVE f = k /\ fst[a] = "created"
    OBVIOUS
  <2>1. CASE f \in Coros
    BY <1>1, <1>2, <2>1, AwaitedType, CalledOnceAssumption
  <2>2. CASE f \in Mains
    <3>1. a \in Roots[f] /\ fst[a] = "created"
      BY <1>0, <1>1, <2>2, AwaitedType DEF WaitInv
    <3> QED BY <1>2, <2>2, <3>1, CalledOnceAssumption
  <2> QED BY <2>1, <2>2 DEF Frames
<1>6. \A g \in Coros : \A i \in DOMAIN Body[g] : Body[g][i] = a => g = f /\ i = pos[f]
  <2> SUFFICES ASSUME NEW g \in Coros, NEW i \in DOMAIN Body[g], Body[g][i] = a
               PROVE  g = f /\ i = pos[f]
    OBVIOUS
  <2>1. CASE f \in Coros
    BY <1>1, <1>2, <2>1, AwaitedType, CalledOnceAssumption
  <2>2. CASE f \in Mains
    BY <1>1, <2>2, AwaitedType, CalledOnceAssumption
  <2> QED BY <2>1, <2>2 DEF Frames
<1>7. /\ fst'[f] = "suspended" /\ fst'[a] = "running"
      /\ \A g \in Frames : g # f /\ g # a => fst'[g] = fst[g]
      /\ cont'[a] = f /\ \A g \in Coros : g # a => cont'[g] = cont[g]
      /\ cur'[t] = a /\ \A u \in Threads : u # t => cur'[u] = cur[u]
      /\ UNCHANGED <<pos, res, submitted, slot, root, sem, mpc, got, raised>>
  BY <1>0, <1>2, <1>4 DEF AwaitTask, FrameTypes
<1>8. \A g \in Frames : Steps(g)' = Steps(g) /\ Awaited(g)' = Awaited(g)
  BY <1>7 DEF Steps, Awaited
<1>9. /\ ~OnThread(f)' /\ OnThread(a)' /\ Busy(a)'
      /\ \A g \in Frames : g # f /\ g # a => (OnThread(g)' <=> OnThread(g))
      /\ \A g \in Frames : g # a => (Busy(g)' <=> Busy(g))
  <2>0. \A u \in Threads : u # t => cur[u] # f
    BY <1>0, <1>1, Basics DEF ThreadInv, OneThread
  <2>1. ~OnThread(f)' /\ OnThread(a)'
    BY <1>4, <1>7, <1>8, <2>0 DEF OnThread
  <2>2. \A g \in Frames : g # f /\ g # a => (OnThread(g)' <=> OnThread(g))
    BY <1>1, <1>7 DEF OnThread
  <2> QED BY <1>1, <1>7, <2>1, <2>2 DEF Busy
<1>10. FrameTypes'
  <2>1. fst' \in [Frames -> States]
    BY <1>0 DEF AwaitTask, FrameTypes, States
  <2>2. cont' \in [Coros -> Frames \cup {None}] /\ cur' \in [Threads -> Frames \cup {None}]
    BY <1>0, <1>2 DEF AwaitTask, FrameTypes
  <2> QED BY <1>0, <1>7, <1>8, <2>1, <2>2 DEF FrameTypes
<1>11. ThreadInv'
  <2>1. \A u \in Threads : u # t => cur[u] # f /\ cur[u] # a
    BY <1>0, <1>1, <1>2, <1>4, Basics DEF ThreadInv, OneThread, Busy, OnThread
  <2>2. \A u \in Threads : cur[u] \in Frames \cup {None}
    BY <1>0 DEF FrameTypes
  <2>3. \A u \in Threads : cur'[u] # None => fst'[cur'[u]] \in {"running", "resumed", "final"}
    BY <1>0, <1>7, <2>1, <2>2 DEF ThreadInv
  <2>4. \A u, x \in Threads : cur'[u] = cur'[x] /\ cur'[u] # None => u = x
    BY <1>0, <1>7, <2>1 DEF ThreadInv, OneThread
  <2>5. \A g \in Frames : fst'[g] \in {"running", "resumed"} => \E u \in Threads : cur'[u] = g
    BY <1>0, <1>1, <1>7 DEF ThreadInv, OneThread
  <2> QED BY <2>3, <2>4, <2>5 DEF ThreadInv, OneThread
<1>12. AwaitInv'
  <2> SUFFICES ASSUME NEW g \in Frames
               PROVE  /\ fst'[g] \in {"suspended", "resumed"} => pos[g] <= Len(Steps(g))
                      /\ fst'[g] = "suspended" =>
                            IF Awaited(g) = Pool THEN g \in submitted
                            ELSE cont'[Awaited(g)] = g /\ Busy(Awaited(g))'
                      /\ fst'[g] = "resumed" /\ Awaited(g) # Pool =>
                            fst'[Awaited(g)] = "final" /\ ~Busy(Awaited(g))'
    BY <1>7, <1>8 DEF AwaitInv
  <2>1. CASE g = f
    BY <1>1, <1>7, <1>9, <2>1
  <2>2. CASE g = a
    BY <1>7, <2>2
  <2>3. CASE g # f /\ g # a
    <3>1. fst'[g] = fst[g]
      BY <1>7, <2>3
    <3>2. fst[g] \in {"suspended", "resumed"} /\ Awaited(g) # Pool =>
             Awaited(g) \in Coros /\ Awaited(g) \in Frames
      BY Basics
    <3>3. fst[g] = "suspended" /\ Awaited(g) # Pool => Awaited(g) # a
      BY <1>0, <1>4 DEF AwaitInv
    <3>4. fst[g] = "resumed" /\ Awaited(g) # Pool => Awaited(g) # a /\ Awaited(g) # f
      BY <1>0, <1>1, <1>3 DEF AwaitInv
    <3> QED BY <1>0, <1>7, <1>8, <1>9, <3>1, <3>2, <3>3, <3>4 DEF AwaitInv
  <2> QED BY <2>1, <2>2, <2>3
<1>13. PoolInv'
  <2>1. \A g \in submitted : g \in Frames /\ g # f /\ g # a
    BY <1>0, <1>1, <1>3, Basics DEF PoolInv, FrameTypes
  <2> QED BY <1>0, <1>7, <1>8, <2>1 DEF PoolInv
<1>14. ContInv'
  BY <1>0, <1>1, <1>2, <1>3, <1>7, <1>8, <1>9, Basics DEF ContInv
<1>15. FreshInv'
  <2> SUFFICES ASSUME NEW g \in Coros, NEW i \in DOMAIN Body[g], Body[g][i] # Pool, NotYet(g, i)'
               PROVE  fst'[Body[g][i]] = "none"
    BY DEF FreshInv
  <2>1. NotYet(g, i)
    BY <1>1, <1>3, <1>7, Basics DEF NotYet
  <2>2. fst[Body[g][i]] = "none" /\ Body[g][i] \in Frames
    BY <1>0, <2>1, Basics DEF FreshInv
  <2>3. Body[g][i] # a
    <3> SUFFICES ASSUME Body[g][i] = a PROVE FALSE
      OBVIOUS
    <3>1. g = f /\ i = pos[f]
      BY <1>6
    <3> QED BY <1>0, <1>7, <3>1 DEF NotYet, FrameTypes
  <2> QED BY <1>1, <1>7, <2>2, <2>3
<1>16. BelowInv'
  <2> SUFFICES ASSUME NEW c \in Coros, fst'[c] \in Live, \A m \in Mains : c \notin Roots[m]
               PROVE  \E g \in Coros : fst'[g] \in {"suspended", "resumed"} /\ Awaited(g) = c
    BY <1>8, Basics DEF BelowInv
  <2>1. CASE c = a
    <3>1. f \in Coros
      BY <1>1, <2>1, AwaitedType DEF Frames
    <3> QED BY <1>7, <2>1, <3>1
  <2>2. CASE c # a
    <3>1. fst[c] \in Live
      BY <1>1, <1>7, <2>2, Basics DEF Live, States
    <3>2. PICK g \in Coros : fst[g] \in {"suspended", "resumed"} /\ Awaited(g) = c
      BY <1>0, <3>1 DEF BelowInv
    <3> QED BY <1>1, <1>3, <1>7, <3>2, Basics
  <2> QED BY <2>1, <2>2
<1>17. \A k \in Mains : \A c \in Roots[k] : fst'[c] \in Live <=> fst[c] \in Live
  BY <1>1, <1>5, <1>7, Basics DEF Live, States
<1>18. SlotInv'
  BY <1>0, <1>7, <1>17 DEF SlotInv
<1>19. WaitInv'
  <2>1. \A k \in Mains : fst[k] \in Live => root[k] \in Roots[k] /\ root[k] \in Frames
    BY <1>0, Basics DEF WaitInv
  <2>2. \A k \in Mains : k # f => fst'[k] = fst[k] /\ (OnThread(k)' <=> OnThread(k))
    BY <1>2, <1>7, <1>9, Basics
  <2>3. \A k \in Mains : k # f /\ fst[k] \in Live => root[k] # a
    BY <1>5, <2>1
  <2>4. \A k \in Mains : fst'[k] = "running" /\ pos[k] = 1 => fst'[root[k]] = "created"
    BY <1>0, <1>1, <1>7, <2>1, <2>2, <2>3 DEF WaitInv, Live, States
  <2>5. \A k \in Mains : (fst'[k] = "running" /\ pos[k] # 1) \/ fst'[k] = "final" =>
              fst'[root[k]] = "final" /\ ~Busy(root[k])'
    BY <1>0, <1>1, <1>7, <1>9, <2>1, <2>2, <2>3 DEF WaitInv, Live, States
  <2>6. \A k \in Mains : cur'[k] # None => mpc[k] = "start"
    BY <1>0, <1>1, <1>7, Basics DEF WaitInv
  <2>7. \A k \in Mains : sem[k] = 1 \/ mpc[k] = "collect" => fst'[k] = "final" /\ ~OnThread(k)'
    BY <1>0, <1>1, <2>2 DEF WaitInv
  <2>8. \A k \in Mains : /\ mpc[k] \in {"free", "done"} <=> fst'[k] \in {"none", "destroyed"}
                         /\ fst'[k] # "created" /\ (fst'[k] \in Live => root[k] \in Roots[k])
    BY <1>0, <1>1, <1>7, <2>1, <2>2 DEF WaitInv, Live, States
  <2> QED BY <1>0, <1>7, <2>4, <2>5, <2>6, <2>7, <2>8 DEF WaitInv
<1> QED BY <1>10, <1>11, <1>12, <1>13, <1>14, <1>15, <1>16, <1>18, <1>19 DEF IInv, FramesInv

LEMMA AwaitPoolInv ==
    ASSUME IInv, NEW t \in Threads, NEW f \in Frames, AwaitPool(t, f)
    PROVE  IInv'
<1>0. FrameTypes /\ ThreadInv /\ AwaitInv /\ PoolInv /\ ContInv /\ FreshInv /\ BelowInv /\ SlotInv
      /\ WaitInv
  BY Basics
<1>1. fst[f] = "running" /\ cur[t] = f /\ OnThread(f) /\ pos[f] <= Len(Steps(f))
      /\ Awaited(f) = Pool
  BY DEF AwaitPool, Runs, OnThread
<1>2. f \in Coros /\ f \notin Mains
  BY <1>1, AwaitedType, Basics DEF Frames
<1>3. /\ fst'[f] = "suspended" /\ \A g \in Frames : g # f => fst'[g] = fst[g]
      /\ submitted' = submitted \cup {f}
      /\ cur'[t] = None /\ \A u \in Threads : u # t => cur'[u] = cur[u]
      /\ UNCHANGED <<pos, cont, res, slot, root, sem, mpc, got, raised>>
  BY <1>0 DEF AwaitPool, FrameTypes
<1>4. \A g \in Frames : Steps(g)' = Steps(g) /\ Awaited(g)' = Awaited(g)
  BY <1>3 DEF Steps, Awaited
<1>5. /\ \A g \in Frames : g # f => (OnThread(g)' <=> OnThread(g))
      /\ \A g \in Frames : Busy(g)' <=> Busy(g)
  <2>1. \A g \in Frames : g # f => (OnThread(g)' <=> OnThread(g))
    BY <1>1, <1>3, Basics DEF OnThread
  <2> QED BY <1>1, <1>3, <2>1 DEF Busy
<1>6. FrameTypes'
  <2>1. fst' \in [Frames -> States]
    BY <1>0 DEF AwaitPool, FrameTypes, States
  <2>2. cur' \in [Threads -> Frames \cup {None}]
    BY <1>0 DEF AwaitPool, FrameTypes
  <2> QED BY <1>0, <1>2, <1>3, <1>4, <2>1, <2>2 DEF FrameTypes
<1>7. ThreadInv'
  <2>1. \A u \in Threads : cur[u] \in Frames \cup {None} /\ (u # t => cur[u] # f)
    BY <1>0, <1>1, Basics DEF FrameTypes, ThreadInv, OneThread
  <2>2. \A u \in Threads : cur'[u] # None => fst'[cur'[u]] \in {"running", "resumed", "final"}
    BY <1>0, <1>3, <2>1 DEF ThreadInv
  <2>3. \A u, x \in Threads : cur'[u] = cur'[x] /\ cur'[u] # None => u = x
    BY <1>0, <1>3 DEF ThreadInv, OneThread
  <2>4. \A g \in Frames : fst'[g] \in {"running", "resumed"} => \E u \in Threads : cur'[u] = g
    BY <1>0, <1>1, <1>3 DEF ThreadInv, OneThread
  <2> QED BY <2>2, <2>3, <2>4 DEF ThreadInv, OneThread
<1>8. AwaitInv'
  BY <1>0, <1>1, <1>3, <1>4, <1>5, Basics DEF AwaitInv
<1>9. PoolInv'
  <2>1. \A g \in submitted : g \in Frames /\ g # f
    BY <1>0, <1>1, Basics DEF PoolInv, FrameTypes
  <2> QED BY <1>0, <1>1, <1>3, <1>4, <2>1 DEF PoolInv
<1>10. ContInv'
  BY <1>0, <1>1, <1>3, <1>4, <1>5, Basics DEF ContInv
<1>11. FreshInv'
  BY <1>0, <1>1, <1>3, Basics DEF FreshInv, NotYet
<1>12. BelowInv'
  <2>1. \A c \in Coros : fst'[c] \in Live => fst[c] \in Live
    BY <1>1, <1>3, Basics DEF Live, States
  <2>2. \A g \in Coros : fst[g] \in {"suspended", "resumed"} => fst'[g] = fst[g]
    BY <1>1, <1>3, Basics
  <2> QED BY <1>0, <1>4, <2>1, <2>2, Basics DEF BelowInv
<1>13. SlotInv'
  BY <1>0, <1>1, <1>3, Basics DEF SlotInv, Live, States
<1>14. WaitInv'
  <2>1. \A k \in Mains : fst[k] \in Live => root[k] \in Roots[k] /\ root[k] \in Frames
    BY <1>0, Basics DEF WaitInv
  <2>2. \A k \in Mains : fst'[k] = fst[k] /\ (OnThread(k)' <=> OnThread(k))
    BY <1>2, <1>3, <1>5, Basics
  <2>3. \A k \in Mains : fst[k] \in Live /\ fst[root[k]] \in {"created", "final"} =>
              fst'[root[k]] = fst[root[k]]
    BY <1>1, <1>3, <2>1
  <2>4. \A k \in Mains : fst[k] \in Live => (Busy(root[k])' <=> Busy(root[k]))
    BY <1>3, <1>5, <2>1
  <2> QED BY <1>0, <1>3, <2>2, <2>3, <2>4, Basics DEF WaitInv, Live, States
<1> QED BY <1>6, <1>7, <1>8, <1>9, <1>10, <1>11, <1>12, <1>13, <1>14 DEF IInv, FramesInv

LEMMA ResumeInv ==
    ASSUME IInv, NEW w \in Workers, NEW f \in Frames, Resume(w, f)
    PROVE  IInv'
<1>0. FrameTypes /\ ThreadInv /\ AwaitInv /\ PoolInv /\ ContInv /\ FreshInv /\ BelowInv /\ SlotInv
      /\ WaitInv
  BY Basics
<1>1. /\ w \in Threads /\ w \notin Mains /\ f \in submitted /\ f \in Coros /\ cur[w] = None
      /\ fst[f] = "suspended" /\ Awaited(f) = Pool /\ f \notin Mains /\ ~OnThread(f) /\ f # None
  BY <1>0, Basics DEF Resume, PoolInv, FrameTypes, Threads
<1>2. /\ fst'[f] = "resumed" /\ \A g \in Frames : g # f => fst'[g] = fst[g]
      /\ submitted' = submitted \ {f}
      /\ cur'[w] = f /\ \A u \in Threads : u # w => cur'[u] = cur[u]
      /\ UNCHANGED <<pos, cont, res, slot, root, sem, mpc, got, raised>>
  BY <1>0, <1>1 DEF Resume, FrameTypes
<1>3. \A g \in Frames : Steps(g)' = Steps(g) /\ Awaited(g)' = Awaited(g)
  BY <1>2 DEF Steps, Awaited
<1>4. /\ \A g \in Frames : g # f => (OnThread(g)' <=> OnThread(g))
      /\ \A g \in Frames : Busy(g)' <=> Busy(g)
  <2>1. \A g \in Frames : g # f => (OnThread(g)' <=> OnThread(g))
    BY <1>1, <1>2, Basics DEF OnThread
  <2> QED BY <1>1, <1>2, <2>1 DEF Busy
<1>5. FrameTypes'
  <2>1. fst' \in [Frames -> States]
    BY <1>0 DEF Resume, FrameTypes, States
  <2>2. cur' \in [Threads -> Frames \cup {None}]
    BY <1>0 DEF Resume, FrameTypes
  <2> QED BY <1>0, <1>2, <1>3, <2>1, <2>2 DEF FrameTypes
<1>6. ThreadInv'
  <2>1. \A u \in Threads : cur[u] \in Frames \cup {None} /\ cur[u] # f
    BY <1>0, <1>1 DEF FrameTypes, OnThread
  <2>2. \A u \in Threads : cur'[u] # None => fst'[cur'[u]] \in {"running", "resumed", "final"}
    BY <1>0, <1>2, <2>1 DEF ThreadInv
  <2>3. \A u, x \in Threads : cur'[u] = cur'[x] /\ cur'[u] # None => u = x
    BY <1>0, <1>2, <2>1 DEF ThreadInv, OneThread
  <2>4. \A g \in Frames : fst'[g] \in {"running", "resumed"} => \E u \in Threads : cur'[u] = g
    BY <1>0, <1>1, <1>2, Basics DEF ThreadInv, OneThread
  <2> QED BY <2>2, <2>3, <2>4 DEF ThreadInv, OneThread
<1>7. AwaitInv'
  BY <1>0, <1>1, <1>2, <1>3, <1>4, Basics DEF AwaitInv
<1>8. PoolInv'
  BY <1>0, <1>2, <1>3, Basics DEF PoolInv, FrameTypes
<1>9. ContInv'
  BY <1>0, <1>1, <1>2, <1>3, <1>4, Basics DEF ContInv
<1>10. FreshInv'
  BY <1>0, <1>1, <1>2, Basics DEF FreshInv, NotYet
<1>11. BelowInv'
  <2>1. \A c \in Coros : fst'[c] \in Live => fst[c] \in Live
    BY <1>1, <1>2, Basics DEF Live, States
  <2>2. \A g \in Coros : fst[g] \in {"suspended", "resumed"} => fst'[g] \in {"suspended", "resumed"}
    BY <1>1, <1>2, Basics
  <2> QED BY <1>0, <1>3, <2>1, <2>2, Basics DEF BelowInv
<1>12. SlotInv'
  BY <1>0, <1>1, <1>2, Basics DEF SlotInv, Live, States
<1>13. WaitInv'
  <2>1. \A k \in Mains : fst[k] \in Live => root[k] \in Roots[k] /\ root[k] \in Frames
    BY <1>0, Basics DEF WaitInv
  <2>2. \A k \in Mains : fst'[k] = fst[k] /\ (OnThread(k)' <=> OnThread(k)) /\ cur'[k] = cur[k]
    BY <1>1, <1>2, <1>4, Basics
  <2>3. \A k \in Mains : fst[k] \in Live /\ fst[root[k]] \in {"created", "final"} =>
              fst'[root[k]] = fst[root[k]]
    BY <1>1, <1>2, <2>1
  <2>4. \A k \in Mains : fst[k] \in Live => (Busy(root[k])' <=> Busy(root[k]))
    BY <1>2, <1>4, <2>1
  <2> QED BY <1>0, <1>2, <2>2, <2>3, <2>4, Basics DEF WaitInv, Live, States
<1> QED BY <1>5, <1>6, <1>7, <1>8, <1>9, <1>10, <1>11, <1>12, <1>13 DEF IInv, FramesInv

(* The await is over: the temporary that goes with it was f's alone.       *)
LEMMA AwaitResumeInv ==
    ASSUME IInv, NEW t \in Threads, NEW f \in Frames, AwaitResume(t, f)
    PROVE  /\ IInv'
           /\ \A g \in Temporary(f) : g \in Frames => fst[g] = "final" /\ ~OnThread(g)
<1>0. FrameTypes /\ ThreadInv /\ AwaitInv /\ PoolInv /\ ContInv /\ FreshInv /\ BelowInv /\ SlotInv
      /\ WaitInv
  BY Basics
<1> DEFINE a == Awaited(f)
<1>1. fst[f] = "resumed" /\ cur[t] = f /\ OnThread(f) /\ pos[f] <= Len(Steps(f))
  BY <1>0 DEF AwaitResume, Runs, OnThread, AwaitInv
<1>2. /\ a \in Coros \cup {Pool}
      /\ f \in Coros => pos[f] \in DOMAIN Body[f] /\ a = Body[f][pos[f]]
      /\ f \in Mains => pos[f] = 1 /\ a = root[f] /\ a # Pool
  BY <1>1, AwaitedType
<1>3. a # Pool => a \in Frames /\ fst[a] = "final" /\ ~Busy(a) /\ ~OnThread(a)
  BY <1>0, <1>1, <1>2, Basics DEF AwaitInv, Busy
<1>4. f \notin Temporary(f) /\ \A g \in Temporary(f) : g = a /\ a # Pool /\ f \in Coros
  BY <1>1, <1>3 DEF Temporary
<1>5. /\ \A g \in Temporary(f) : g \in Frames => fst'[g] = "destroyed"
      /\ \A g \in Frames : g # f /\ g \notin Temporary(f) => fst'[g] = fst[g]
      /\ UNCHANGED <<cont, cur, submitted, slot, root, sem, mpc, got, raised>>
      /\ \A g \in Frames : g # f => pos'[g] = pos[g]
      /\ \/ fst'[f] = "final" /\ pos'[f] = pos[f] /\ f \in Coros
         \/ fst'[f] = "final" /\ pos'[f] = pos[f] /\ f \in Mains
         \/ fst'[f] = "running" /\ pos'[f] = pos[f] + 1
      /\ fst' \in [Frames -> States] /\ res' \in [Frames -> {"none", "value", "exception"}]
      /\ pos' \in [Frames -> Nat \ {0}]
  <2>1. /\ \A g \in Temporary(f) : g \in Frames => fst'[g] = "destroyed"
        /\ \A g \in Frames : g # f /\ g \notin Temporary(f) => fst'[g] = fst[g]
        /\ UNCHANGED <<cont, cur, submitted, slot, root, sem, mpc, got, raised>>
    BY DEF AwaitResume
  <2>2. fst' \in [Frames -> States]
    BY <1>0 DEF AwaitResume, FrameTypes, States
  <2>3. res' \in [Frames -> {"none", "value", "exception"}]
    BY <1>0 DEF AwaitResume, FrameTypes
  <2>4. pos[f] \in Nat \ {0} /\ pos[f] + 1 \in Nat \ {0}
    BY <1>0 DEF FrameTypes
  <2>5. CASE Rethrows(f) /\ f \notin Catches
    <3>1. pos' = pos /\ fst'[f] = "final"
      BY <1>4, <2>5 DEF AwaitResume
    <3> QED BY <1>0, <2>1, <2>2, <2>3, <3>1 DEF FrameTypes, Frames
  <2>6. CASE ~(Rethrows(f) /\ f \notin Catches)
    <3>1. pos' = [pos EXCEPT ![f] = pos[f] + 1] /\ fst'[f] = "running"
      BY <1>4, <2>6 DEF AwaitResume
    <3>2. pos \in [Frames -> Nat \ {0}]
      BY <1>0 DEF FrameTypes
    <3>3. pos' \in [Frames -> Nat \ {0}]
      BY <2>4, <3>1, <3>2, Zenon
    <3> QED BY <2>1, <2>2, <2>3, <3>1, <3>2, <3>3
  <2> QED BY <2>5, <2>6
<1>6. /\ \A g \in Frames : Steps(g)' = Steps(g)
      /\ \A g \in Frames : g # f => Awaited(g)' = Awaited(g)
  BY <1>5 DEF Steps, Awaited
<1>7. \A g \in Frames : (OnThread(g)' <=> OnThread(g)) /\ (Busy(g)' <=> Busy(g))
  <2>1. \A g \in Frames : OnThread(g)' <=> OnThread(g)
    BY <1>5 DEF OnThread
  <2>2. Busy(f) /\ Busy(f)'
    BY <1>1, <2>1 DEF Busy
  <2>3. \A g \in Temporary(f) : g \in Frames => ~Busy(g) /\ ~Busy(g)'
    BY <1>3, <1>4, <1>5, <2>1 DEF Busy
  <2>4. \A g \in Frames : g # f /\ g \notin Temporary(f) => (Busy(g)' <=> Busy(g))
    BY <1>5, <2>1 DEF Busy
  <2> QED BY <2>1, <2>2, <2>3, <2>4
<1>8. FrameTypes'
  <2>1. \A g \in Frames : pos'[g] <= Len(Steps(g)) + 1
    <3>1. pos'[f] <= Len(Steps(f)) + 1
      <4>1. Len(Steps(f)) \in Nat
        BY BodyAssumption DEF Steps, Frames
      <4> QED BY <1>0, <1>1, <1>5, <4>1 DEF FrameTypes
    <3> QED BY <1>0, <1>5, <3>1 DEF FrameTypes
  <2> QED BY <1>0, <1>5, <1>6, <2>1 DEF FrameTypes
<1>9. ThreadInv'
  <2>1. \A u \in Threads : cur[u] # None => cur[u] \in Frames /\ cur[u] \notin Temporary(f)
    BY <1>0, <1>3, <1>4 DEF FrameTypes, OnThread
  <2>2. \A u \in Threads : cur[u] # None => fst'[cur[u]] \in {"running", "resumed", "final"}
    BY <1>0, <1>5, <2>1 DEF ThreadInv
  <2>3. \A g \in Frames : fst'[g] \in {"running", "resumed"} => \E u \in Threads : cur[u] = g
    BY <1>0, <1>1, <1>5 DEF ThreadInv, OneThread
  <2> QED BY <1>0, <1>5, <2>2, <2>3 DEF ThreadInv, OneThread
<1>10. \A g \in Frames : fst[g] \in {"suspended", "resumed"} /\ g # f => Awaited(g) \notin Temporary(f)
  BY <1>0, <1>1, <1>4, UniqueAwaiter DEF AwaitInv
<1>11. \A g \in Frames : fst'[g] \in {"suspended", "resumed"} => g # f /\ fst'[g] = fst[g]
  BY <1>5
<1>12. AwaitInv'
  <2> SUFFICES ASSUME NEW g \in Frames, fst'[g] \in {"suspended", "resumed"}
               PROVE  /\ pos'[g] <= Len(Steps(g))
                      /\ fst'[g] = "suspended" =>
                            IF Awaited(g) = Pool THEN g \in submitted
                            ELSE cont[Awaited(g)] = g /\ Busy(Awaited(g))'
                      /\ fst'[g] = "resumed" /\ Awaited(g) # Pool =>
                            fst'[Awaited(g)] = "final" /\ ~Busy(Awaited(g))'
    BY <1>5, <1>6, <1>11 DEF AwaitInv
  <2>1. g # f /\ fst'[g] = fst[g] /\ Awaited(g) \notin Temporary(f) /\ Awaited(g)' = Awaited(g)
    BY <1>6, <1>10, <1>11
  <2>2. Awaited(g) # Pool => Awaited(g) \in Frames
    BY <2>1, Basics
  <2>3. Awaited(g) # Pool => (Busy(Awaited(g))' <=> Busy(Awaited(g)))
    BY <1>7, <2>1, <2>2
  <2>4. fst[g] = "resumed" /\ Awaited(g) # Pool => fst'[Awaited(g)] = fst[Awaited(g)]
    BY <1>0, <1>1, <1>5, <2>1, <2>2 DEF AwaitInv
  <2> QED BY <1>0, <1>5, <2>1, <2>3, <2>4 DEF AwaitInv
<1>13. PoolInv'
  <2>1. \A g \in submitted : g \in Frames /\ g # f /\ g \notin Temporary(f)
    BY <1>0, <1>1, <1>3, <1>4, Basics DEF PoolInv, FrameTypes
  <2> QED BY <1>0, <1>5, <1>6, <2>1 DEF PoolInv
<1>14. ContInv'
  <2>1. \A c \in Coros : Busy(c) => /\ cont[c] \in Frames /\ fst[cont[c]] = "suspended"
                                    /\ Awaited(cont[c]) = c
    BY <1>0 DEF ContInv
  <2>2. \A c \in Coros : Busy(c) => cont[c] # f /\ cont[c] \notin Temporary(f)
    BY <1>1, <1>3, <1>4, <2>1
  <2> QED BY <1>5, <1>6, <1>7, <2>1, <2>2, Basics DEF ContInv
<1>15. FreshInv'
  <2> SUFFICES ASSUME NEW g \in Coros, NEW i \in DOMAIN Body[g], Body[g][i] # Pool, NotYet(g, i)'
               PROVE  fst'[Body[g][i]] = "none"
    BY DEF FreshInv
  <2>1. NotYet(g, i)
    <3>1. i \in Nat /\ pos[g] \in Nat
      BY <1>0, BodyAssumption, Basics DEF FrameTypes
    <3>2. CASE g = f
      BY <1>1, <1>5, <3>1, <3>2 DEF NotYet
    <3>3. CASE g # f
      BY <1>5, <3>1, <3>3, Basics DEF NotYet
    <3> QED BY <3>2, <3>3
  <2>2. fst[Body[g][i]] = "none" /\ Body[g][i] \in Frames
    BY <1>0, <2>1, Basics DEF FreshInv
  <2> QED BY <1>1, <1>3, <1>4, <1>5, <2>2
<1>16. BelowInv'
  <2> SUFFICES ASSUME NEW c \in Coros, fst'[c] \in Live, \A m \in Mains : c \notin Roots[m]
               PROVE  \E g \in Coros : fst'[g] \in {"suspended", "resumed"} /\ Awaited(g)' = c
    BY DEF BelowInv
  <2>1. c \notin Temporary(f) /\ c \in Frames
    BY <1>5, Basics DEF Live
  <2>2. fst[c] \in Live
    BY <1>1, <1>5, <2>1 DEF Live, States
  <2>3. PICK g \in Coros : fst[g] \in {"suspended", "resumed"} /\ Awaited(g) = c
    BY <1>0, <2>2 DEF BelowInv
  <2>4. c # Pool /\ g \in Frames
    BY <2>1, Basics
  <2>5. g # f
    BY <2>1, <2>3, <2>4 DEF Temporary
  <2>6. g \notin Temporary(f)
    BY <1>3, <1>4, <2>3
  <2> QED BY <1>5, <1>6, <2>3, <2>4, <2>5, <2>6
<1>17. \A k \in Mains : \A c \in Roots[k] : c \in Frames /\ c \notin Temporary(f)
  <2>1. \A k \in Mains : \A c \in Roots[k] : c \in Frames
    BY Basics
  <2>2. f \in Coros /\ a # Pool => \A k \in Mains : a \notin Roots[k]
    BY <1>2, CalledOnceAssumption
  <2> QED BY <1>4, <2>1, <2>2
<1>18. SlotInv'
  <2>1. \A k \in Mains : \A c \in Roots[k] : fst'[c] \in Live <=> fst[c] \in Live
    BY <1>1, <1>5, <1>17 DEF Live, States
  <2> QED BY <1>0, <1>5, <2>1 DEF SlotInv
<1>19. WaitInv'
  <2>1. \A k \in Mains : fst[k] \in Live => root[k] \in Roots[k] /\ root[k] \in Frames
    BY <1>0, Basics DEF WaitInv
  <2>2. \A k \in Mains : k # f => fst'[k] = fst[k] /\ pos'[k] = pos[k]
    BY <1>2, <1>4, <1>5, Basics
  <2>3. \A k \in Mains : fst[k] \in Live => (Busy(root[k])' <=> Busy(root[k]))
    BY <1>5, <1>7, <2>1
  <2>4. \A k \in Mains : fst[k] \in Live /\ fst[root[k]] \in {"created", "final"} =>
              fst'[root[k]] = fst[root[k]]
    BY <1>1, <1>5, <1>17, <2>1
  <2>5. f \in Mains => fst'[root[f]] = "final" /\ ~Busy(root[f])'
    BY <1>1, <1>2, <1>3, <2>3, <2>4 DEF Live, States
  <2>6. f \in Mains => (fst'[f] = "running" => pos'[f] # 1)
    BY <1>2, <1>5
  <2>7. \A k \in Mains : fst'[k] = "running" /\ pos'[k] = 1 => fst'[root[k]] = "created"
    BY <1>0, <2>2, <2>4, <2>6 DEF WaitInv, Live, States
  <2>8. \A k \in Mains : (fst'[k] = "running" /\ pos'[k] # 1) \/ fst'[k] = "final" =>
              fst'[root[k]] = "final" /\ ~Busy(root[k])'
    BY <1>0, <2>2, <2>3, <2>4, <2>5 DEF WaitInv, Live, States
  <2>9. \A k \in Mains : OnThread(k)' <=> OnThread(k)
    BY <1>7, Basics
  <2>10. \A k \in Mains : sem[k] = 1 \/ mpc[k] = "collect" => fst'[k] = "final" /\ ~OnThread(k)'
    BY <1>0, <1>1, <2>2, <2>9 DEF WaitInv
  <2>11. \A k \in Mains : /\ mpc[k] \in {"free", "done"} <=> fst'[k] \in {"none", "destroyed"}
                          /\ fst'[k] # "created" /\ (fst'[k] \in Live => root[k] \in Roots[k])
    BY <1>0, <1>1, <1>5, <2>2 DEF WaitInv, Live, States
  <2> QED BY <1>0, <1>5, <2>7, <2>8, <2>10, <2>11 DEF WaitInv
<1>20. \A g \in Temporary(f) : g \in Frames => fst[g] = "final" /\ ~OnThread(g)
  BY <1>3, <1>4
<1> QED BY <1>8, <1>9, <1>12, <1>13, <1>14, <1>15, <1>16, <1>18, <1>19, <1>20 DEF IInv, FramesInv

(* The thread goes over to the awaiter, which is suspended for just f.     *)
LEMMA FinalSuspendInv ==
    ASSUME IInv, NEW t \in Threads, NEW f \in Frames, FinalSuspend(t, f)
    PROVE  IInv'
<1>0. FrameTypes /\ ThreadInv /\ AwaitInv /\ PoolInv /\ ContInv /\ FreshInv /\ BelowInv /\ SlotInv
      /\ WaitInv
  BY Basics
<1> DEFINE g == cont[f]
<1>1. fst[f] = "final" /\ cur[t] = f /\ OnThread(f) /\ Busy(f) /\ f \in Coros /\ f # None /\ f # Pool
  BY Basics DEF FinalSuspend, Runs, OnThread, Busy
<1>2. g \in Frames /\ fst[g] = "suspended" /\ Awaited(g) = f /\ g # f /\ g # None
      /\ g \notin submitted /\ ~OnThread(g) /\ Busy(g)
  BY <1>0, <1>1, Basics DEF ContInv, PoolInv, Busy
<1>3. /\ fst'[g] = "resumed" /\ \A h \in Frames : h # g => fst'[h] = fst[h]
      /\ cur'[t] = g /\ \A u \in Threads : u # t => cur'[u] = cur[u]
      /\ UNCHANGED <<pos, cont, res, submitted, slot, root, sem, mpc, got, raised>>
  BY <1>0, <1>2 DEF FinalSuspend, FrameTypes
<1>4. \A h \in Frames : Steps(h)' = Steps(h) /\ Awaited(h)' = Awaited(h)
  BY <1>3 DEF Steps, Awaited
<1>5. \A u \in Threads : cur[u] \in Frames \cup {None} /\ cur[u] # g /\ (u # t => cur[u] # f)
  BY <1>0, <1>1, <1>2 DEF FrameTypes, ThreadInv, OneThread, OnThread
<1>6. /\ ~OnThread(f)'
      /\ \A h \in Frames : h # f /\ h # g => (OnThread(h)' <=> OnThread(h))
      /\ ~Busy(f)' /\ \A h \in Frames : h # f => (Busy(h)' <=> Busy(h))
  <2>1. ~OnThread(f)'
    BY <1>2, <1>3, <1>5 DEF OnThread
  <2>2. \A h \in Frames : h # f /\ h # g => (OnThread(h)' <=> OnThread(h))
    BY <1>1, <1>3 DEF OnThread
  <2>3. ~Busy(f)'
    BY <1>1, <1>2, <1>3, <2>1 DEF Busy
  <2>4. Busy(g)'
    BY <1>3 DEF Busy
  <2>5. \A h \in Frames : h # f /\ h # g => (Busy(h)' <=> Busy(h))
    BY <1>3, <2>2 DEF Busy
  <2> QED BY <1>2, <1>3, <2>1, <2>2, <2>3, <2>4, <2>5
<1>7. FrameTypes'
  <2>1. fst' \in [Frames -> States]
    BY <1>0 DEF FinalSuspend, FrameTypes, States
  <2>2. cur' \in [Threads -> Frames \cup {None}]
    BY <1>0, <1>2 DEF FinalSuspend, FrameTypes
  <2> QED BY <1>0, <1>3, <1>4, <2>1, <2>2 DEF FrameTypes
<1>8. ThreadInv'
  <2>1. \A u \in Threads : cur'[u] # None => fst'[cur'[u]] \in {"running", "resumed", "final"}
    BY <1>0, <1>3, <1>5 DEF ThreadInv
  <2>2. \A u, x \in Threads : cur'[u] = cur'[x] /\ cur'[u] # None => u = x
    BY <1>0, <1>3, <1>5 DEF ThreadInv, OneThread
  <2>3. \A h \in Frames : fst'[h] \in {"running", "resumed"} => \E u \in Threads : cur'[u] = h
    BY <1>0, <1>1, <1>3 DEF ThreadInv, OneThread
  <2> QED BY <2>1, <2>2, <2>3 DEF ThreadInv, OneThread
<1>9. AwaitInv'
  <2> SUFFICES ASSUME NEW h \in Frames, fst'[h] \in {"suspended", "resumed"}
               PROVE  /\ pos[h] <= Len(Steps(h))
                      /\ fst'[h] = "suspended" =>
                            IF Awaited(h) = Pool THEN h \in submitted
                            ELSE cont[Awaited(h)] = h /\ Busy(Awaited(h))'
                      /\ fst'[h] = "resumed" /\ Awaited(h) # Pool =>
                            fst'[Awaited(h)] = "final" /\ ~Busy(Awaited(h))'
    BY <1>3, <1>4 DEF AwaitInv
  <2>1. CASE h = g
    BY <1>0, <1>1, <1>2, <1>3, <1>4, <1>6, <2>1 DEF AwaitInv
  <2>2. CASE h # g
    <3>1. fst'[h] = fst[h] /\ (Awaited(h) # Pool => Awaited(h) \in Frames)
      BY <1>3, <2>2, Basics
    <3>2. Awaited(h) # Pool => Awaited(h) # f
      BY <1>0, <1>1, <2>2, <3>1 DEF AwaitInv
    <3>3. Awaited(h) # Pool => (Busy(Awaited(h))' <=> Busy(Awaited(h)))
      BY <1>4, <1>6, <3>1, <3>2
    <3>4. fst[h] = "resumed" /\ Awaited(h) # Pool => fst'[Awaited(h)] = fst[Awaited(h)]
      BY <1>0, <1>2, <1>3, <3>1 DEF AwaitInv
    <3> QED BY <1>0, <3>1, <3>3, <3>4 DEF AwaitInv
  <2> QED BY <2>1, <2>2
<1>10. PoolInv'
  BY <1>0, <1>2, <1>3, <1>4, Basics DEF PoolInv, FrameTypes
<1>11. ContInv'
  <2> SUFFICES ASSUME NEW c \in Coros, Busy(c)'
               PROVE  cont[c] \in Frames /\ fst'[cont[c]] = "suspended" /\ Awaited(cont[c])' = c
    BY <1>3 DEF ContInv
  <2>1. c # f /\ Busy(c)
    BY <1>6, Basics
  <2>2. cont[c] \in Frames /\ fst[cont[c]] = "suspended" /\ Awaited(cont[c]) = c
    BY <1>0, <2>1 DEF ContInv
  <2> QED BY <1>2, <1>3, <1>4, <2>1, <2>2
<1>12. FreshInv'
  BY <1>0, <1>2, <1>3, Basics DEF FreshInv, NotYet
<1>13. BelowInv'
  <2>1. \A c \in Coros : fst'[c] \in Live => fst[c] \in Live
    BY <1>2, <1>3, Basics DEF Live, States
  <2>2. \A h \in Coros : fst[h] \in {"suspended", "resumed"} => fst'[h] \in {"suspended", "resumed"}
    BY <1>2, <1>3, Basics
  <2> QED BY <1>0, <1>4, <2>1, <2>2, Basics DEF BelowInv
<1>14. SlotInv'
  BY <1>0, <1>2, <1>3, Basics DEF SlotInv, Live, States
<1>15. WaitInv'
  <2>1. \A k \in Mains : fst[k] \in Live => root[k] \in Roots[k] /\ root[k] \in Frames
    BY <1>0, Basics DEF WaitInv
  <2>2. \A k \in Mains : k # g => fst'[k] = fst[k] /\ (OnThread(k)' <=> OnThread(k))
    BY <1>1, <1>3, <1>6, Basics
  <2>3. \A k \in Mains : fst[k] \in Live /\ fst[root[k]] \in {"created", "final"} =>
              fst'[root[k]] = fst[root[k]]
    BY <1>2, <1>3, <2>1
  <2>4. \A k \in Mains : fst[k] \in Live /\ ~Busy(root[k]) => ~Busy(root[k])'
    BY <1>3, <1>6, <2>1
  <2>5. \A k \in Mains : fst'[k] = "running" /\ pos[k] = 1 => fst'[root[k]] = "created"
    BY <1>0, <1>3, <2>2, <2>3 DEF WaitInv, Live, States
  <2>6. \A k \in Mains : (fst'[k] = "running" /\ pos[k] # 1) \/ fst'[k] = "final" =>
              fst'[root[k]] = "final" /\ ~Busy(root[k])'
    BY <1>0, <1>3, <2>2, <2>3, <2>4 DEF WaitInv, Live, States
  <2>7. \A k \in Mains : sem[k] = 1 \/ mpc[k] = "collect" => fst'[k] = "final" /\ ~OnThread(k)'
    BY <1>0, <1>2, <2>2 DEF WaitInv
  <2>8. \A k \in Mains : /\ mpc[k] \in {"free", "done"} <=> fst'[k] \in {"none", "destroyed"}
                         /\ fst'[k] # "created" /\ (fst'[k] \in Live => root[k] \in Roots[k])
    BY <1>0, <1>2, <1>3, <2>2 DEF WaitInv, Live, States
  <2>9. \A k \in Mains : cur'[k] # None => mpc[k] = "start"
    BY <1>0, <1>1, <1>3, Basics DEF WaitInv
  <2> QED BY <1>0, <1>3, <2>5, <2>6, <2>7, <2>8, <2>9 DEF WaitInv
<1> QED BY <1>7, <1>8, <1>9, <1>10, <1>11, <1>12, <1>13, <1>14, <1>15 DEF IInv, FramesInv

LEMMA NotifyInv ==
    ASSUME IInv, NEW t \in Threads, NEW f \in Frames, Notify(t, f)
    PROVE  IInv'
<1>0. FrameTypes /\ ThreadInv /\ AwaitInv /\ PoolInv /\ ContInv /\ FreshInv /\ BelowInv /\ SlotInv
      /\ WaitInv
  BY Basics
<1>1. fst[f] = "final" /\ cur[t] = f /\ OnThread(f) /\ f \in Mains /\ f \notin Coros /\ f # None
  BY Basics DEF Notify, Runs, OnThread
<1>2. sem[f] = 0 /\ mpc[f] \in {"start", "acquire"}
  BY <1>0, <1>1, SMTT(30) DEF WaitInv, FrameTypes
<1>3. /\ cur'[t] = None /\ \A u \in Threads : u # t => cur'[u] = cur[u]
      /\ sem'[f] = 1 /\ \A k \in Mains : k # f => sem'[k] = sem[k]
      /\ UNCHANGED <<fst, pos, cont, res, submitted, slot, root, mpc, got, raised>>
  BY <1>0, <1>1, <1>2 DEF Notify, FrameTypes
<1>4. \A g \in Frames : Steps(g)' = Steps(g) /\ Awaited(g)' = Awaited(g)
  BY <1>3 DEF Steps, Awaited
<1>5. /\ ~OnThread(f)'
      /\ \A g \in Frames : g # f => (OnThread(g)' <=> OnThread(g)) /\ (Busy(g)' <=> Busy(g))
  <2>1. \A u \in Threads : u # t => cur[u] # f
    BY <1>0, <1>1 DEF ThreadInv, OneThread
  <2>2. ~OnThread(f)'
    BY <1>1, <1>3, <2>1 DEF OnThread
  <2>3. \A g \in Frames : g # f => (OnThread(g)' <=> OnThread(g))
    BY <1>1, <1>3, Basics DEF OnThread
  <2> QED BY <1>3, <2>2, <2>3 DEF Busy
<1>6. FrameTypes'
  <2>1. cur' \in [Threads -> Frames \cup {None}]
    BY <1>0 DEF Notify, FrameTypes
  <2>2. sem' \in [Mains -> 0 .. 1]
    BY <1>0, <1>1, <1>2 DEF Notify, FrameTypes
  <2> QED BY <1>0, <1>3, <1>4, <2>1, <2>2 DEF FrameTypes
<1>7. ThreadInv'
  BY <1>0, <1>1, <1>3 DEF ThreadInv, OneThread
<1>8. AwaitInv'
  BY <1>0, <1>1, <1>3, <1>4, <1>5, Basics DEF AwaitInv
<1>9. PoolInv'
  BY <1>0, <1>3, <1>4, Basics DEF PoolInv, FrameTypes
<1>10. ContInv'
  BY <1>0, <1>1, <1>3, <1>4, <1>5, Basics DEF ContInv
<1>11. FreshInv'
  BY <1>0, <1>3 DEF FreshInv, NotYet
<1>12. BelowInv'
  BY <1>0, <1>3, <1>4, Basics DEF BelowInv
<1>13. SlotInv'
  BY <1>0, <1>3 DEF SlotInv
<1>14. WaitInv'
  <2>1. \A k \in Mains : fst[k] \in Live => root[k] \in Roots[k] /\ root[k] \in Frames /\ root[k] # f
    BY <1>0, <1>1, Basics DEF WaitInv
  <2>2. \A k \in Mains : fst[k] \in Live => (Busy(root[k])' <=> Busy(root[k]))
    BY <1>3, <1>5, <2>1
  <2>3. \A k \in Mains : sem'[k] = 1 \/ mpc[k] = "collect" => fst[k] = "final" /\ ~OnThread(k)'
    BY <1>0, <1>1, <1>3, <1>5, Basics DEF WaitInv
  <2>4. \A k \in Mains : sem'[k] = 1 => mpc[k] \in {"start", "acquire"}
    BY <1>0, <1>2, <1>3 DEF WaitInv
  <2>5. \A k \in Mains : cur'[k] # None => mpc[k] = "start"
    BY <1>0, <1>3, Basics DEF WaitInv
  <2> QED BY <1>0, <1>3, <2>2, <2>3, <2>4, <2>5 DEF WaitInv, Live, States
<1> QED BY <1>6, <1>7, <1>8, <1>9, <1>10, <1>11, <1>12, <1>13, <1>14 DEF IInv, FramesInv

-----------------------------------------------------------------------------
(* A thread that leaves an await_suspend, and the closing of the pool,      *)
(* leave every frame as it is.                                             *)
LEMMA StutterInv ==
    ASSUME IInv, (\E t \in Threads : Leave(t)) \/ ClosePool \/ UNCHANGED vars
    PROVE  IInv'
<1>1. UNCHANGED <<fst, pos, cont, res, cur, submitted, slot, root, sem, mpc, got, raised>>
  BY DEF Leave, ClosePool, vars
<1>2. FramesInv'
  BY <1>1, QuietFrames
<1>3. FrameTypes' /\ SlotInv'
  BY <1>1 DEF IInv, FrameTypes, SlotInv, Steps
<1>4. WaitInv'
  BY <1>1 DEF IInv, WaitInv, Busy, OnThread
<1> QED BY <1>2, <1>3, <1>4 DEF IInv

LEMMA NextInv == ASSUME IInv, [Next]_vars PROVE IInv'
<1>1. ASSUME NEW m \in Mains, NEW v \in Names, NEW c \in Coros, Create(m, v, c) PROVE IInv'
  BY <1>1, CreateInv
<1>2. ASSUME NEW m \in Mains, NEW v \in Names, NEW w \in Names, Move(m, v, w) PROVE IInv'
  BY <1>2, MoveInv
<1>3. ASSUME NEW m \in Mains, NEW v \in Names, Drop(m, v) \/ SyncWait(m, v) PROVE IInv'
  BY <1>3, DropInv, SyncWaitInv
<1>4. ASSUME NEW m \in Mains, Wait(m) \/ Exit(m) PROVE IInv'
  BY <1>4, StartedInv, AcquireInv, CollectInv, ExitInv DEF Wait
<1>5. ASSUME NEW t \in Threads, RunFrame(t) PROVE IInv'
  <2>1. PICK f \in Frames :
          \/ AwaitTask(t, f) \/ AwaitPool(t, f) \/ AwaitResume(t, f)
          \/ Return(t, f) \/ Throw(t, f) \/ FinalSuspend(t, f) \/ Notify(t, f)
    BY <1>5 DEF RunFrame
  <2> QED BY <2>1, AwaitTaskInv, AwaitPoolInv, AwaitResumeInv, ReturnInv, ThrowInv,
             FinalSuspendInv, NotifyInv
<1>6. ASSUME NEW w \in Workers, NEW f \in Frames, Resume(w, f) PROVE IInv'
  BY <1>6, ResumeInv
<1>7. CASE (\E t \in Threads : Leave(t)) \/ ClosePool \/ UNCHANGED vars
  BY <1>7, StutterInv
<1> QED BY <1>1, <1>2, <1>3, <1>4, <1>5, <1>6, <1>7 DEF Next, Work, Finished

LEMMA Invariance == Spec => []IInv
<1>1. Init => IInv
  BY InitInv
<1>2. IInv /\ [Next]_vars => IInv'
  BY NextInv
<1> QED BY <1>1, <1>2, PTL DEF Spec

(* Every variable of the model keeps to its type: no frame is resumed past *)
(* the end of its body, no semaphore is released twice (task.hpp,          *)
(* sync_wait.hpp).                                                         *)
THEOREM TypeCorrect == Spec => []TypeOK
<1>1. IInv => FrameTypes
  BY DEF IInv
<1>2. ASSUME Init PROVE ThreadTypes
  <2>1. leaving = [t \in Threads |-> None] /\ closed = FALSE /\ refused = {}
    BY <1>2 DEF Init
  <2>2. [t \in Threads |-> None] \in [Threads -> Frames \cup {None}]
    OBVIOUS
  <2> QED BY <2>1, <2>2, Zenon DEF ThreadTypes
<1>3. FrameTypes /\ ThreadTypes /\ [Next]_vars => ThreadTypes'
  <2> SUFFICES ASSUME FrameTypes, ThreadTypes, [Next]_vars PROVE ThreadTypes'
    OBVIOUS
  <2>1. ASSUME NEW t \in Threads, NEW f \in Frames, AwaitPool(t, f) \/ Notify(t, f)
        PROVE  ThreadTypes'
    BY <2>1 DEF AwaitPool, Notify, ThreadTypes
  <2>2. ASSUME NEW t \in Threads, Leave(t) PROVE ThreadTypes'
    BY <2>2 DEF Leave, ThreadTypes
  <2>3. ASSUME NEW w \in Workers, NEW f \in Frames, Resume(w, f) PROVE ThreadTypes'
    BY <2>3 DEF Resume, ThreadTypes
  <2>4. CASE ClosePool
    BY <2>4 DEF ClosePool, ThreadTypes
  <2>5. CASE UNCHANGED <<leaving, queue>>
    BY <2>5 DEF ThreadTypes
  <2> QED BY <2>1, <2>2, <2>3, <2>4, <2>5
          DEF Next, RunFrame, Work, Wait, Create, Move, Drop, SyncWait, Started, Acquire,
              Collect, Exit, AwaitTask, AwaitResume, Return, Throw, FinalSuspend, Finished, vars
<1> QED BY <1>1, <1>2, <1>3, Invariance, PTL DEF Spec, TypeOK

(* Whoever holds a coroutine handle that it may still use (a thread, the   *)
(* pool, a promise's continuation_handle_, a Task) holds one of a live     *)
(* frame in the state that this use expects.                               *)
THEOREM HandlesAreLive == Spec => []NoDanglingHandle
<1>1. IInv => NoDanglingHandle
  BY Basics DEF NoDanglingHandle, ThreadInv, PoolInv, ContInv, SlotInv, Busy
<1> QED BY <1>1, Invariance, PTL

(* A frame is never on two threads: a worker that resumes it does not meet *)
(* the thread that suspended it in run_async's await_suspend.              *)
THEOREM FrameIsOnOneThread == Spec => []OneThread
<1>1. IInv => OneThread
  BY DEF IInv, FramesInv, ThreadInv
<1> QED BY <1>1, Invariance, PTL

(* A suspended frame was handed to the pool, or is in the hands of the     *)
(* task that it awaits: no symmetric transfer forgets an awaiter.          *)
THEOREM NobodyIsOrphaned == Spec => []NoOrphan
<1>1. IInv => NoOrphan
  <2> SUFFICES ASSUME IInv, NEW f \in Frames, fst[f] = "suspended", f \notin submitted
               PROVE  /\ Awaited(f) # Pool /\ cont[Awaited(f)] = f
                      /\ \/ fst[Awaited(f)] \in {"running", "suspended", "resumed"}
                         \/ \E t \in Threads : cur[t] = Awaited(f)
    BY DEF NoOrphan
  <2> QED BY Basics DEF AwaitInv, Busy, OnThread
<1> QED BY <1>1, Invariance, PTL

(* A live frame has one owner, a Task variable or the await whose          *)
(* temporary it is, and any other has none: no frame is leaked, none is    *)
(* destroyed twice, however the Task objects are moved.                    *)
THEOREM EveryFrameHasOneOwner == Spec => []OneOwner
<1>1. IInv => OneOwner
  <2> SUFFICES ASSUME IInv, NEW c \in Coros
               PROVE  Cardinality(Owners(c)) = IF fst[c] \in Live THEN 1 ELSE 0
    BY DEF OneOwner
  <2> DEFINE Vars == {o \in Mains \X Names : slot[o[1]][o[2]] = c}
             Awaiting == {f \in Coros : fst[f] \in {"suspended", "resumed"} /\ Awaited(f) = c}
  <2>1. Owners(c) = Vars \cup Awaiting
    BY DEF Owners
  <2>2. c # None /\ c # Pool /\ c \in Frames
    BY Basics
  <2>3. \A o \in Vars : o[1] \in Mains /\ o[2] \in Names /\ o = <<o[1], o[2]>>
                        /\ c \in Roots[o[1]] /\ fst[c] \in Live
    BY <2>2, Basics DEF SlotInv
  <2>4. \A f \in Awaiting : fst[c] \in Live
    <3> SUFFICES ASSUME NEW f \in Awaiting PROVE fst[c] \in Live
      OBVIOUS
    <3>1. Busy(c) \/ fst[c] = "final"
      BY <2>2, Basics DEF AwaitInv
    <3> QED BY <2>2, <3>1, Basics DEF Busy, Live, States
  <2>5. CASE fst[c] \notin Live
    <3>1. Owners(c) = {}
      BY <2>1, <2>3, <2>4, <2>5
    <3> QED BY <2>5, <3>1, FS_EmptySet
  <2>6. CASE fst[c] \in Live /\ \E m \in Mains : c \in Roots[m]
    <3>1. PICK m \in Mains : c \in Roots[m]
      BY <2>6
    <3>2. PICK v \in Names : slot[m][v] = c
      BY <2>6, <3>1, Basics DEF SlotInv
    <3>3. \A o \in Vars : o = <<m, v>>
      <4> SUFFICES ASSUME NEW o \in Vars PROVE o = <<m, v>>
        OBVIOUS
      <4>1. o[1] = m
        BY <2>3, <3>1, CalledOnceAssumption
      <4>2. o[2] = v
        BY <2>2, <2>3, <3>2, <4>1, Basics DEF SlotInv
      <4> QED BY <2>3, <4>1, <4>2
    <3>4. Awaiting = {}
      <4> SUFFICES ASSUME NEW f \in Awaiting PROVE FALSE
        OBVIOUS
      <4>1. f \in Frames /\ fst[f] \in {"running", "suspended", "resumed"} /\ pos[f] <= Len(Steps(f))
        BY Basics DEF AwaitInv
      <4>2. pos[f] \in DOMAIN Body[f] /\ Body[f][pos[f]] = c
        BY <4>1, AwaitedType
      <4> QED BY <3>1, <4>2, CalledOnceAssumption
    <3>5. <<m, v>> \in Vars
      BY <3>2
    <3>6. Owners(c) = {<<m, v>>}
      BY <2>1, <3>3, <3>4, <3>5
    <3> QED BY <2>6, <3>6, FS_Singleton
  <2>7. CASE fst[c] \in Live /\ \A m \in Mains : c \notin Roots[m]
    <3>1. PICK f \in Coros : fst[f] \in {"suspended", "resumed"} /\ Awaited(f) = c
      BY <2>7, Basics DEF BelowInv
    <3>2. Vars = {}
      BY <2>3, <2>7
    <3>3. \A g \in Awaiting : g = f
      BY <2>2, <3>1, Basics, UniqueAwaiter DEF AwaitInv
    <3>4. Owners(c) = {f}
      BY <2>1, <3>1, <3>2, <3>3
    <3> QED BY <2>7, <3>4, FS_Singleton
  <2> QED BY <2>5, <2>6, <2>7
<1> QED BY <1>1, Invariance, PTL

LEMMA DestroyStep ==
    ASSUME IInv, [Next]_vars, NEW f \in Frames, fst'[f] = "destroyed", fst[f] # "destroyed"
    PROVE  fst[f] \in {"created", "final"} /\ \A t \in Threads : cur[t] # f
<1>0. FrameTypes /\ SlotInv
  BY Basics
<1>1. ASSUME NEW m \in Mains, NEW v \in Names, mpc[m] = "free", DestroyOwned(slot[m][v]),
             UNCHANGED <<pos, cont, res, cur, submitted, root, sem, mpc, got, raised>>
      PROVE  fst[f] \in {"created", "final"} /\ ~OnThread(f)
  <2>1. slot[m][v] # None /\ fst' = [fst EXCEPT ![slot[m][v]] = "destroyed"]
    BY <1>1 DEF DestroyOwned
  <2>2. f = slot[m][v]
    BY <1>0, <2>1 DEF FrameTypes
  <2>3. f \in Roots[m] /\ fst[f] \in Live
    BY <1>0, <2>1, <2>2 DEF SlotInv
  <2>4. ~Busy(f)
    BY <1>1, <2>1, <2>2, <2>3, DestroyInv
  <2> QED BY <2>3, <2>4 DEF Busy, Live, States
<1>2. ASSUME NEW m \in Mains, NEW v \in Names, NEW w \in Names,
             Move(m, v, w) \/ Drop(m, v)
      PROVE  fst[f] \in {"created", "final"} /\ ~OnThread(f)
  BY <1>1, <1>2 DEF Move, Drop
<1>3. ASSUME NEW m \in Mains, Collect(m)
      PROVE  fst[f] \in {"created", "final"} /\ ~OnThread(f)
  <2>1. f = m
    BY <1>0, <1>3 DEF Collect, FrameTypes
  <2> QED BY <1>3, <2>1, CollectInv
<1>4. ASSUME NEW t \in Threads, NEW g \in Frames, AwaitResume(t, g)
      PROVE  fst[f] \in {"created", "final"} /\ ~OnThread(f)
  <2>1. f \in Temporary(g)
    BY <1>4 DEF AwaitResume
  <2> QED BY <1>4, <2>1, AwaitResumeInv
<1>5. ASSUME NEW t \in Threads, NEW g \in Frames,
             \/ AwaitTask(t, g) \/ AwaitPool(t, g)
             \/ Return(t, g) \/ Throw(t, g) \/ FinalSuspend(t, g) \/ Notify(t, g)
      PROVE  FALSE
  BY <1>0, <1>5 DEF FrameTypes, AwaitTask, AwaitPool, Return, Throw, FinalSuspend, Notify
<1>6. ASSUME NEW w \in Workers, NEW g \in Frames, Resume(w, g) PROVE FALSE
  BY <1>0, <1>6 DEF FrameTypes, Resume
<1>7. ASSUME NEW m \in Mains,
             \/ \E v \in Names, c \in Coros : Create(m, v, c)
             \/ \E v \in Names : SyncWait(m, v)
             \/ Started(m) \/ Acquire(m) \/ Exit(m)
      PROVE  FALSE
  <2>1. ASSUME NEW v \in Names, NEW c \in Coros, Create(m, v, c) PROVE FALSE
    BY <1>0, <2>1 DEF FrameTypes, Create
  <2>2. ASSUME NEW v \in Names, SyncWait(m, v) PROVE FALSE
    BY <1>0, <2>2 DEF FrameTypes, SyncWait
  <2> QED BY <1>7, <2>1, <2>2 DEF Started, Acquire, Exit
<1>8. ASSUME (\E t \in Threads : Leave(t)) \/ ClosePool \/ UNCHANGED vars PROVE FALSE
  BY <1>8 DEF Leave, ClosePool, vars
<1>9. fst[f] \in {"created", "final"} /\ ~OnThread(f)
  <2>1. CASE \E t \in Threads : RunFrame(t)
    BY <2>1, <1>4, <1>5 DEF RunFrame
  <2>2. CASE \E m \in Mains : \/ \E v \in Names, c \in Coros : Create(m, v, c)
                              \/ \E v, w \in Names : Move(m, v, w)
                              \/ \E v \in Names : Drop(m, v) \/ SyncWait(m, v)
                              \/ Wait(m) \/ Exit(m)
    BY <2>2, <1>2, <1>3, <1>7 DEF Wait
  <2> QED BY <2>1, <2>2, <1>6, <1>8 DEF Next, Work, Finished
<1> QED BY <1>9 DEF OnThread

(* A frame is destroyed before its first resumption or when its final      *)
(* suspend has let go of it, on whatever thread: never under the feet of a *)
(* thread that is in it.                                                   *)
THEOREM FramesAreDestroyedAtRest == Spec => DestroyedAtRest
<1>1. IInv /\ [Next]_vars =>
        [\A f \in Frames : fst'[f] = "destroyed" /\ fst[f] # "destroyed" =>
            /\ fst[f] \in {"created", "final"}
            /\ \A t \in Threads : cur[t] # f]_vars
  BY DestroyStep
<1> QED BY <1>1, Invariance, PTL DEF Spec, DestroyedAtRest

================================================================================
