------------------------ MODULE ConcurrentQueueProofs ------------------------
(***************************************************************************)
(* Theorems about ConcurrentQueue for any number of threads, any values,   *)
(* both variants of the notification and any bounds.                       *)
(*                                                                         *)
(* The inductive invariant is IInv: types, who is inside the mutex, and    *)
(* the safety properties.  The mutex is what keeps the answer of     *)
(* pop's test valid until pop acts on it; that in turn is why a consumer   *)
(* only falls asleep on an empty open queue, which is what the count of    *)
(* NoLostWakeup and CloseWakesSleepers start from.                         *)
(***************************************************************************)
EXTENDS ConcurrentQueue, FiniteSetTheorems, TLAPS

(* A thread is in a critical section exactly when it owns the mutex. *)
LockInv == \A t \in Threads : pc[t] \in Critical <=> owner = t

(* push keeps its argument until it inserts it. *)
Pushing == {"push_check", "push_lock", "push_insert"}
ArgInv == \A t \in Threads : pc[t] \in Pushing => arg[t] \in Values

(* Between the test of the predicate and what pop does about it the mutex  *)
(* keeps the answer valid: pop neither falls asleep on an item or on a     *)
(* closed queue, nor takes the front of an empty one.                      *)
AnswerStillValid ==
    \A t \in Threads :
        /\ At(t, "pop_sleep") => q = <<>> /\ ~closed
        /\ At(t, "pop_take") => q # <<>> \/ closed

IInv == /\ TypeOK /\ ArgInv /\ LockInv /\ AnswerStillValid
        /\ NoLostWakeup /\ CloseWakesSleepers

Places == Critical \cup Outside

-----------------------------------------------------------------------------
(* Deciding a call is well typed for every result the code returns. *)
LEMMA DecideType ==
    ASSUME TypeOK, NEW t \in Threads, NEW tag \in Tags,
           NEW v \in Values \cup {NoValue}, NEW place \in Places,
           Decide(t, tag, v, place)
    PROVE  /\ pc' \in [Threads -> Places]
           /\ arg' \in [Threads -> Values \cup {NoValue}]
           /\ ret' \in [Threads -> Results]
  BY DEF TypeOK, Decide, Goto, Result, Results, Places

(* notify_one moves at most one sleeper, besides the notifier. *)
LEMMA NotifyOneType ==
    ASSUME TypeOK, NEW t \in Threads, NotifyOne(t)
    PROVE  pc' \in [Threads -> Places]
  BY DEF TypeOK, NotifyOne, Goto, Waiting, Places, Critical, Outside

(* The result a call starts with. *)
LEMMA NoResultType == Result("none", NoValue) \in Results
  BY DEF Result, Results, Tags

(* Every initial state has the types, and nobody is pushing. *)
LEMMA InitType == Init => TypeOK /\ ArgInv
<1> SUFFICES ASSUME Init PROVE TypeOK /\ ArgInv
  OBVIOUS
<1>1. Result("none", NoValue) \in Results
  BY NoResultType
<1>2. 0 \in 0 .. MaxCalls /\ 0 \in 0 .. MaxSpurious
  BY BoundsAssumption
<1>3. q \in Seq(Values)
  BY DEF Init
<1>4. pc \in [Threads -> Critical \cup Outside]
  BY DEF Init, Outside
<1>5. TypeOK
  BY <1>1, <1>2, <1>3, <1>4 DEF Init, TypeOK
<1>6. ArgInv
  BY DEF Init, ArgInv, Pushing
<1> QED BY <1>5, <1>6

(* Every step of the code keeps the types: push_insert because its argument *)
(* is still there, pop_take because it has something to take.               *)
LEMMA NextType ==
    TypeOK /\ ArgInv /\ AnswerStillValid /\ [Next]_vars => TypeOK' /\ ArgInv'
<1> SUFFICES ASSUME TypeOK, ArgInv, AnswerStillValid, [Next]_vars
             PROVE  TypeOK' /\ ArgInv'
  OBVIOUS
<1> USE DEF Places
<1>1. CASE UNCHANGED vars
  BY <1>1 DEF TypeOK, ArgInv, vars
<1>2. ASSUME NEW t \in Threads, CallAny(t) PROVE TypeOK' /\ ArgInv'
  <2>1. PICK o \in Operations, v \in Values \cup {NoValue} :
               Call(t, o, v) /\ (o = "push" => v \in Values)
    BY <1>2 DEF CallAny, Operations, Entry
  <2>2. Entry[o] \in Outside /\ (Entry[o] \in Pushing => o = "push")
    BY DEF Operations, Entry, Outside, Pushing
  <2>3. pc' \in [Threads -> Places]
    BY <2>1, <2>2 DEF Call, Goto, TypeOK
  <2>4. calls' \in [Threads -> 0 .. MaxCalls]
    BY <2>1, BoundsAssumption DEF Call, TypeOK
  <2>5. TypeOK'
    <3>1. arg' \in [Threads -> Values \cup {NoValue}]
      BY <2>1 DEF Call, TypeOK
    <3>2. ret' \in [Threads -> Results]
      BY <2>1, NoResultType DEF Call, TypeOK
    <3>3. UNCHANGED <<q, closed, owner, spurious>>
      BY <2>1 DEF Call
    <3> QED BY <2>3, <2>4, <3>1, <3>2, <3>3 DEF TypeOK
  <2>6. ArgInv'
    BY <2>1, <2>2 DEF Call, Goto, TypeOK, ArgInv
  <2> QED BY <2>5, <2>6
<1>3. ASSUME NEW t \in Threads, Acquire(t) PROVE TypeOK' /\ ArgInv'
  <2>1. /\ Section[pc[t]] \in Critical
        /\ Section[pc[t]] \in Pushing => pc[t] \in Pushing
    BY <1>3 DEF Acquire, Section, Critical, Pushing
  <2> QED BY <1>3, <2>1 DEF Acquire, Goto, TypeOK, ArgInv
<1>4. ASSUME NEW t \in Threads, PushCheck(t) PROVE TypeOK' /\ ArgInv'
  <2>1. CASE closed
    <3>1. TypeOK'
      BY <1>4, <2>1, DecideType DEF PushCheck, TypeOK, Tags, Outside
    <3> QED BY <1>4, <2>1, <3>1 DEF PushCheck, Decide, Goto, TypeOK, ArgInv, Pushing
  <2>2. CASE ~closed
    BY <1>4, <2>2 DEF PushCheck, TypeOK, Goto, Outside, ArgInv, At, Pushing
  <2> QED BY <2>1, <2>2
<1>5. ASSUME NEW t \in Threads, PushInsert(t) PROVE TypeOK' /\ ArgInv'
  <2>1. pc' \in [Threads -> Places]
    BY <1>5, NotifyOneType DEF PushInsert, TypeOK, Goto, Outside
  <2>2. arg[t] \in Values
    BY <1>5 DEF PushInsert, At, ArgInv, Pushing
  <2>3. TypeOK'
    <3>1. q' \in Seq(Values) /\ owner' \in Threads \cup {NoThread}
      BY <1>5, <2>2 DEF PushInsert, TypeOK
    <3>2. arg' \in [Threads -> Values \cup {NoValue}]
      BY <1>5 DEF PushInsert, TypeOK
    <3>3. ret' \in [Threads -> Results]
      BY <1>5 DEF PushInsert, TypeOK, Result, Results, Tags
    <3>4. UNCHANGED <<closed, calls, spurious>>
      BY <1>5 DEF PushInsert
    <3> QED BY <2>1, <3>1, <3>2, <3>3, <3>4 DEF TypeOK
  <2>4. \A u \in Threads : pc'[u] \in Pushing => pc[u] \in Pushing /\ u # t
    BY <1>5 DEF PushInsert, NotifyOne, Waiting, Goto, TypeOK, Pushing
  <2> QED BY <1>5, <2>3, <2>4 DEF PushInsert, TypeOK, ArgInv
<1>6. ASSUME NEW t \in Threads, PushNotify(t) PROVE TypeOK' /\ ArgInv'
  <2>1. TypeOK'
    BY <1>6, NotifyOneType DEF PushNotify, TypeOK
  <2>2. \A u \in Threads : pc'[u] \in Pushing => pc[u] \in Pushing
    BY <1>6 DEF PushNotify, NotifyOne, Waiting, Goto, TypeOK, Pushing
  <2> QED BY <1>6, <2>1, <2>2 DEF PushNotify, ArgInv
<1>7. ASSUME NEW t \in Threads, PopTest(t) \/ PopSleep(t) \/ SpuriousWake(t)
      PROVE  TypeOK' /\ ArgInv'
  <2>1. TypeOK'
    BY <1>7, BoundsAssumption, SMTT(30)
    DEF PopTest, PopSleep, SpuriousWake, Goto, TypeOK, Critical, Outside
  <2> QED BY <1>7, <2>1
          DEF PopTest, PopSleep, SpuriousWake, Goto, TypeOK, ArgInv, Pushing
<1>8. ASSUME NEW t \in Threads, CloseNotify(t) PROVE TypeOK' /\ ArgInv'
  BY <1>8 DEF CloseNotify, TypeOK, ArgInv, Waiting, Outside, Pushing
<1>9. ASSUME NEW t \in Threads, NEW tag \in Tags, NEW v \in Values \cup {NoValue},
             NEW place \in Places \ Pushing, Decide(t, tag, v, place),
             q' \in Seq(Values), closed' \in BOOLEAN, owner' \in {owner, NoThread},
             UNCHANGED <<calls, spurious>>
      PROVE  TypeOK' /\ ArgInv'
  <2>1. TypeOK'
    BY <1>9, DecideType DEF TypeOK
  <2> QED BY <1>9, <2>1 DEF Decide, Goto, TypeOK, ArgInv
<1>10. ASSUME NEW t \in Threads, PopTake(t) PROVE TypeOK' /\ ArgInv'
  <2>1. CASE q = <<>> /\ closed
    BY <1>9, <1>10, <2>1 DEF PopTake, TypeOK, Tags, Outside, Pushing
  <2>2. CASE q # <<>>
    <3>1. Head(q) \in Values /\ Tail(q) \in Seq(Values)
      BY <2>2 DEF TypeOK
    <3> QED BY <1>9, <1>10, <2>2, <3>1 DEF PopTake, TypeOK, Tags, Outside, Pushing
  <2> QED BY <1>10, <2>1, <2>2 DEF PopTake, AnswerStillValid
<1>11. ASSUME NEW t \in Threads, TryTest(t) PROVE TypeOK' /\ ArgInv'
  <2>1. CASE q # <<>> /\ ~closed
    <3>1. Head(q) \in Values /\ Tail(q) \in Seq(Values)
      BY <2>1 DEF TypeOK
    <3> QED BY <1>9, <1>11, <2>1, <3>1 DEF TryTest, TypeOK, Tags, Outside, Pushing
  <2>2. CASE ~(q # <<>> /\ ~closed)
    BY <1>9, <1>11, <2>2 DEF TryTest, TypeOK, Tags, Outside, Pushing
  <2> QED BY <2>1, <2>2
<1>12. ASSUME NEW t \in Threads, TryBusy(t) PROVE TypeOK' /\ ArgInv'
  BY <1>9, <1>12 DEF TryBusy, TypeOK, Tags, Outside, Pushing
<1>13. ASSUME NEW t \in Threads, CloseStore(t) PROVE TypeOK' /\ ArgInv'
  BY <1>9, <1>13 DEF CloseStore, TypeOK, Tags, Outside, Pushing
<1>14. ASSUME NEW t \in Threads, EmptyRead(t) PROVE TypeOK' /\ ArgInv'
  BY <1>9, <1>14 DEF EmptyRead, Truth, TypeOK, Tags, Outside, Pushing
<1>15. ASSUME NEW t \in Threads, IsClosed(t) PROVE TypeOK' /\ ArgInv'
  BY <1>9, <1>15 DEF IsClosed, Truth, TypeOK, Tags, Outside, Pushing
<1> QED
  BY <1>1, <1>2, <1>3, <1>4, <1>5, <1>6, <1>7, <1>8, <1>10, <1>11, <1>12,
     <1>13, <1>14, <1>15 DEF Next, Step

-----------------------------------------------------------------------------
(* The mutex: acquired only when free, released only by its owner. *)
LEMMA NextLock == TypeOK /\ LockInv /\ [Next]_vars => LockInv'
<1> SUFFICES ASSUME TypeOK, LockInv, [Next]_vars PROVE LockInv'
  OBVIOUS
<1> USE DEF LockInv, TypeOK, At, Goto
<1>1. CASE UNCHANGED vars
  BY <1>1 DEF vars
<1>2. ASSUME NEW t \in Threads, CallAny(t) PROVE LockInv'
  BY <1>2 DEF CallAny, Call, Entry, Operations, Critical
<1>3. ASSUME NEW t \in Threads, Acquire(t) PROVE LockInv'
  <2>1. Section[pc[t]] \in Critical
    BY <1>3 DEF Acquire, Section, Critical
  <2> QED BY <1>3, <2>1, ThreadsAssumption DEF Acquire
<1>4. ASSUME NEW t \in Threads,
             PushCheck(t) \/ TryBusy(t) \/ IsClosed(t) \/ SpuriousWake(t)
      PROVE  LockInv'
  BY <1>4 DEF PushCheck, TryBusy, IsClosed, SpuriousWake, Decide, Critical
<1>5. ASSUME NEW t \in Threads, PushNotify(t) \/ CloseNotify(t) PROVE LockInv'
  BY <1>5 DEF PushNotify, CloseNotify, NotifyOne, Waiting, Critical
<1>6. ASSUME NEW t \in Threads, PushInsert(t) PROVE LockInv'
  BY <1>6, ThreadsAssumption DEF PushInsert, NotifyOne, Waiting, Critical
<1>7. ASSUME NEW t \in Threads, PopTest(t) PROVE LockInv'
  BY <1>7 DEF PopTest, Critical
<1>8. ASSUME NEW t \in Threads, PopSleep(t) \/ PopTake(t) \/ TryTest(t)
                 \/ CloseStore(t) \/ EmptyRead(t)
      PROVE  LockInv'
  BY <1>8, ThreadsAssumption, ZenonT(60)
  DEF PopSleep, PopTake, TryTest, CloseStore, EmptyRead, Decide, Critical
<1> QED
  BY <1>1, <1>2, <1>3, <1>4, <1>5, <1>6, <1>7, <1>8 DEF Next, Step

(* Between the test and the sleep or the removal only the thread itself    *)
(* touches the queue and the flag.                                         *)
LEMMA NextAnswer ==
    TypeOK /\ LockInv /\ AnswerStillValid /\ [Next]_vars => AnswerStillValid'
<1> SUFFICES ASSUME TypeOK, LockInv, AnswerStillValid, [Next]_vars,
                    NEW u \in Threads
             PROVE  /\ (pc[u] = "pop_sleep")' => (q = <<>> /\ ~closed)'
                    /\ (pc[u] = "pop_take")' => (q # <<>> \/ closed)'
  BY DEF AnswerStillValid, At
<1> USE DEF AnswerStillValid, TypeOK, At, Goto
<1>1. CASE UNCHANGED vars
  BY <1>1 DEF vars
<1>2. ASSUME NEW t \in Threads, CallAny(t)
      PROVE  UNCHANGED <<q, closed>> /\ (pc'[u] = pc[u] \/ pc'[u] \in Outside)
  BY <1>2 DEF CallAny, Call, Entry, Operations, Outside
<1>3. ASSUME NEW t \in Threads, Acquire(t)
      PROVE  /\ UNCHANGED <<q, closed>>
             /\ pc'[u] = pc[u] \/ pc'[u] \notin {"pop_sleep", "pop_take"}
  BY <1>3 DEF Acquire, Section
<1>4. ASSUME NEW t \in Threads,
             PushCheck(t) \/ TryBusy(t) \/ IsClosed(t) \/ SpuriousWake(t)
                 \/ EmptyRead(t) \/ PopSleep(t) \/ PushNotify(t) \/ CloseNotify(t)
      PROVE  UNCHANGED <<q, closed>> /\ (pc'[u] = pc[u] \/ pc'[u] \in Outside)
  BY <1>4 DEF PushCheck, TryBusy, IsClosed, SpuriousWake, EmptyRead, PopSleep,
              PushNotify, CloseNotify, NotifyOne, Waiting, Decide, Outside
<1>5. ASSUME NEW t \in Threads,
             PushInsert(t) \/ PopTake(t) \/ TryTest(t) \/ CloseStore(t)
      PROVE  pc'[u] \notin {"pop_sleep", "pop_take"}
  <2>1. \A w \in Threads \ {t} : pc[w] \notin Critical
    BY <1>5 DEF PushInsert, PopTake, TryTest, CloseStore, LockInv, Critical
  <2> QED BY <1>5, <2>1 DEF PushInsert, PopTake, TryTest, CloseStore, NotifyOne,
                            Waiting, Decide, Critical
<1>6. ASSUME NEW t \in Threads, PopTest(t)
      PROVE  /\ (pc[u] = "pop_sleep")' => (q = <<>> /\ ~closed)'
             /\ (pc[u] = "pop_take")' => (q # <<>> \/ closed)'
  BY <1>6 DEF PopTest
<1> QED
  BY <1>1, <1>2, <1>3, <1>4, <1>5, <1>6 DEF Next, Step, Outside

-----------------------------------------------------------------------------
(* Helpers is a finite set: its cardinality is a number. *)
LEMMA HelpersFinite == IsFiniteSet(Helpers) /\ Cardinality(Helpers) \in Nat
  BY ThreadsAssumption, FS_Subset, FS_CardinalityType DEF Helpers

(* A step that takes no helper away, puts nobody to sleep and inserts      *)
(* nothing keeps NoLostWakeup.                                             *)
LEMMA QuietStep ==
    ASSUME TypeOK, TypeOK', NoLostWakeup,
           Helpers \subseteq Helpers', Waiting' \subseteq Waiting, Len(q') =< Len(q)
    PROVE  NoLostWakeup'
<1>1. IsFiniteSet(Helpers) /\ Cardinality(Helpers) \in Nat
  BY HelpersFinite
<1>2. IsFiniteSet(Helpers') /\ Cardinality(Helpers') \in Nat
  BY ThreadsAssumption, FS_Subset, FS_CardinalityType DEF Helpers
<1>3. Cardinality(Helpers) =< Cardinality(Helpers')
  BY <1>2, FS_Subset
<1>4. Len(q) \in Nat /\ Len(q') \in Nat
  BY DEF TypeOK
<1> QED BY <1>1, <1>2, <1>3, <1>4 DEF NoLostWakeup

(* One more helper for one more item, or one fewer for one fewer. *)
LEMMA NextWakeup ==
    TypeOK /\ TypeOK' /\ AnswerStillValid /\ NoLostWakeup /\ [Next]_vars
        => NoLostWakeup'
<1> SUFFICES ASSUME TypeOK, TypeOK', AnswerStillValid, NoLostWakeup, [Next]_vars
             PROVE  NoLostWakeup'
  OBVIOUS
<1>0. /\ IsFiniteSet(Helpers) /\ Cardinality(Helpers) \in Nat
      /\ Len(q) \in Nat /\ Len(q') \in Nat
  BY HelpersFinite DEF TypeOK
<1>1. CASE UNCHANGED vars
  BY <1>1, QuietStep DEF vars, Helpers, Waiting, TypeOK
<1>2. ASSUME NEW t \in Threads, CallAny(t) PROVE NoLostWakeup'
  <2>1. Helpers \subseteq Helpers' /\ Waiting' \subseteq Waiting /\ q' = q
    BY <1>2 DEF CallAny, Call, Entry, Operations, Helpers, Waiting, At, Goto, TypeOK
  <2> QED BY <2>1, <1>0, QuietStep
<1>3. ASSUME NEW t \in Threads, Acquire(t) PROVE NoLostWakeup'
  <2>1. Helpers \subseteq Helpers' /\ Waiting' \subseteq Waiting /\ q' = q
    BY <1>3 DEF Acquire, Section, Helpers, Waiting, Goto, TypeOK
  <2> QED BY <2>1, <1>0, QuietStep
<1>4. ASSUME NEW t \in Threads,
             PushCheck(t) \/ TryBusy(t) \/ IsClosed(t) \/ SpuriousWake(t)
                 \/ EmptyRead(t) \/ TryTest(t) \/ CloseStore(t)
      PROVE  NoLostWakeup'
  <2>1. Helpers \subseteq Helpers' /\ Waiting' \subseteq Waiting
    BY <1>4 DEF PushCheck, TryBusy, IsClosed, SpuriousWake, EmptyRead, TryTest,
                CloseStore, Decide, Helpers, Waiting, At, Goto, TypeOK
  <2>2. Len(q') =< Len(q)
    BY <1>0, <1>4 DEF PushCheck, TryBusy, IsClosed, SpuriousWake, EmptyRead,
                      TryTest, CloseStore, TypeOK
  <2> QED BY <2>1, <2>2, QuietStep
<1>5. ASSUME NEW t \in Threads, PopTest(t) PROVE NoLostWakeup'
  <2>1. Waiting' = Waiting /\ q' = q
    BY <1>5 DEF PopTest, Waiting, At, Goto, TypeOK
  <2>2. CASE q = <<>>
    <3>1. Cardinality(Helpers') \in Nat
      BY ThreadsAssumption, FS_Subset, FS_CardinalityType DEF Helpers
    <3> QED BY <2>1, <2>2, <3>1 DEF NoLostWakeup
  <2>3. CASE q # <<>>
    <3>1. Helpers \subseteq Helpers'
      BY <1>5, <2>3 DEF PopTest, Helpers, At, Goto, TypeOK
    <3> QED BY <2>1, <3>1, <1>0, QuietStep
  <2> QED BY <2>2, <2>3
<1>6. ASSUME NEW t \in Threads, PopSleep(t) PROVE NoLostWakeup'
  <2>1. q' = <<>>
    BY <1>6 DEF PopSleep, AnswerStillValid, At
  <2>2. Cardinality(Helpers') \in Nat
    BY ThreadsAssumption, FS_Subset, FS_CardinalityType DEF Helpers
  <2> QED BY <2>1, <2>2 DEF NoLostWakeup
<1>7. ASSUME NEW t \in Threads, PopTake(t) PROVE NoLostWakeup'
  <2>1. Waiting' = Waiting /\ t \in Helpers /\ Helpers' = Helpers \ {t}
    BY <1>7 DEF PopTake, Decide, Helpers, Waiting, At, Goto, TypeOK
  <2>2. Cardinality(Helpers') = Cardinality(Helpers) - 1
    BY <1>0, <2>1, FS_RemoveElement
  <2>3. CASE q = <<>>
    <3>1. q' = <<>> /\ Cardinality(Helpers') \in Nat
      BY <1>7, <2>3, ThreadsAssumption, FS_Subset, FS_CardinalityType
      DEF PopTake, AnswerStillValid, At, Helpers
    <3> QED BY <3>1 DEF NoLostWakeup
  <2>4. CASE q # <<>>
    <3>1. Len(q') = Len(q) - 1
      BY <1>7, <2>4 DEF PopTake, TypeOK
    <3> QED BY <1>0, <2>1, <2>2, <3>1 DEF NoLostWakeup
  <2> QED BY <2>3, <2>4
<1>8. ASSUME NEW t \in Threads, PushInsert(t) PROVE NoLostWakeup'
  <2>1. Len(q') = Len(q) + 1
    BY <1>8, <1>0 DEF PushInsert, TypeOK
  <2>2. CASE NotifyUnderLock /\ Waiting = {}
    BY <1>8, <2>2 DEF PushInsert, NotifyOne, Waiting, Goto, TypeOK, NoLostWakeup
  <2>3. CASE NotifyUnderLock /\ Waiting # {}
    <3>1. PICK w \in Waiting : pc' = [pc EXCEPT ![w] = "pop_wake", ![t] = "idle"]
      BY <1>8, <2>3 DEF PushInsert, NotifyOne
    <3>2. w \notin Helpers /\ Helpers' = Helpers \cup {w}
      BY <1>8, <3>1 DEF PushInsert, Helpers, Waiting, At, TypeOK
    <3>3. Cardinality(Helpers') = Cardinality(Helpers) + 1
      BY <1>0, <3>2, FS_AddElement
    <3> QED BY <1>0, <2>1, <2>3, <3>3 DEF NoLostWakeup
  <2>4. CASE ~NotifyUnderLock
    <3>1. t \notin Helpers /\ Helpers' = Helpers \cup {t} /\ Waiting' = Waiting
      BY <1>8, <2>4 DEF PushInsert, Helpers, Waiting, At, Goto, TypeOK
    <3>2. Cardinality(Helpers') = Cardinality(Helpers) + 1
      BY <1>0, <3>1, FS_AddElement
    <3> QED BY <1>0, <2>1, <3>1, <3>2 DEF NoLostWakeup
  <2> QED BY <2>2, <2>3, <2>4, VariantAssumption
<1>9. ASSUME NEW t \in Threads, PushNotify(t) PROVE NoLostWakeup'
  <2>1. CASE Waiting = {}
    BY <1>9, <2>1 DEF PushNotify, NotifyOne, Waiting, Goto, TypeOK, NoLostWakeup
  <2>2. CASE Waiting # {}
    <3>1. PICK w \in Waiting : pc' = [pc EXCEPT ![w] = "pop_wake", ![t] = "idle"]
      BY <1>9, <2>2 DEF PushNotify, NotifyOne
    <3>2. /\ w \notin Helpers /\ t \in Helpers
          /\ Helpers' = (Helpers \ {t}) \cup {w}
      BY <1>9, <3>1 DEF PushNotify, Helpers, Waiting, At, TypeOK
    <3>3. /\ IsFiniteSet(Helpers \ {t})
          /\ Cardinality(Helpers \ {t}) = Cardinality(Helpers) - 1
      BY <1>0, <3>2, FS_RemoveElement
    <3>4. Cardinality(Helpers') = Cardinality(Helpers)
      <4>1. w \notin Helpers \ {t}
        BY <3>2
      <4>2. Cardinality(Helpers') = Cardinality(Helpers \ {t}) + 1
        BY <3>2, <3>3, <4>1, FS_AddElement
      <4> QED BY <1>0, <3>3, <4>2
    <3> QED BY <1>0, <1>9, <2>2, <3>4 DEF NoLostWakeup, PushNotify
  <2> QED BY <2>1, <2>2
<1>10. ASSUME NEW t \in Threads, CloseNotify(t) PROVE NoLostWakeup'
  BY <1>10 DEF CloseNotify, Waiting, TypeOK, NoLostWakeup
<1> QED
  BY <1>1, <1>2, <1>3, <1>4, <1>5, <1>6, <1>7, <1>8, <1>9, <1>10 DEF Next, Step

(* Nobody falls asleep on a closed queue, and the thread that closed it    *)
(* stays at its notify_all until everybody is awake.                       *)
LEMMA NextClose ==
    TypeOK /\ AnswerStillValid /\ CloseWakesSleepers /\ [Next]_vars
        => CloseWakesSleepers'
<1> SUFFICES ASSUME TypeOK, AnswerStillValid, CloseWakesSleepers, [Next]_vars,
                    closed', NEW s \in Threads, pc'[s] = "pop_wait"
             PROVE  \E t \in Threads : pc'[t] = "close_notify"
  BY DEF CloseWakesSleepers, Waiting
<1> USE DEF CloseWakesSleepers, Waiting, TypeOK, At, Goto
<1>1. CASE UNCHANGED vars
  BY <1>1 DEF vars
<1>2. ASSUME NEW t \in Threads, CallAny(t) \/ Acquire(t)
      PROVE  closed /\ pc[s] = "pop_wait" /\ \A u \in Threads :
                 pc[u] = "close_notify" => pc'[u] = "close_notify"
  <2>1. CASE CallAny(t)
    <3>1. PICK o \in Operations, v \in Values \cup {NoValue} : Call(t, o, v)
      BY <2>1 DEF CallAny, Operations, Entry
    <3>2. Entry[o] # "pop_wait"
      BY DEF Operations, Entry
    <3> QED BY <3>1, <3>2 DEF Call
  <2>2. CASE Acquire(t)
    <3>1. pc[t] # "close_notify" /\ Section[pc[t]] # "pop_wait"
      BY <2>2 DEF Acquire, Section
    <3> QED BY <2>2, <3>1 DEF Acquire
  <2> QED BY <1>2, <2>1, <2>2
<1>3. ASSUME NEW t \in Threads,
             PushCheck(t) \/ TryBusy(t) \/ IsClosed(t) \/ SpuriousWake(t)
                 \/ EmptyRead(t) \/ TryTest(t) \/ PopTest(t) \/ PopTake(t)
                 \/ PushInsert(t) \/ PushNotify(t)
      PROVE  closed /\ pc[s] = "pop_wait" /\ \A u \in Threads :
                 pc[u] = "close_notify" => pc'[u] = "close_notify"
  BY <1>3 DEF PushCheck, TryBusy, IsClosed, SpuriousWake, EmptyRead, TryTest,
              PopTest, PopTake, PushInsert, PushNotify, NotifyOne, Decide
<1>4. ASSUME NEW t \in Threads, PopSleep(t) PROVE FALSE
  BY <1>4 DEF PopSleep, AnswerStillValid
<1>5. ASSUME NEW t \in Threads, CloseStore(t) PROVE pc'[t] = "close_notify"
  BY <1>5 DEF CloseStore, Decide
<1>6. ASSUME NEW t \in Threads, CloseNotify(t) PROVE FALSE
  BY <1>6 DEF CloseNotify
<1> QED
  BY <1>1, <1>2, <1>3, <1>4, <1>5, <1>6 DEF Next, Step

-----------------------------------------------------------------------------
(* IInv holds initially and every step keeps it. *)
LEMMA InitInv == Init => IInv
<1> SUFFICES ASSUME Init PROVE IInv
  OBVIOUS
<1>1. TypeOK /\ ArgInv
  BY InitType
<1>2. LockInv
  BY ThreadsAssumption DEF Init, LockInv, Critical
<1>3. AnswerStillValid /\ Waiting = {}
  BY DEF Init, AnswerStillValid, At, Waiting
<1> QED BY <1>1, <1>2, <1>3 DEF IInv, NoLostWakeup, CloseWakesSleepers

LEMMA NextInv == IInv /\ [Next]_vars => IInv'
  BY NextType, NextLock, NextAnswer, NextWakeup, NextClose DEF IInv

LEMMA Invariance == Spec => []IInv
  BY InitInv, NextInv, PTL DEF Spec

(* Type correctness, which is more than types here: pop never takes the    *)
(* front of an empty queue and push never inserts a moved-from value.      *)
THEOREM TypeCorrect == Spec => []TypeOK
  BY Invariance, PTL DEF IInv

(* pop acts on an answer that still holds (wait, then lines 92-97). *)
THEOREM AnswersStayValid == Spec => []AnswerStillValid
  BY Invariance, PTL DEF IInv

(* No item waits in the queue for a sleeper that nobody will wake. *)
THEOREM NoWakeupIsLost == Spec => []NoLostWakeup
  BY Invariance, PTL DEF IInv

(* Nobody sleeps in pop on a closed queue once close has returned. *)
THEOREM CloseWakes == Spec => []CloseWakesSleepers
  BY Invariance, PTL DEF IInv

-----------------------------------------------------------------------------
(* The calls as the abstract channel sees them. *)
opBar == [t \in Threads |-> Phase(pc[t])]

(* Deciding a call is the channel's return, wherever the code goes on. *)
LEMMA DecideReturns ==
    ASSUME TypeOK, NEW t \in Threads, NEW tag, NEW v, NEW place,
           Phase(place) = "idle", Decide(t, tag, v, place)
    PROVE  Channel!Return(t, tag, v)
  BY DEF TypeOK, Decide, Goto, Channel!Return, Channel!Result, Result

(* Every step of the queue is a step of the channel or changes nothing it sees. *)
LEMMA StepSimulation == IInv /\ [Next]_vars => [Channel!Next]_(Channel!vars)
<1> SUFFICES ASSUME TypeOK, AnswerStillValid, [Next]_vars
             PROVE  Channel!Next \/ UNCHANGED Channel!vars
  BY DEF IInv
<1> USE DEF At
<1>1. CASE UNCHANGED vars
  BY <1>1 DEF vars, Channel!vars
<1>2. ASSUME NEW t \in Threads, CallAny(t) PROVE Channel!CallAny(t)
  <2>1. \A o \in Operations : Phase(Entry[o]) = o /\ o \in Channel!Operations
    BY DEF Operations, Entry, Phase, Channel!Operations
  <2>2. ASSUME NEW o \in Operations, NEW v, Call(t, o, v)
        PROVE  Channel!Call(t, o, v)
    <3>1. Phase(pc[t]) = "idle"
      BY <2>2 DEF Call, Phase
    <3>2. opBar' = [opBar EXCEPT ![t] = o]
      BY <2>1, <2>2 DEF Call, Goto, TypeOK, opBar
    <3> QED BY <2>2, <3>1, <3>2 DEF Call, Channel!Call, Channel!NoResult,
                                    Channel!Result, Result, opBar
  <2> QED BY <1>2, <2>2 DEF CallAny, Channel!CallAny, Channel!Operations,
                              Operations, Entry
<1>3. ASSUME NEW t \in Threads, Acquire(t) PROVE UNCHANGED Channel!vars
  <2>1. Phase(Section[pc[t]]) = Phase(pc[t])
    BY <1>3 DEF Acquire, Section, Phase
  <2> QED BY <1>3, <2>1 DEF Acquire, Goto, TypeOK, Channel!vars
<1>4. ASSUME NEW t \in Threads, PushCheck(t)
      PROVE  Channel!Refuse(t) \/ Channel!Admit(t)
  <2>1. CASE closed
    BY <1>4, <2>1, DecideReturns DEF PushCheck, Channel!Refuse, Phase
  <2>2. CASE ~closed
    BY <1>4, <2>2, ZenonT(60) DEF PushCheck, Channel!Admit, Phase, Goto, TypeOK
  <2> QED BY <2>1, <2>2
<1>5. ASSUME NEW t \in Threads, PushInsert(t) PROVE Channel!Insert(t)
  <2>1. opBar' = [opBar EXCEPT ![t] = "idle"]
    <3>1. /\ Phase("pop_wake") = Phase("pop_wait")
          /\ Phase("idle") = "idle" /\ Phase("push_notify") = "idle"
      BY DEF Phase
    <3>2. ASSUME NotifyOne(t) PROVE opBar' = [opBar EXCEPT ![t] = "idle"]
      BY <3>1, <3>2 DEF NotifyOne, Waiting, Goto, TypeOK, opBar
    <3>3. ASSUME Goto(t, "push_notify") PROVE opBar' = [opBar EXCEPT ![t] = "idle"]
      BY <3>1, <3>3 DEF Goto, TypeOK, opBar
    <3> QED BY <1>5, <3>2, <3>3 DEF PushInsert
  <2> QED BY <1>5, <2>1 DEF PushInsert, Channel!Insert, Channel!Return,
                            Channel!Result, Result, Phase, opBar
<1>6. ASSUME NEW t \in Threads, PushNotify(t) \/ CloseNotify(t)
      PROVE  UNCHANGED Channel!vars
  BY <1>6 DEF PushNotify, CloseNotify, NotifyOne, Waiting, Goto, TypeOK, Phase,
              Channel!vars
<1>7. ASSUME NEW t \in Threads, PopTest(t) \/ PopSleep(t) \/ SpuriousWake(t)
      PROVE  UNCHANGED Channel!vars
  BY <1>7 DEF PopTest, PopSleep, SpuriousWake, Goto, TypeOK, Phase, Channel!vars
<1>8. ASSUME NEW t \in Threads, PopTake(t)
      PROVE  Channel!Take(t) \/ Channel!Drained(t)
  <2>1. opBar[t] = "pop" /\ Phase("idle") = "idle"
    BY <1>8 DEF PopTake, opBar, Phase
  <2>2. CASE q = <<>>
    <3>1. closed /\ Channel!Return(t, "nullopt", NoValue)
      BY <1>8, <2>1, <2>2, DecideReturns DEF PopTake, AnswerStillValid
    <3> QED BY <1>8, <2>1, <2>2, <3>1 DEF PopTake, Channel!Drained, opBar
  <2>3. CASE q # <<>>
    <3>1. Channel!Return(t, "popped", Head(q))
      BY <1>8, <2>1, <2>3, DecideReturns DEF PopTake
    <3> QED BY <1>8, <2>1, <2>3, <3>1 DEF PopTake, Channel!Take, opBar
  <2> QED BY <2>2, <2>3
<1>9. ASSUME NEW t \in Threads, TryBusy(t) \/ TryTest(t)
      PROVE  Channel!TryTake(t) \/ Channel!TryFail(t)
  <2>1. opBar[t] = "try_pop" /\ Phase("idle") = "idle"
    BY <1>9 DEF TryBusy, TryTest, opBar, Phase
  <2>2. CASE TryBusy(t)
    <3>1. Channel!Return(t, "Busy", NoValue)
      BY <2>1, <2>2, DecideReturns DEF TryBusy
    <3> QED BY <2>1, <2>2, <3>1 DEF TryBusy, Channel!TryFail, opBar
  <2>3. CASE TryTest(t) /\ closed
    <3>1. Channel!Return(t, "Closed", NoValue)
      BY <2>1, <2>3, DecideReturns DEF TryTest
    <3> QED BY <2>1, <2>3, <3>1 DEF TryTest, Channel!TryFail, opBar
  <2>4. CASE TryTest(t) /\ ~closed /\ q = <<>>
    <3>1. Channel!Return(t, "Empty", NoValue)
      BY <2>1, <2>4, DecideReturns DEF TryTest
    <3> QED BY <2>1, <2>4, <3>1 DEF TryTest, Channel!TryFail, opBar
  <2>5. CASE TryTest(t) /\ ~closed /\ q # <<>>
    <3>1. Channel!Return(t, "Success", Head(q))
      BY <2>1, <2>5, DecideReturns DEF TryTest
    <3> QED BY <2>1, <2>5, <3>1 DEF TryTest, Channel!TryTake, opBar
  <2> QED BY <1>9, <2>2, <2>3, <2>4, <2>5
<1>10. ASSUME NEW t \in Threads, CloseStore(t) PROVE Channel!Close(t)
  BY <1>10, DecideReturns DEF CloseStore, Channel!Close, Phase
<1>11. ASSUME NEW t \in Threads, EmptyRead(t) \/ IsClosed(t)
       PROVE  Channel!Query(t)
  BY <1>11, DecideReturns
  DEF EmptyRead, IsClosed, Truth, Channel!Query, Channel!Truth, Phase
<1> QED
  BY <1>1, <1>2, <1>3, <1>4, <1>5, <1>6, <1>7, <1>8, <1>9, <1>10, <1>11
  DEF Next, Step, Channel!Next, Channel!Effect

(* The queue implements the channel: it is linearizable and FIFO. *)
THEOREM QueueIsChannel == Spec => IsFifoChannel
<1>1. Init => Channel!Init
  BY DEF Init, Channel!Init, Channel!NoResult, Channel!Result, Result, Phase
<1> QED BY <1>1, StepSimulation, Invariance, PTL DEF Spec, IsFifoChannel, Channel!Spec
=============================================================================
