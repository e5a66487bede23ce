-------------------------- MODULE IoAwaitablesProofs ---------------------------
(***************************************************************************)
(* Theorems about IoAwaitables, for any coroutines, plans and descriptors. *)
(***************************************************************************)
EXTENDS IoAwaitables, SequenceTheorems, TLAPS

Timed(c) == Current(c).kind = "timer"
HasAdd(a) == \E i \in DOMAIN pending : pending[i].type = "Add" /\ pending[i].tag = a
Leaving(f) == \E i \in DOMAIN pending : pending[i] = Unreg(f)
OneUnreg(f) == \A i, j \in DOMAIN pending : pending[i] = Unreg(f) /\ pending[j] = Unreg(f) => i = j

(* Where a coroutine is, and what it is there. *)
PlaceInv ==
    \A c \in Coros :
        /\ at[c] \in {"arming", "suspended", "resumed", "failed"} => op[c] <= Len(Plan[c])
        /\ at[c] = "arming" => Timed(c)
        /\ at[c] = "resumed" /\ Timed(c) => outcome[c] = "ok"
        /\ at[c] = "failed" => ~Timed(c)
        /\ c \in refused => Suspended(c) /\ ~Timed(c)
        /\ outcome[c] = "none" => op[c] = 1

(* A pending add is that of a suspended coroutine's awaiter, which has no  *)
(* other.                                                                  *)
AddInv ==
    /\ \A i \in DOMAIN pending : pending[i].type = "Add" =>
          \E c \in Coros :
             /\ c = pending[i].tag.co /\ Suspended(c) /\ c \notin refused
             /\ pending[i] = Add(Descriptor(c), Awaiter(c), IF Timed(c) THEN "level" ELSE "oneshot")
    /\ \A i, j \in DOMAIN pending :
          pending[i].type = "Add" /\ pending[i] = pending[j] => i = j
    /\ \A i \in DOMAIN pending : pending[i].type = "Unreg" => pending[i].fd \in Sockets
    /\ \A i \in DOMAIN pending : pending[i].type = "Del" => pending[i].fd \in Timers

(* The callback of a socket: its awaiter waits for it, or was resumed by   *)
(* it, or has asked for the removal, or is that of a read that failed.     *)
Waits(a) ==
    Suspended(a.co) /\ a = Awaiter(a.co) /\ ~Queued(a.co) /\ a.co \notin refused
Resumed(a) == at[a.co] = "resumed" /\ a = Awaiter(a.co)
Released(a, f) ==
    \E i \in DOMAIN pending :
        /\ pending[i] = Unreg(f)
        /\ \A j \in DOMAIN pending :
              pending[j].type = "Add" /\ pending[j].tag.co = a.co => i < j
Abandoned(a) ==
    /\ Operation(a).kind = "read" /\ a.op = op[a.co] /\ a.try <= try[a.co]
    /\ a.try = try[a.co] => at[a.co] \in {"failed", "done"}

SocketInv ==
    \A f \in Sockets :
        /\ armed[f] \in {"off", "oneshot", "disabled"}
        /\ f \notin open => armed[f] = "off"
        /\ f \in open => (armed[f] = "off" <=> callbacks[f] = None)
        /\ armed[f] = "oneshot" => f \notin events
        /\ armed[f] = "oneshot" \/ f \in events =>
              callbacks[f] # None /\ Waits(callbacks[f]) /\ ~Leaving(f)
        /\ callbacks[f] # None =>
              /\ Operation(callbacks[f]).fd = f /\ Operation(callbacks[f]).kind # "timer"
              /\ \/ Waits(callbacks[f]) \/ Resumed(callbacks[f])
                 \/ Released(callbacks[f], f) \/ Abandoned(callbacks[f])
        /\ OneUnreg(f)
        /\ Leaving(f) => callbacks[f] # None

ResumedInv ==
    /\ \A c \in Coros : at[c] = "resumed" /\ ~Timed(c) =>
          /\ callbacks[Descriptor(c)] = Awaiter(c) /\ armed[Descriptor(c)] # "oneshot"
          /\ Descriptor(c) \notin events /\ ~Leaving(Descriptor(c))
    /\ \A c \in Coros : Suspended(c) /\ ~Timed(c) /\ c \notin refused =>
          \/ Queued(c)
          \/ /\ callbacks[Descriptor(c)] = Awaiter(c)
             /\ (armed[Descriptor(c)] = "oneshot" \/ Descriptor(c) \in events)
          \/ Descriptor(c) \notin open

(* A timer that is open is somebody's. *)
On(c, f) == at[c] \in {"arming", "suspended", "resumed"} /\ Timed(c) /\ Descriptor(c) = f
Taken(f) == f \in open /\ ~Deleted(f)
OneDel(f) == \A i, j \in DOMAIN pending : pending[i] = Del(f) /\ pending[j] = Del(f) => i = j
TimerInv ==
    \A f \in Timers :
        /\ armed[f] \in {"off", "level"}
        /\ f \notin open => callbacks[f] = None /\ armed[f] = "off"
        /\ callbacks[f] # None => Operation(callbacks[f]).fd = f /\ Operation(callbacks[f]).kind = "timer"
        /\ armed[f] = "level" => callbacks[f] # None
        /\ inbox[f] => f \notin ticking
        /\ inbox[f] \/ f \in ticking \/ f \in events =>
              \E c \in Coros : at[c] \in {"arming", "suspended"} /\ On(c, f)
        /\ OneDel(f)
        /\ Deleted(f) => f \in open

OnInv ==
    \A c \in Coros, f \in Timers : On(c, f) =>
        /\ Taken(f)
        /\ \A d \in Coros : On(d, f) => d = c
        /\ at[c] = "arming" \/ (at[c] = "suspended" /\ Queued(c)) =>
              callbacks[f] = None /\ armed[f] = "off"
        /\ at[c] = "suspended" /\ ~Queued(c) => callbacks[f] = Awaiter(c) /\ armed[f] = "level"

(* The number of a timer is in one place, or still to be assigned to one. *)
NumberInv ==
    /\ \A a \in tail : /\ Operation(a).kind = "timer" /\ Taken(Operation(a).fd)
                       /\ \A c \in Coros : timerFd[c] # Operation(a).fd
                       /\ \A c \in Coros : On(c, Operation(a).fd) => a = Awaiter(c) /\ at[c] # "arming"
                       /\ a # Awaiter(a.co) \/ at[a.co] \notin {"suspended", "resumed"} => a.co \in early
                       /\ a.op # 1 => calling /\ a = Awaiter(a.co) /\ Suspended(a.co)
                       /\ a.op < op[a.co] \/ (a.op = op[a.co] /\ at[a.co] \in {"suspended", "resumed"})
    /\ \A a, b \in tail : Operation(a).fd = Operation(b).fd => a = b
    /\ \A c \in Coros : timerFd[c] # None =>
          /\ Taken(timerFd[c])
          /\ \A d \in Coros : On(d, timerFd[c]) => d = c /\ at[d] # "arming"
          /\ \A d \in Coros : timerFd[d] = timerFd[c] => d = c
    /\ \A c \in Coros : at[c] \in {"suspended", "resumed"} /\ Timed(c) /\ Awaiter(c) \notin tail
                           /\ timerFd[c] # Descriptor(c) => c \in early

EarlyInv ==
    /\ \A f \in Timers : f \in open =>
          \/ Deleted(f) \/ \E c \in Coros : On(c, f)
          \/ \E c \in early : \E o \in DOMAIN Plan[c] : Plan[c][o].fd = f
    /\ \A c \in early : Plan[c][1].kind = "timer"

SocketsInv == SocketInv /\ ResumedInv
TimersInv == TimerInv /\ OnInv /\ NumberInv /\ EarlyInv
IInv == TypeOK /\ PlaceInv /\ AddInv /\ SocketsInv /\ TimersInv

-----------------------------------------------------------------------------
(* The types of awaiters, operations and commands. *)
LEMMA PlanType ==
    ASSUME NEW c \in Coros, NEW i \in DOMAIN Plan[c]
    PROVE  /\ Plan[c][i].kind \in {"read", "write", "timer"}
           /\ Plan[c][i].kind = "timer" => Plan[c][i].fd \in Timers
           /\ Plan[c][i].kind # "timer" => Plan[c][i].fd \in Sockets
           /\ Plan[c][i].fd \in Fds
<1>1. Plan[c] \in Seq([kind : {"read", "write"}, fd : Sockets] \cup [kind : {"timer"}, fd : Timers])
  BY PlanAssumption
<1>2. Plan[c][i] \in [kind : {"read", "write"}, fd : Sockets] \cup [kind : {"timer"}, fd : Timers]
  BY <1>1
<1> QED BY <1>2 DEF Fds

LEMMA AwaiterType ==
    ASSUME NEW a \in Awaiters
    PROVE  /\ a.co \in Coros /\ a.op \in DOMAIN Plan[a.co] /\ a.op \in Nat \ {0}
           /\ a.try \in 0 .. MaxFaults
           /\ a = [co |-> a.co, op |-> a.op, try |-> a.try] /\ a # None
           /\ Operation(a).kind \in {"read", "write", "timer"}
           /\ Operation(a).kind = "timer" => Operation(a).fd \in Timers
           /\ Operation(a).kind # "timer" => Operation(a).fd \in Sockets
           /\ Operation(a).fd \in Fds
<1>1. PICK c \in Coros : a \in [co : {c}, op : DOMAIN Plan[c], try : 0 .. MaxFaults]
  BY DEF Awaiters
<1>2. /\ a.co = c /\ a.op \in DOMAIN Plan[c] /\ a.try \in 0 .. MaxFaults
      /\ a = [co |-> a.co, op |-> a.op, try |-> a.try]
  BY <1>1
<1>3. Plan[c] \in Seq([kind : {"read", "write"}, fd : Sockets] \cup [kind : {"timer"}, fd : Timers])
  BY PlanAssumption
<1>4. a.op \in Nat \ {0}
  BY <1>2, <1>3
<1>5. a # None
  BY AwaiterAssumption
<1> QED BY <1>2, <1>4, <1>5, PlanType DEF Operation

LEMMA AwaiterIs ==
    ASSUME TypeOK, NEW c \in Coros, op[c] <= Len(Plan[c])
    PROVE  /\ Awaiter(c) \in Awaiters /\ Awaiter(c) # None
           /\ Awaiter(c).co = c /\ Awaiter(c).op = op[c] /\ Awaiter(c).try = try[c]
           /\ op[c] \in DOMAIN Plan[c] /\ Current(c) = Plan[c][op[c]]
           /\ Current(c).kind \in {"read", "write", "timer"}
           /\ Timed(c) => Descriptor(c) \in Timers
           /\ ~Timed(c) => Descriptor(c) \in Sockets
           /\ Descriptor(c) \in Fds
<1>1. Plan[c] \in Seq([kind : {"read", "write"}, fd : Sockets] \cup [kind : {"timer"}, fd : Timers])
  BY PlanAssumption
<1>2. op[c] \in DOMAIN Plan[c] /\ try[c] \in 0 .. MaxFaults
  BY <1>1 DEF TypeOK
<1>3. Awaiter(c) \in [co : {c}, op : DOMAIN Plan[c], try : 0 .. MaxFaults]
  BY <1>2 DEF Awaiter
<1>4. Awaiter(c) \in Awaiters
  BY <1>3 DEF Awaiters
<1>5. Current(c) = Plan[c][op[c]] /\ Awaiter(c).co = c /\ Awaiter(c).op = op[c] /\ Awaiter(c).try = try[c]
  BY DEF Current, Operation, Awaiter
<1> QED BY <1>2, <1>4, <1>5, PlanType, AwaiterAssumption DEF Timed, Descriptor

LEMMA FdFacts ==
    /\ \A f \in Sockets : f \in Fds /\ f \notin Timers /\ f # None
    /\ \A f \in Timers : f \in Fds /\ f \notin Sockets /\ f # None
    /\ \A f \in Fds : f \in Sockets \/ f \in Timers
BY PlanAssumption DEF Fds

(* The commands: told apart by their types, records of their fields.       *)
LEMMA CommandFacts ==
    /\ \A f \in Fds, a \in Awaiters, m \in {"oneshot", "level"} : Add(f, a, m) \in Commands
    /\ \A f \in Fds : Unreg(f) \in Commands /\ Del(f) \in Commands
    /\ \A x \in Commands :
          /\ x.type \in {"Add", "Unreg", "Del"} /\ x.fd \in Fds
          /\ x.type = "Add" => x.tag \in Awaiters
          /\ x.type = "Unreg" => x = Unreg(x.fd)
          /\ x.type = "Del" => x = Del(x.fd)
    /\ \A f, a, m : /\ Add(f, a, m).type = "Add" /\ Add(f, a, m).fd = f
                    /\ Add(f, a, m).tag = a /\ Add(f, a, m).mode = m
    /\ \A f : Unreg(f).type = "Unreg" /\ Unreg(f).fd = f
    /\ \A f : Del(f).type = "Del" /\ Del(f).fd = f
<1>1. \A f \in Fds, a \in Awaiters, m \in {"oneshot", "level"} : Add(f, a, m) \in Commands
  BY DEF Add, Commands
<1>2. \A f \in Fds : Unreg(f) \in Commands /\ Del(f) \in Commands
  BY DEF Unreg, Del, Commands
<1>3. ASSUME NEW x \in Commands
      PROVE  /\ x.type \in {"Add", "Unreg", "Del"} /\ x.fd \in Fds
             /\ x.type = "Add" => x.tag \in Awaiters
             /\ x.type = "Unreg" => x = Unreg(x.fd)
             /\ x.type = "Del" => x = Del(x.fd)
  <2>1. CASE x \in [type : {"Add"}, fd : Fds, tag : Awaiters, mode : {"oneshot", "level"}]
    BY <2>1
  <2>2. CASE x \in [type : {"Unreg", "Del"}, fd : Fds, tag : {None}, mode : {"none"}]
    <3>1. /\ x.type \in {"Unreg", "Del"} /\ x.fd \in Fds /\ x.tag = None /\ x.mode = "none"
          /\ x = [type |-> x.type, fd |-> x.fd, tag |-> x.tag, mode |-> x.mode]
      BY <2>2
    <3> QED BY <3>1 DEF Unreg, Del
  <2> QED BY <2>1, <2>2 DEF Commands
<1>4. /\ \A f, a, m : /\ Add(f, a, m).type = "Add" /\ Add(f, a, m).fd = f
                      /\ Add(f, a, m).tag = a /\ Add(f, a, m).mode = m
      /\ \A f : Unreg(f).type = "Unreg" /\ Unreg(f).fd = f
      /\ \A f : Del(f).type = "Del" /\ Del(f).fd = f
  BY DEF Add, Unreg, Del
<1> QED BY <1>1, <1>2, <1>3, <1>4

LEMMA Appended ==
    ASSUME NEW P \in Seq(Commands), NEW x \in Commands, NEW R, R = Append(P, x)
    PROVE  /\ R \in Seq(Commands) /\ Len(P) + 1 \in DOMAIN R /\ R[Len(P) + 1] = x
           /\ \A i \in DOMAIN P : i \in DOMAIN R /\ R[i] = P[i] /\ i \in Nat /\ i < Len(P) + 1
           /\ \A i \in DOMAIN R : i = Len(P) + 1 \/ i \in DOMAIN P
           /\ Len(P) \in Nat
OBVIOUS

LEMMA HeadTaken ==
    ASSUME NEW P \in Seq(Commands), P # <<>>, NEW R, R = Tail(P)
    PROVE  /\ R \in Seq(Commands) /\ 1 \in DOMAIN P /\ Head(P) = P[1] /\ Head(P) \in Commands
           /\ \A i \in DOMAIN R : i \in Nat /\ i + 1 \in DOMAIN P /\ R[i] = P[i + 1] /\ i + 1 # 1
           /\ \A i \in DOMAIN P : i \in Nat /\ i >= 1
                                 /\ (i # 1 => i - 1 \in DOMAIN R /\ R[i - 1] = P[i])
OBVIOUS

-----------------------------------------------------------------------------
(* What a posted and what an executed command does to these predicates.    *)
LEMMA QueuedIs == \A c : Queued(c) <=> HasAdd(Awaiter(c))
BY DEF Queued, HasAdd

LEMMA PostAdd ==
    ASSUME TypeOK, NEW x \in Commands, x.type = "Add", pending' = Append(pending, x)
    PROVE  /\ pending' \in Seq(Commands)
           /\ \A f : (Leaving(f)' <=> Leaving(f)) /\ (Deleted(f)' <=> Deleted(f))
           /\ \A f : (OneUnreg(f) => OneUnreg(f)') /\ (OneDel(f) => OneDel(f)')
           /\ \A a : HasAdd(a)' <=> (HasAdd(a) \/ a = x.tag)
           /\ \A f, a : Released(a, f) => Released(a, f)'
<1> DEFINE n == Len(pending) + 1
<1>1. pending \in Seq(Commands)
  BY DEF TypeOK
<1>2. /\ pending' \in Seq(Commands) /\ n \in DOMAIN pending' /\ pending'[n] = x
      /\ \A i \in DOMAIN pending : i \in DOMAIN pending' /\ pending'[i] = pending[i] /\ i < n
      /\ \A i \in DOMAIN pending' : i = n \/ i \in DOMAIN pending
  BY <1>1, Appended
<1> HIDE DEF n
<1>3. \A f : x # Unreg(f) /\ x # Del(f)
  BY DEF Unreg, Del
<1>4. \A f : (Leaving(f)' <=> Leaving(f)) /\ (Deleted(f)' <=> Deleted(f))
  BY <1>2, <1>3 DEF Leaving, Deleted, Unreg, Del
<1>5. \A f : (OneUnreg(f) => OneUnreg(f)') /\ (OneDel(f) => OneDel(f)')
  BY <1>2, <1>3 DEF OneUnreg, OneDel, Unreg, Del
<1>6. \A a : HasAdd(a)' <=> (HasAdd(a) \/ a = x.tag)
  BY <1>2 DEF HasAdd
<1>7. \A f, a : Released(a, f) => Released(a, f)'
  BY <1>2 DEF Released, Unreg
<1> QED BY <1>2, <1>4, <1>5, <1>6, <1>7

LEMMA PostRemoval ==
    ASSUME TypeOK, NEW x \in Commands, x.type # "Add", pending' = Append(pending, x)
    PROVE  /\ pending' \in Seq(Commands)
           /\ \A f : /\ Leaving(f)' <=> (Leaving(f) \/ x = Unreg(f))
                     /\ Deleted(f)' <=> (Deleted(f) \/ x = Del(f))
           /\ \A f : /\ OneUnreg(f) /\ ~(x = Unreg(f) /\ Leaving(f)) => OneUnreg(f)'
                     /\ OneDel(f) /\ ~(x = Del(f) /\ Deleted(f)) => OneDel(f)'
           /\ \A a : HasAdd(a)' <=> HasAdd(a)
           /\ \A f, a : Released(a, f) => Released(a, f)'
           /\ \A f, a : x = Unreg(f) /\ (\A i \in DOMAIN pending :
                              pending[i].type = "Add" => pending[i].tag.co # a.co)
                          => Released(a, f)'
<1> DEFINE n == Len(pending) + 1
<1>1. pending \in Seq(Commands)
  BY DEF TypeOK
<1>2. /\ pending' \in Seq(Commands) /\ n \in DOMAIN pending' /\ pending'[n] = x
      /\ \A i \in DOMAIN pending : i \in DOMAIN pending' /\ pending'[i] = pending[i] /\ i < n
      /\ \A i \in DOMAIN pending' : i = n \/ i \in DOMAIN pending
  BY <1>1, Appended
<1> HIDE DEF n
<1>3. \A f : /\ Leaving(f)' <=> (Leaving(f) \/ x = Unreg(f))
             /\ Deleted(f)' <=> (Deleted(f) \/ x = Del(f))
  BY <1>2 DEF Leaving, Deleted, Unreg, Del
<1>4. \A f : /\ OneUnreg(f) /\ ~(x = Unreg(f) /\ Leaving(f)) => OneUnreg(f)'
             /\ OneDel(f) /\ ~(x = Del(f) /\ Deleted(f)) => OneDel(f)'
  BY <1>2 DEF OneUnreg, OneDel, Leaving, Deleted, Unreg, Del
<1>5. \A a : HasAdd(a)' <=> HasAdd(a)
  BY <1>2 DEF HasAdd
<1>6. \A f, a : Released(a, f) => Released(a, f)'
  BY <1>2 DEF Released, Unreg
<1>7. \A f, a : x = Unreg(f) /\ (\A i \in DOMAIN pending :
                    pending[i].type = "Add" => pending[i].tag.co # a.co) => Released(a, f)'
  BY <1>2 DEF Released, Unreg
<1> QED BY <1>2, <1>3, <1>4, <1>5, <1>6, <1>7

LEMMA TakeHead ==
    ASSUME TypeOK, NEW x, pending # <<>>, x = Head(pending), pending' = Tail(pending)
    PROVE  /\ pending' \in Seq(Commands) /\ x \in Commands /\ 1 \in DOMAIN pending /\ x = pending[1]
           /\ \A i \in DOMAIN pending' : i + 1 \in DOMAIN pending /\ pending'[i] = pending[i + 1]
                                          /\ i + 1 # 1 /\ i \in Nat
           /\ \A f : /\ Leaving(f)' => Leaving(f)
                     /\ Leaving(f) => Leaving(f)' \/ x = Unreg(f)
                     /\ x = Unreg(f) => Leaving(f)
                     /\ OneUnreg(f) => OneUnreg(f)' /\ (x = Unreg(f) => ~Leaving(f)')
           /\ \A f : /\ Deleted(f)' => Deleted(f)
                     /\ Deleted(f) => Deleted(f)' \/ x = Del(f)
                     /\ x = Del(f) => Deleted(f)
                     /\ OneDel(f) => OneDel(f)' /\ (x = Del(f) => ~Deleted(f)')
           /\ \A a : /\ HasAdd(a)' => HasAdd(a)
                     /\ HasAdd(a) => HasAdd(a)' \/ (x.type = "Add" /\ x.tag = a)
                     /\ x.type = "Add" /\ x.tag = a => HasAdd(a)
           /\ \A f, a : Released(a, f) =>
                  /\ Released(a, f)' \/ x = Unreg(f)
                  /\ ~(x.type = "Add" /\ x.tag.co = a.co)
<1>1. pending \in Seq(Commands)
  BY DEF TypeOK
<1>2. /\ pending' \in Seq(Commands) /\ 1 \in DOMAIN pending /\ x = pending[1] /\ x \in Commands
      /\ \A i \in DOMAIN pending' : i \in Nat /\ i + 1 \in DOMAIN pending
                                     /\ pending'[i] = pending[i + 1] /\ i + 1 # 1
      /\ \A i \in DOMAIN pending : i \in Nat /\ i >= 1
              /\ (i # 1 => i - 1 \in DOMAIN pending' /\ pending'[i - 1] = pending[i])
  BY <1>1, HeadTaken
<1>3. \A f : /\ Leaving(f)' => Leaving(f)
             /\ Leaving(f) => Leaving(f)' \/ x = Unreg(f)
             /\ x = Unreg(f) => Leaving(f)
  <2>1. \A f : Leaving(f)' => Leaving(f)
    BY <1>2 DEF Leaving, Unreg
  <2>2. ASSUME NEW f, Leaving(f), x # Unreg(f) PROVE Leaving(f)'
    <3>1. PICK i \in DOMAIN pending : pending[i] = Unreg(f)
      BY <2>2 DEF Leaving
    <3>2. i - 1 \in DOMAIN pending' /\ pending'[i - 1] = Unreg(f)
      BY <1>2, <2>2, <3>1
    <3> QED BY <3>2 DEF Leaving, Unreg
  <2>3. \A f : x = Unreg(f) => Leaving(f)
    BY <1>2 DEF Leaving
  <2> QED BY <2>1, <2>2, <2>3
<1>4. \A f : OneUnreg(f) => OneUnreg(f)' /\ (x = Unreg(f) => ~Leaving(f)')
  <2> SUFFICES ASSUME NEW f, OneUnreg(f) PROVE OneUnreg(f)' /\ (x = Unreg(f) => ~Leaving(f)')
    OBVIOUS
  <2>1. ASSUME NEW i \in DOMAIN pending', NEW j \in DOMAIN pending',
               pending'[i] = Unreg(f), pending'[j] = Unreg(f)
        PROVE  i = j
    <3>1. i + 1 = j + 1
      BY <1>2, <2>1 DEF OneUnreg
    <3> QED BY <1>2, <3>1
  <2>2. ASSUME NEW i \in DOMAIN pending', pending'[i] = Unreg(f), x = Unreg(f) PROVE FALSE
    BY <1>2, <2>2 DEF OneUnreg
  <2> QED BY <2>1, <2>2 DEF OneUnreg, Leaving, Unreg
<1>5. \A f : /\ Deleted(f)' => Deleted(f)
             /\ Deleted(f) => Deleted(f)' \/ x = Del(f)
             /\ x = Del(f) => Deleted(f)
  <2>1. \A f : Deleted(f)' => Deleted(f)
    BY <1>2 DEF Deleted, Del
  <2>2. ASSUME NEW f, Deleted(f), x # Del(f) PROVE Deleted(f)'
    <3>1. PICK i \in DOMAIN pending : pending[i] = Del(f)
      BY <2>2 DEF Deleted
    <3>2. i - 1 \in DOMAIN pending' /\ pending'[i - 1] = Del(f)
      BY <1>2, <2>2, <3>1
    <3> QED BY <3>2 DEF Deleted, Del
  <2>3. \A f : x = Del(f) => Deleted(f)
    BY <1>2 DEF Deleted
  <2> QED BY <2>1, <2>2, <2>3
<1>6. \A f : OneDel(f) => OneDel(f)' /\ (x = Del(f) => ~Deleted(f)')
  <2> SUFFICES ASSUME NEW f, OneDel(f) PROVE OneDel(f)' /\ (x = Del(f) => ~Deleted(f)')
    OBVIOUS
  <2>1. ASSUME NEW i \in DOMAIN pending', NEW j \in DOMAIN pending',
               pending'[i] = Del(f), pending'[j] = Del(f)
        PROVE  i = j
    <3>1. i + 1 = j + 1
      BY <1>2, <2>1 DEF OneDel
    <3> QED BY <1>2, <3>1
  <2>2. ASSUME NEW i \in DOMAIN pending', pending'[i] = Del(f), x = Del(f) PROVE FALSE
    BY <1>2, <2>2 DEF OneDel
  <2> QED BY <2>1, <2>2 DEF OneDel, Deleted, Del
<1>7. \A a : /\ HasAdd(a)' => HasAdd(a)
             /\ HasAdd(a) => HasAdd(a)' \/ (x.type = "Add" /\ x.tag = a)
             /\ x.type = "Add" /\ x.tag = a => HasAdd(a)
  <2>1. \A a : HasAdd(a)' => HasAdd(a)
    BY <1>2 DEF HasAdd
  <2>2. ASSUME NEW a, HasAdd(a), ~(x.type = "Add" /\ x.tag = a) PROVE HasAdd(a)'
    <3>1. PICK i \in DOMAIN pending : pending[i].type = "Add" /\ pending[i].tag = a
      BY <2>2 DEF HasAdd
    <3>2. i - 1 \in DOMAIN pending' /\ pending'[i - 1] = pending[i]
      BY <1>2, <2>2, <3>1
    <3> QED BY <3>1, <3>2 DEF HasAdd
  <2>3. \A a : x.type = "Add" /\ x.tag = a => HasAdd(a)
    BY <1>2 DEF HasAdd
  <2> QED BY <2>1, <2>2, <2>3
<1>8. \A f, a : Released(a, f) =>
          Released(a, f)' \/ x = Unreg(f)
  <2> SUFFICES ASSUME NEW f, NEW a, Released(a, f), x # Unreg(f) PROVE Released(a, f)'
    OBVIOUS
  <2>1. PICK i \in DOMAIN pending :
          /\ pending[i] = Unreg(f)
          /\ \A j \in DOMAIN pending : pending[j].type = "Add" /\ pending[j].tag.co = a.co => i < j
    BY DEF Released
  <2>2. i - 1 \in DOMAIN pending' /\ pending'[i - 1] = Unreg(f)
    BY <1>2, <2>1
  <2>3. \A j \in DOMAIN pending' :
          pending'[j].type = "Add" /\ pending'[j].tag.co = a.co => i - 1 < j
    <3> SUFFICES ASSUME NEW j \in DOMAIN pending', pending'[j].type = "Add",
                        pending'[j].tag.co = a.co
                 PROVE  i - 1 < j
      OBVIOUS
    <3>1. i < j + 1 /\ i \in Nat /\ j \in Nat
      BY <1>2, <2>1
    <3> QED BY <3>1
  <2> QED BY <2>2, <2>3 DEF Released, Unreg
<1>9. \A f, a : Released(a, f) => ~(x.type = "Add" /\ x.tag.co = a.co)
  BY <1>2 DEF Released, Unreg
<1> QED BY <1>2, <1>3, <1>4, <1>5, <1>6, <1>7, <1>8, <1>9

-----------------------------------------------------------------------------
Same(d) == at'[d] = at[d] /\ op'[d] = op[d] /\ try'[d] = try[d]
SocketBusy(d) == at[d] \in {"suspended", "resumed"} /\ ~Timed(d)

LEMMA SameIs ==
    ASSUME NEW d, Same(d)
    PROVE  /\ Awaiter(d)' = Awaiter(d) /\ Current(d)' = Current(d) /\ Descriptor(d)' = Descriptor(d)
           /\ Timed(d)' <=> Timed(d)
           /\ SocketBusy(d)' <=> SocketBusy(d)
           /\ \A f : On(d, f)' <=> On(d, f)
           /\ Suspended(d)' <=> Suspended(d)
<1>1. Awaiter(d)' = Awaiter(d)
  BY DEF Same, Awaiter
<1>2. Current(d)' = Current(d)
  BY <1>1 DEF Current, Operation
<1>3. at'[d] = at[d]
  BY DEF Same
<1> QED BY <1>1, <1>2, <1>3 DEF Timed, Descriptor, SocketBusy, On, Suspended

LEMMA Basics ==
    ASSUME IInv
    PROVE  /\ TypeOK /\ PlaceInv /\ AddInv /\ SocketInv /\ ResumedInv
           /\ TimerInv /\ OnInv /\ NumberInv /\ EarlyInv
           /\ \A c \in Coros : at[c] \in {"arming", "suspended", "resumed", "failed"} =>
                /\ Awaiter(c) \in Awaiters /\ Awaiter(c) # None
                /\ Awaiter(c).co = c /\ Awaiter(c).op = op[c] /\ Awaiter(c).try = try[c]
                /\ op[c] \in DOMAIN Plan[c] /\ Current(c) = Plan[c][op[c]]
                /\ Timed(c) => Descriptor(c) \in Timers
                /\ ~Timed(c) => Descriptor(c) \in Sockets
           /\ \A f \in Fds : callbacks[f] # None =>
                callbacks[f] \in Awaiters /\ callbacks[f].co \in Coros
           /\ \A a \in tail : a \in Awaiters /\ a.co \in Coros
<1>1. /\ TypeOK /\ PlaceInv /\ AddInv /\ SocketInv /\ ResumedInv
      /\ TimerInv /\ OnInv /\ NumberInv /\ EarlyInv
  BY DEF IInv, SocketsInv, TimersInv
<1>2. \A c \in Coros : at[c] \in {"arming", "suspended", "resumed", "failed"} =>
                /\ Awaiter(c) \in Awaiters /\ Awaiter(c) # None
                /\ Awaiter(c).co = c /\ Awaiter(c).op = op[c] /\ Awaiter(c).try = try[c]
                /\ op[c] \in DOMAIN Plan[c] /\ Current(c) = Plan[c][op[c]]
                /\ Timed(c) => Descriptor(c) \in Timers
                /\ ~Timed(c) => Descriptor(c) \in Sockets
  BY <1>1, AwaiterIs DEF PlaceInv
<1>3. \A f \in Fds : callbacks[f] # None => callbacks[f] \in Awaiters /\ callbacks[f].co \in Coros
  BY <1>1, AwaiterType DEF TypeOK
<1>4. \A a \in tail : a \in Awaiters /\ a.co \in Coros
  BY <1>1, AwaiterType DEF TypeOK
<1> QED BY <1>1, <1>2, <1>3, <1>4

(* A step that leaves the sockets and those who wait at them alone, or     *)
(* closes sockets.                                                         *)
LEMMA QuietSockets ==
    ASSUME IInv, TypeOK', PlaceInv',
           \A d \in Coros :
              Same(d) \/ (~SocketBusy(d) /\ (SocketBusy(d)' => Suspended(d)' /\ Queued(d)')),
           \A a \in Awaiters : Abandoned(a) => Abandoned(a)',
           \A f \in Sockets : /\ \/ armed'[f] = armed[f] /\ (f \in open' <=> f \in open)
                                 \/ armed'[f] = "off" /\ f \notin open'
                              /\ callbacks'[f] = callbacks[f] /\ (f \in events' <=> f \in events)
                              /\ Leaving(f)' <=> Leaving(f)
                              /\ OneUnreg(f) => OneUnreg(f)',
           \A f \in Sockets, a \in Awaiters : Released(a, f) => Released(a, f)',
           \A d \in Coros : SocketBusy(d) => (HasAdd(Awaiter(d))' <=> HasAdd(Awaiter(d))),
           refused' = refused
    PROVE  SocketsInv'
<1>0. TypeOK /\ PlaceInv /\ SocketInv /\ ResumedInv
  BY Basics
<1>1. \A d \in Coros : SocketBusy(d) => Same(d) /\ SocketBusy(d)'
  BY SameIs
<1>2. \A d \in Coros : SocketBusy(d)' =>
          (Same(d) /\ SocketBusy(d)) \/ (Suspended(d)' /\ Queued(d)')
  BY SameIs
<1>3. \A d \in Coros : SocketBusy(d) => Awaiter(d) \in Awaiters /\ Awaiter(d).co = d
                                        /\ Descriptor(d) \in Sockets
  BY Basics DEF SocketBusy
<1>4. \A d \in Coros : SocketBusy(d) => (Queued(d)' <=> Queued(d))
  BY QueuedIs, <1>1, SameIs DEF Queued, HasAdd
<1>5. SocketInv'
  <2> SUFFICES ASSUME NEW f \in Sockets
               PROVE  /\ armed'[f] \in {"off", "oneshot", "disabled"}
                      /\ f \notin open' => armed'[f] = "off"
                      /\ f \in open' => (armed'[f] = "off" <=> callbacks'[f] = None)
                      /\ armed'[f] = "oneshot" => f \notin events'
                      /\ armed'[f] = "oneshot" \/ f \in events' =>
                            callbacks'[f] # None /\ Waits(callbacks[f])' /\ ~Leaving(f)'
                      /\ callbacks'[f] # None =>
                            /\ Operation(callbacks'[f]).fd = f /\ Operation(callbacks'[f]).kind # "timer"
                            /\ \/ Waits(callbacks[f])' \/ Resumed(callbacks[f])'
                               \/ Released(callbacks[f], f)' \/ Abandoned(callbacks[f])'
                      /\ OneUnreg(f)'
                      /\ Leaving(f)' => callbacks'[f] # None
    BY DEF SocketInv, Operation
  <2> DEFINE a == callbacks[f]
  <2>1. /\ \/ armed'[f] = armed[f] /\ (f \in open' <=> f \in open)
           \/ armed'[f] = "off" /\ f \notin open'
        /\ callbacks'[f] = a /\ (f \in events' <=> f \in events)
        /\ (Leaving(f)' <=> Leaving(f)) /\ OneUnreg(f)' /\ f \in Fds
    BY <1>0, FdFacts DEF SocketInv
  <2>2. a # None => a \in Awaiters /\ a.co \in Coros /\ Operation(a).kind # "timer"
    BY <1>0, <2>1, Basics DEF SocketInv
  <2>3. a # None /\ (Waits(a) \/ Resumed(a)) => SocketBusy(a.co)
    BY <2>2 DEF Waits, Resumed, SocketBusy, Timed, Current, Suspended
  <2>4. a # None /\ Waits(a) => Waits(callbacks[f])'
    BY <1>1, <1>4, <2>1, <2>2, <2>3, SameIs DEF Waits
  <2>5. a # None /\ Resumed(a) => Resumed(callbacks[f])'
    BY <1>1, <2>1, <2>2, <2>3, SameIs DEF Resumed, Same
  <2>6. a # None /\ Abandoned(a) => Abandoned(callbacks[f])'
    BY <2>1, <2>2 DEF Abandoned, Operation
  <2>7. a # None /\ Released(a, f) => Released(callbacks[f], f)'
    BY <2>1, <2>2 DEF Released
  <2> QED BY <1>0, <2>1, <2>2, <2>4, <2>5, <2>6, <2>7 DEF SocketInv
<1>6. ResumedInv'
  <2>1. ASSUME NEW c \in Coros, at'[c] = "resumed", ~Timed(c)'
        PROVE  /\ callbacks'[Descriptor(c)'] = Awaiter(c)' /\ armed'[Descriptor(c)'] # "oneshot"
               /\ Descriptor(c)' \notin events' /\ ~Leaving(Descriptor(c))'
    <3>1. SocketBusy(c)' /\ Same(c) /\ SocketBusy(c)
      BY <2>1, <1>2 DEF SocketBusy, Suspended
    <3>2. Awaiter(c)' = Awaiter(c) /\ Descriptor(c)' = Descriptor(c) /\ Descriptor(c) \in Sockets
          /\ at[c] = "resumed" /\ ~Timed(c)
      BY <2>1, <3>1, <1>3, SameIs DEF Same
    <3>3. Leaving(Descriptor(c))' <=> Leaving(Descriptor(c))
      BY <3>2 DEF Leaving
    <3> QED BY <1>0, <3>2, <3>3 DEF ResumedInv
  <2>2. ASSUME NEW c \in Coros, Suspended(c)', ~Timed(c)', c \notin refused'
        PROVE  \/ Queued(c)'
               \/ /\ callbacks'[Descriptor(c)'] = Awaiter(c)'
                  /\ (armed'[Descriptor(c)'] = "oneshot" \/ Descriptor(c)' \in events')
               \/ Descriptor(c)' \notin open'
    <3> SUFFICES ASSUME ~Queued(c)' PROVE
               \/ /\ callbacks'[Descriptor(c)'] = Awaiter(c)'
                  /\ (armed'[Descriptor(c)'] = "oneshot" \/ Descriptor(c)' \in events')
               \/ Descriptor(c)' \notin open'
      OBVIOUS
    <3>1. SocketBusy(c)' /\ Same(c) /\ SocketBusy(c)
      BY <2>2, <1>2 DEF SocketBusy, Suspended
    <3>2. Awaiter(c)' = Awaiter(c) /\ Descriptor(c)' = Descriptor(c) /\ Descriptor(c) \in Sockets
          /\ Suspended(c) /\ ~Timed(c) /\ c \notin refused
      BY <2>2, <3>1, <1>3, SameIs
    <3> QED BY <1>0, <1>4, <3>1, <3>2 DEF ResumedInv
  <2> QED BY <2>1, <2>2 DEF ResumedInv
<1> QED BY <1>5, <1>6 DEF SocketsInv

(* A step that leaves the timers and those who wait for them alone.        *)
TimerBusy(d) == at[d] \in {"arming", "suspended", "resumed"} /\ Timed(d)

LEMMA QuietTimers ==
    ASSUME IInv, TypeOK', PlaceInv',
           \A d \in Coros : Same(d) \/ (~TimerBusy(d) /\ ~TimerBusy(d)' /\ op'[d] >= op[d]),
           \A f \in Timers : /\ armed'[f] = armed[f] /\ callbacks'[f] = callbacks[f]
                             /\ inbox'[f] = inbox[f]
                             /\ f \in open' <=> f \in open
                             /\ f \in events' => f \in events \/ inbox[f]
                             /\ Deleted(f)' <=> Deleted(f)
                             /\ OneDel(f) => OneDel(f)',
           \A d \in Coros : TimerBusy(d) => (HasAdd(Awaiter(d))' <=> HasAdd(Awaiter(d))),
           ticking' = ticking, tail' = tail, early' = early,
           \A d \in Coros : timerFd'[d] = timerFd[d] \/ (timerFd'[d] = None /\ ~TimerBusy(d)),
           calling => calling' \/ \A a \in tail : a.op = 1
    PROVE  TimersInv'
<1>0. /\ TypeOK /\ TimerInv /\ OnInv /\ NumberInv /\ EarlyInv
      /\ \A d \in Coros : op[d] \in Nat /\ op'[d] \in Nat
  BY Basics DEF TypeOK
<1>1. \A d \in Coros, f \in Timers : On(d, f)' <=> On(d, f)
  BY SameIs DEF On, TimerBusy
<1>2. \A d \in Coros, f \in Timers : On(d, f) => Same(d) /\ TimerBusy(d)
  BY SameIs DEF On, TimerBusy
<1>3. \A d \in Coros, f \in Timers : On(d, f) =>
          /\ at'[d] = at[d] /\ Awaiter(d)' = Awaiter(d)
          /\ (Queued(d)' <=> Queued(d)) /\ (Suspended(d)' <=> Suspended(d))
  BY <1>2, SameIs DEF Same, Queued, HasAdd
<1>4. \A f \in Timers : Taken(f)' <=> Taken(f)
  BY DEF Taken
<1>5. TimerInv'
  <2> SUFFICES ASSUME NEW f \in Timers
               PROVE  /\ armed'[f] \in {"off", "level"}
                      /\ f \notin open' => callbacks'[f] = None /\ armed'[f] = "off"
                      /\ callbacks'[f] # None => Operation(callbacks'[f]).fd = f
                                                 /\ Operation(callbacks'[f]).kind = "timer"
                      /\ armed'[f] = "level" => callbacks'[f] # None
                      /\ inbox'[f] => f \notin ticking'
                      /\ inbox'[f] \/ f \in ticking' \/ f \in events' =>
                            \E c \in Coros : at'[c] \in {"arming", "suspended"} /\ On(c, f)'
                      /\ OneDel(f)'
                      /\ Deleted(f)' => f \in open'
    BY DEF TimerInv, Operation
  <2>1. inbox'[f] \/ f \in ticking' \/ f \in events' =>
            \E c \in Coros : at'[c] \in {"arming", "suspended"} /\ On(c, f)'
    BY <1>0, <1>1, <1>3 DEF TimerInv
  <2> QED BY <1>0, <2>1 DEF TimerInv
<1>6. OnInv'
  <2> SUFFICES ASSUME NEW c \in Coros, NEW f \in Timers, On(c, f)'
               PROVE  /\ Taken(f)'
                      /\ \A d \in Coros : On(d, f)' => d = c
                      /\ at'[c] = "arming" \/ (at'[c] = "suspended" /\ Queued(c)') =>
                            callbacks'[f] = None /\ armed'[f] = "off"
                      /\ at'[c] = "suspended" /\ ~Queued(c)' =>
                            callbacks'[f] = Awaiter(c)' /\ armed'[f] = "level"
    BY DEF OnInv
  <2>1. On(c, f)
    BY <1>1
  <2>2. Taken(f)' /\ \A d \in Coros : On(d, f)' => d = c
    BY <2>1, <1>0, <1>1, <1>4 DEF OnInv
  <2>3. at'[c] = at[c] /\ Awaiter(c)' = Awaiter(c) /\ (Queued(c)' <=> Queued(c))
    BY <2>1, <1>3
  <2> QED BY <2>1, <2>2, <2>3, <1>0 DEF OnInv
<1>7. \A a \in tail : /\ a \in Awaiters /\ a.co \in Coros /\ Operation(a).kind = "timer"
                      /\ Operation(a).fd \in Timers /\ a.op \in Nat
  BY <1>0, Basics, AwaiterType DEF NumberInv
<1>8. ASSUME NEW a \in tail
      PROVE  Same(a.co) \/ (a.op < op[a.co] /\ a.op < op'[a.co])
  <2>1. a.op = op[a.co] /\ at[a.co] \in {"suspended", "resumed"} => TimerBusy(a.co)
    BY <1>7 DEF TimerBusy, Timed, Current, Operation, Awaiter
  <2>2. a.op < op[a.co] \/ Same(a.co)
    BY <2>1, <1>0, <1>7 DEF NumberInv
  <2> QED BY <2>2, <1>0, <1>7
<1>9. NumberInv'
  <2>1. ASSUME NEW a \in tail
        PROVE  /\ Operation(a).kind = "timer" /\ Taken(Operation(a).fd)'
               /\ \A c \in Coros : timerFd'[c] # Operation(a).fd
               /\ \A c \in Coros : On(c, Operation(a).fd)' => a = Awaiter(c)' /\ at'[c] # "arming"
    BY <1>0, <1>1, <1>3, <1>4, <1>7, FdFacts DEF NumberInv
  <2>2. ASSUME NEW a \in tail
        PROVE  a # Awaiter(a.co)' \/ at'[a.co] \notin {"suspended", "resumed"} => a.co \in early
    <3>1. CASE Same(a.co)
      BY <3>1, <1>0, SameIs DEF NumberInv, Same
    <3>2. CASE a.op < op[a.co]
      BY <3>2, <1>0, <1>7 DEF NumberInv, Awaiter
    <3> QED BY <3>1, <3>2, <1>8
  <2>3. ASSUME NEW a \in tail, a.op # 1
        PROVE  calling' /\ a = Awaiter(a.co)' /\ Suspended(a.co)'
    <3>1. calling /\ a = Awaiter(a.co) /\ Suspended(a.co)
      BY <2>3, <1>0 DEF NumberInv
    <3>2. Same(a.co)
      BY <3>1, <1>8, <1>7, <1>0 DEF Awaiter
    <3> QED BY <3>1, <3>2, <2>3, SameIs
  <2>4. ASSUME NEW a \in tail
        PROVE  a.op < op'[a.co] \/ (a.op = op'[a.co] /\ at'[a.co] \in {"suspended", "resumed"})
    BY <1>0, <1>8 DEF NumberInv, Same
  <2>5. ASSUME NEW c \in Coros, timerFd'[c] # None
        PROVE  /\ Taken(timerFd[c])'
               /\ \A d \in Coros : On(d, timerFd[c])' => d = c /\ at'[d] # "arming"
               /\ \A d \in Coros : timerFd'[d] = timerFd'[c] => d = c
    <3>1. timerFd[c] \in Timers /\ timerFd[c] # None /\ timerFd'[c] = timerFd[c]
      BY <2>5, <1>0 DEF TypeOK
    <3>2. /\ Taken(timerFd[c])
          /\ \A d \in Coros : On(d, timerFd[c]) => d = c /\ at[d] # "arming"
          /\ \A d \in Coros : timerFd[d] = timerFd[c] => d = c
      BY <3>1, <1>0 DEF NumberInv
    <3>3. \A d \in Coros : timerFd'[d] = timerFd'[c] => d = c
      BY <2>5, <3>1, <3>2
    <3> QED BY <3>1, <3>2, <3>3, <1>1, <1>3, <1>4
  <2>6. ASSUME NEW c \in Coros, at'[c] \in {"suspended", "resumed"}, Timed(c)',
               Awaiter(c)' \notin tail, timerFd'[c] # Descriptor(c)'
        PROVE  c \in early
    <3>1. Same(c)
      BY <2>6 DEF TimerBusy
    <3>2. at[c] \in {"suspended", "resumed"} /\ Timed(c) /\ Awaiter(c) \notin tail
          /\ Descriptor(c)' = Descriptor(c)
      BY <2>6, <3>1, SameIs DEF Same
    <3>3. timerFd'[c] = timerFd[c]
      BY <3>2 DEF TimerBusy
    <3> QED BY <2>6, <3>2, <3>3, <1>0 DEF NumberInv
  <2> QED BY <1>0, <2>1, <2>2, <2>3, <2>4, <2>5, <2>6 DEF NumberInv, Operation
<1>10. EarlyInv'
  BY <1>0, <1>1 DEF EarlyInv
<1> QED BY <1>5, <1>6, <1>9, <1>10 DEF TimersInv
(* The pending adds, when there are no new ones, one more, or one less.    *)
Adds(d) == \E i \in DOMAIN pending : pending[i].type = "Add" /\ pending[i].tag.co = d

LEMMA AddIs ==
    ASSUME IInv, NEW i \in DOMAIN pending, pending[i].type = "Add"
    PROVE  LET c == pending[i].tag.co IN
           /\ c \in Coros /\ Suspended(c) /\ c \notin refused /\ pending[i].tag = Awaiter(c)
           /\ pending[i].fd = Descriptor(c)
           /\ pending[i].mode = IF Timed(c) THEN "level" ELSE "oneshot"
<1> DEFINE c == pending[i].tag.co
           m == IF Timed(c) THEN "level" ELSE "oneshot"
<1>1. c \in Coros /\ Suspended(c) /\ c \notin refused
      /\ pending[i] = Add(Descriptor(c), Awaiter(c), m)
  BY Basics DEF AddInv
<1> HIDE DEF c, m
<1>2. pending[i].tag = Awaiter(c) /\ pending[i].fd = Descriptor(c) /\ pending[i].mode = m
  BY <1>1, CommandFacts
<1> QED BY <1>1, <1>2 DEF c, m

LEMMA QuietAdds ==
    ASSUME IInv, refused' \subseteq refused,
           \A d \in Coros : Same(d) \/ ~Adds(d),
           \/ pending' = pending
           \/ \E x \in Commands : /\ pending' = Append(pending, x)
                                  /\ \/ x.type = "Unreg" /\ x.fd \in Sockets
                                     \/ x.type = "Del" /\ x.fd \in Timers
    PROVE  AddInv'
<1>0. AddInv /\ pending \in Seq(Commands)
  BY Basics DEF TypeOK
<1> DEFINE Old(i) == i \in DOMAIN pending /\ pending'[i] = pending[i]
           Remove(x) == \/ x.type = "Unreg" /\ x.fd \in Sockets
                        \/ x.type = "Del" /\ x.fd \in Timers
<1>1. \A i \in DOMAIN pending' : Old(i) \/ Remove(pending'[i])
  <2>1. CASE pending' = pending
    BY <2>1
  <2>2. ASSUME NEW x \in Commands, pending' = Append(pending, x), Remove(x)
        PROVE  \A i \in DOMAIN pending' : Old(i) \/ Remove(pending'[i])
    <3>1. /\ pending'[Len(pending) + 1] = x
          /\ \A i \in DOMAIN pending : pending'[i] = pending[i]
          /\ \A i \in DOMAIN pending' : i = Len(pending) + 1 \/ i \in DOMAIN pending
      BY <1>0, <2>2, Appended
    <3> QED BY <3>1, <2>2
  <2> QED BY <2>1, <2>2
<1> HIDE DEF Old, Remove
<1>2. \A i \in DOMAIN pending' : pending'[i].type = "Add" => Old(i)
  BY <1>1, SMTT(30) DEF Remove
<1>3. ASSUME NEW i \in DOMAIN pending', pending'[i].type = "Add"
      PROVE  \E c \in Coros :
                /\ c = pending'[i].tag.co /\ Suspended(c)' /\ c \notin refused'
                /\ pending'[i] = Add(Descriptor(c)', Awaiter(c)', IF Timed(c)' THEN "level" ELSE "oneshot")
  <2>0. PICK c : c = pending'[i].tag.co
    OBVIOUS
  <2>1. i \in DOMAIN pending /\ pending'[i] = pending[i]
    BY <1>2, <1>3 DEF Old
  <2>2. c \in Coros /\ Suspended(c) /\ c \notin refused
        /\ pending[i] = Add(Descriptor(c), Awaiter(c), IF Timed(c) THEN "level" ELSE "oneshot")
    BY <1>0, <1>3, <2>0, <2>1 DEF AddInv
  <2>3. Adds(c)
    BY <1>3, <2>0, <2>1 DEF Adds
  <2>4. Suspended(c)' /\ Descriptor(c)' = Descriptor(c) /\ Awaiter(c)' = Awaiter(c)
        /\ (Timed(c)' <=> Timed(c))
    BY <2>2, <2>3, SameIs
  <2> QED BY <2>0, <2>1, <2>2, <2>4
<1>4. \A i, j \in DOMAIN pending' :
          pending'[i].type = "Add" /\ pending'[i] = pending'[j] => i = j
  BY <1>0, <1>2 DEF Old, AddInv
<1>5. \A i \in DOMAIN pending' : /\ pending'[i].type = "Unreg" => pending'[i].fd \in Sockets
                                 /\ pending'[i].type = "Del" => pending'[i].fd \in Timers
  BY <1>0, <1>1 DEF Old, Remove, AddInv
<1> QED BY <1>3, <1>4, <1>5 DEF AddInv

LEMMA PostedAdd ==
    ASSUME IInv, NEW c \in Coros, NEW m, m = IF Timed(c) THEN "level" ELSE "oneshot",
           at[c] \in {"running", "arming"}, op[c] <= Len(Plan[c]),
           \A d \in Coros : d # c => Same(d),
           op' = op, try' = try, Suspended(c)', refused' = refused,
           pending' = Append(pending, Add(Descriptor(c), Awaiter(c), m))
    PROVE  /\ AddInv' /\ Add(Descriptor(c), Awaiter(c), m) \in Commands
           /\ \A d \in Coros : d # c /\ op[d] <= Len(Plan[d])
                                  => (HasAdd(Awaiter(d))' <=> HasAdd(Awaiter(d)))
           /\ Queued(c)'
<1>0. TypeOK /\ PlaceInv /\ AddInv /\ pending \in Seq(Commands)
  BY Basics DEF TypeOK
<1> DEFINE x == Add(Descriptor(c), Awaiter(c), m)
           n == Len(pending) + 1
<1>1. /\ Awaiter(c) \in Awaiters /\ Awaiter(c).co = c /\ Descriptor(c) \in Fds
      /\ x \in Commands /\ x.type = "Add" /\ x.tag = Awaiter(c)
  BY <1>0, AwaiterIs, CommandFacts
<1>2. /\ n \in DOMAIN pending' /\ pending'[n] = x
      /\ \A i \in DOMAIN pending : pending'[i] = pending[i]
      /\ \A i \in DOMAIN pending' : i = n \/ i \in DOMAIN pending
  BY <1>0, <1>1, Appended
<1>3. Awaiter(c)' = Awaiter(c) /\ Descriptor(c)' = Descriptor(c) /\ (Timed(c)' <=> Timed(c))
  BY DEF Awaiter, Descriptor, Timed, Current, Operation
<1>4. c \notin refused /\ ~Suspended(c)
  BY <1>0 DEF PlaceInv, Suspended
<1> HIDE DEF x, n
<1>5. \A i \in DOMAIN pending : pending[i].type = "Add" => pending[i].tag.co # c
  BY <1>0, <1>4 DEF AddInv
<1>6. ASSUME NEW i \in DOMAIN pending', pending'[i].type = "Add"
      PROVE  \E e \in Coros :
                /\ e = pending'[i].tag.co /\ Suspended(e)' /\ e \notin refused'
                /\ pending'[i] = Add(Descriptor(e)', Awaiter(e)', IF Timed(e)' THEN "level" ELSE "oneshot")
  <2>0. PICK e : e = pending'[i].tag.co
    BY Zenon
  <2>1. CASE i = n
    <3>1. e = c /\ pending'[i] = x
      BY <2>0, <2>1, <1>1, <1>2
    <3> QED BY <3>1, <2>0, <1>3, <1>4 DEF x
  <2>2. CASE i \in DOMAIN pending
    <3>1. /\ pending'[i] = pending[i] /\ e \in Coros /\ Suspended(e) /\ e \notin refused /\ e # c
          /\ pending[i] = Add(Descriptor(e), Awaiter(e), IF Timed(e) THEN "level" ELSE "oneshot")
      BY <2>0, <2>2, <1>0, <1>2, <1>5, <1>6 DEF AddInv
    <3>2. Suspended(e)' /\ Descriptor(e)' = Descriptor(e) /\ Awaiter(e)' = Awaiter(e)
          /\ (Timed(e)' <=> Timed(e))
      BY <3>1, SameIs
    <3> QED BY <3>1, <3>2, <2>0
  <2> QED BY <2>1, <2>2, <1>2
<1>7. ASSUME NEW i \in DOMAIN pending', NEW j \in DOMAIN pending',
             pending'[i].type = "Add", pending'[i] = pending'[j]
      PROVE  i = j
  <2>1. \A k \in DOMAIN pending' : pending'[k] = x => k = n
    BY <1>1, <1>2, <1>5
  <2> QED BY <1>0, <1>2, <1>7, <2>1 DEF AddInv
<1>8. \A i \in DOMAIN pending' : /\ pending'[i].type = "Unreg" => pending'[i].fd \in Sockets
                                 /\ pending'[i].type = "Del" => pending'[i].fd \in Timers
  BY <1>0, <1>1, <1>2 DEF AddInv
<1>9. AddInv'
  <2>1. \A i, j \in DOMAIN pending' :
            pending'[i].type = "Add" /\ pending'[i] = pending'[j] => i = j
    BY <1>7
  <2>2. \A i \in DOMAIN pending' : pending'[i].type = "Add" =>
            \E e \in Coros :
                /\ e = pending'[i].tag.co /\ Suspended(e)' /\ e \notin refused'
                /\ pending'[i] = Add(Descriptor(e)', Awaiter(e)', IF Timed(e)' THEN "level" ELSE "oneshot")
    BY <1>6
  <2> QED BY <2>1, <2>2, <1>8 DEF AddInv
<1>10. \A d \in Coros : d # c /\ op[d] <= Len(Plan[d])
                           => (HasAdd(Awaiter(d))' <=> HasAdd(Awaiter(d)))
  <2>1. ASSUME NEW d \in Coros, d # c, op[d] <= Len(Plan[d])
        PROVE  HasAdd(Awaiter(d))' <=> HasAdd(Awaiter(d))
    <3>1. Awaiter(d)' = Awaiter(d) /\ Awaiter(d) # Awaiter(c)
      BY <2>1, <1>0, <1>1, AwaiterIs, SameIs
    <3> QED BY <3>1, <1>1, <1>2 DEF HasAdd
  <2> QED BY <2>1
<1>11. Queued(c)'
  BY <1>1, <1>2, <1>3 DEF Queued
<1> QED BY <1>1, <1>9, <1>10, <1>11 DEF x
LEMMA TakenAdd ==
    ASSUME IInv, NEW x, pending # <<>>, x = Head(pending), pending' = Tail(pending),
           \A d \in Coros : Same(d),
           refused' = refused \/ (x.type = "Add" /\ refused' = refused \cup {x.tag.co})
    PROVE  AddInv' /\ (x.type = "Add" => ~HasAdd(x.tag)')
<1>0. AddInv /\ TypeOK
  BY Basics
<1>1. /\ x \in Commands /\ 1 \in DOMAIN pending /\ x = pending[1]
      /\ \A i \in DOMAIN pending' : i + 1 \in DOMAIN pending /\ pending'[i] = pending[i + 1]
                                     /\ i + 1 # 1 /\ i \in Nat
  BY <1>0, TakeHead
<1>2. ASSUME x.type = "Add", NEW i \in DOMAIN pending, pending[i].type = "Add",
             pending[i].tag.co = x.tag.co
      PROVE  i = 1
  <2>1. pending[i] = pending[1]
    BY <1>0, <1>1, <1>2, SMTT(30) DEF AddInv
  <2> QED BY <2>1, <1>0, <1>1, <1>2 DEF AddInv
<1>3. ASSUME NEW i \in DOMAIN pending', pending'[i].type = "Add"
      PROVE  \E c \in Coros :
                /\ c = pending'[i].tag.co /\ Suspended(c)' /\ c \notin refused'
                /\ pending'[i] = Add(Descriptor(c)', Awaiter(c)', IF Timed(c)' THEN "level" ELSE "oneshot")
  <2>1. PICK c \in Coros :
            /\ c = pending[i + 1].tag.co /\ Suspended(c) /\ c \notin refused
            /\ pending[i + 1] = Add(Descriptor(c), Awaiter(c), IF Timed(c) THEN "level" ELSE "oneshot")
    BY <1>0, <1>1, <1>3 DEF AddInv
  <2>2. c \notin refused'
    BY <1>1, <1>2, <1>3, <2>1, ZenonT(60)
  <2>3. Suspended(c)' /\ Descriptor(c)' = Descriptor(c) /\ Awaiter(c)' = Awaiter(c)
        /\ (Timed(c)' <=> Timed(c))
    BY <2>1, SameIs
  <2> QED BY <1>1, <2>1, <2>2, <2>3, ZenonT(60)
<1>4. ASSUME NEW i \in DOMAIN pending', NEW j \in DOMAIN pending',
             pending'[i].type = "Add", pending'[i] = pending'[j]
      PROVE  i = j
  <2>1. i + 1 = j + 1
    BY <1>0, <1>1, <1>4 DEF AddInv
  <2> QED BY <2>1, <1>1
<1>5. \A i \in DOMAIN pending' : /\ pending'[i].type = "Unreg" => pending'[i].fd \in Sockets
                                 /\ pending'[i].type = "Del" => pending'[i].fd \in Timers
  BY <1>0, <1>1 DEF AddInv
<1>6. AddInv'
  BY <1>3, <1>4, <1>5 DEF AddInv
<1>7. ASSUME x.type = "Add", NEW i \in DOMAIN pending', pending'[i].type = "Add",
             pending'[i].tag = x.tag
      PROVE  FALSE
  BY <1>1, <1>2, <1>7
<1> QED BY <1>6, <1>7 DEF HasAdd

-----------------------------------------------------------------------------
LEMMA InitInv == Init => IInv
<1> SUFFICES ASSUME Init PROVE IInv
  OBVIOUS
<1>0. \A c \in Coros : Len(Plan[c]) \in Nat
  BY PlanAssumption
<1>1. \A f \in Fds : callbacks[f] = None /\ armed[f] = "off" /\ ~inbox[f]
  BY DEF Init
<1>2. \A c \in Coros : at[c] = "running" /\ op[c] = 1 /\ timerFd[c] = None
  BY DEF Init
<1>3. /\ pending = <<>> /\ events = {} /\ open = Sockets /\ ticking = {} /\ tail = {}
      /\ early = {} /\ refused = {} /\ calling = FALSE /\ DOMAIN pending = {}
  BY DEF Init
<1>4. TypeOK
  <2>1. pending \in Seq(Commands) /\ faults \in 0 .. MaxFaults
    BY PlanAssumption DEF Init
  <2>2. /\ try \in [Coros -> 0 .. MaxFaults] /\ op \in [Coros -> Nat \ {0}]
        /\ \A c \in Coros : op[c] <= Len(Plan[c]) + 1
    BY <1>0, PlanAssumption DEF Init
  <2>3. armed \in [Fds -> Interests] /\ open \subseteq Fds
    BY FdFacts DEF Init, Interests
  <2> QED BY <2>1, <2>2, <2>3 DEF Init, TypeOK
<1>5. PlaceInv
  BY <1>2, <1>3 DEF PlaceInv
<1>6. AddInv
  BY <1>3 DEF AddInv
<1>7. SocketInv
  BY <1>1, <1>3, FdFacts DEF SocketInv, Leaving, OneUnreg
<1>8. ResumedInv
  BY <1>2 DEF ResumedInv, Suspended
<1>9. TimerInv
  BY <1>1, <1>3, FdFacts DEF TimerInv, Deleted, OneDel
<1>10. OnInv
  BY <1>2 DEF OnInv, On
<1>11. NumberInv
  BY <1>2, <1>3 DEF NumberInv
<1>12. EarlyInv
  BY <1>3, FdFacts DEF EarlyInv
<1> QED BY <1>4, <1>5, <1>6, <1>7, <1>8, <1>9, <1>10, <1>11, <1>12 DEF IInv, SocketsInv, TimersInv
LEMMA SamePending ==
    ASSUME pending' = pending
    PROVE  /\ \A f : (Leaving(f)' <=> Leaving(f)) /\ (Deleted(f)' <=> Deleted(f))
           /\ \A f : (OneUnreg(f)' <=> OneUnreg(f)) /\ (OneDel(f)' <=> OneDel(f))
           /\ \A a : HasAdd(a)' <=> HasAdd(a)
           /\ \A f, a : Released(a, f)' <=> Released(a, f)
<1>1. \A f : (Leaving(f)' <=> Leaving(f)) /\ (Deleted(f)' <=> Deleted(f))
  BY DEF Leaving, Deleted, Unreg, Del
<1>2. \A f : (OneUnreg(f)' <=> OneUnreg(f)) /\ (OneDel(f)' <=> OneDel(f))
  BY DEF OneUnreg, OneDel, Unreg, Del
<1>3. \A a : HasAdd(a)' <=> HasAdd(a)
  BY DEF HasAdd
<1>4. \A f, a : Released(a, f)' <=> Released(a, f)
  BY DEF Released, Unreg
<1> QED BY <1>1, <1>2, <1>3, <1>4

LEMMA SuspendInv ==
    ASSUME IInv, NEW c \in Coros, Suspend(c)
    PROVE  IInv'
<1>0. TypeOK /\ PlaceInv /\ NumberInv /\ pending \in Seq(Commands)
  BY Basics DEF TypeOK
<1>1. /\ at[c] = "running" /\ op[c] <= Len(Plan[c]) /\ ~Timed(c)
      /\ at' = [at EXCEPT ![c] = "suspended"] /\ op' = op /\ try' = try /\ outcome' = outcome
      /\ pending' = Append(pending, Add(Descriptor(c), Awaiter(c), "oneshot"))
      /\ callbacks' = callbacks /\ armed' = armed /\ open' = open /\ events' = events
      /\ calling' = calling /\ ticking' = ticking /\ timerFd' = timerFd /\ tail' = tail
      /\ early' = early /\ inbox' = inbox /\ refused' = refused /\ faults' = faults
  BY DEF Suspend, Going, Timed, Post, Descriptor, timers
<1>2. at'[c] = "suspended" /\ \A d \in Coros : d # c => Same(d)
  BY <1>0, <1>1 DEF TypeOK, Same
<1>3. Awaiter(c)' = Awaiter(c) /\ Descriptor(c)' = Descriptor(c) /\ (Timed(c)' <=> Timed(c))
  BY <1>1 DEF Awaiter, Descriptor, Timed, Current, Operation
<1>4. /\ AddInv' /\ Add(Descriptor(c), Awaiter(c), "oneshot") \in Commands
      /\ \A d \in Coros : d # c /\ op[d] <= Len(Plan[d])
                             => (HasAdd(Awaiter(d))' <=> HasAdd(Awaiter(d)))
      /\ Queued(c)'
  BY <1>1, <1>2, PostedAdd DEF Suspended
<1>5. /\ pending' \in Seq(Commands)
      /\ \A f : (Leaving(f)' <=> Leaving(f)) /\ (Deleted(f)' <=> Deleted(f))
      /\ \A f : (OneUnreg(f) => OneUnreg(f)') /\ (OneDel(f) => OneDel(f)')
      /\ \A f, a : Released(a, f) => Released(a, f)'
  BY <1>0, <1>1, <1>4, CommandFacts, PostAdd
<1>6. TypeOK'
  BY <1>0, <1>1, <1>2, <1>5 DEF TypeOK
<1>7. PlaceInv'
  BY <1>0, <1>1, <1>2, <1>3, SameIs DEF PlaceInv, Same, Suspended
<1>8. \A d \in Coros : at[d] \in {"arming", "suspended", "resumed"} =>
          d # c /\ (HasAdd(Awaiter(d))' <=> HasAdd(Awaiter(d)))
  BY <1>0, <1>1, <1>4 DEF PlaceInv
<1>9. \A a \in Awaiters : Abandoned(a) => Abandoned(a)'
  BY <1>1, <1>2, AwaiterType DEF Abandoned, Same, Operation
<1>10. SocketsInv'
  <2>1. \A d \in Coros :
            Same(d) \/ (~SocketBusy(d) /\ (SocketBusy(d)' => Suspended(d)' /\ Queued(d)'))
    BY <1>1, <1>2, <1>4 DEF SocketBusy, Suspended
  <2>2. \A d \in Coros : SocketBusy(d) => (HasAdd(Awaiter(d))' <=> HasAdd(Awaiter(d)))
    BY <1>8 DEF SocketBusy
  <2> QED BY <1>1, <1>5, <1>6, <1>7, <1>9, <2>1, <2>2, QuietSockets
<1>11. TimersInv'
  <2>1. \A d \in Coros : Same(d) \/ (~TimerBusy(d) /\ ~TimerBusy(d)' /\ op'[d] >= op[d])
    BY <1>0, <1>1, <1>2, <1>3 DEF TimerBusy, TypeOK
  <2>2. \A d \in Coros : TimerBusy(d) => (HasAdd(Awaiter(d))' <=> HasAdd(Awaiter(d)))
    BY <1>8 DEF TimerBusy
  <2> QED BY <1>1, <1>5, <1>6, <1>7, <2>1, <2>2, QuietTimers
<1> QED BY <1>4, <1>6, <1>7, <1>10, <1>11 DEF IInv
(* A coroutine that waits for nothing goes on or ends.                     *)
LEMMA IdleStep ==
    ASSUME IInv, TypeOK', PlaceInv', NEW c \in Coros,
           at[c] \in {"running", "failed"}, at'[c] \in {"running", "done"}, op' = op,
           \A d \in Coros : d # c => Same(d),
           UNCHANGED <<pending, callbacks, events, calling, timers, inbox, refused>>,
           \A f \in Timers : armed'[f] = armed[f] /\ (f \in open' <=> f \in open)
    PROVE  /\ AddInv' /\ TimersInv'
           /\ \A d \in Coros : Same(d) \/ (~SocketBusy(d) /\ ~SocketBusy(d)')
           /\ \A d \in Coros : (SocketBusy(d) \/ TimerBusy(d))
                                  => (HasAdd(Awaiter(d))' <=> HasAdd(Awaiter(d)))
<1>0. TypeOK /\ AddInv
  BY Basics
<1>1. \A d \in Coros : Same(d) \/ (d = c /\ ~SocketBusy(d) /\ ~SocketBusy(d)'
                                      /\ ~TimerBusy(d) /\ ~TimerBusy(d)' /\ ~Adds(d))
  BY <1>0 DEF SocketBusy, TimerBusy, Adds, AddInv, Suspended
<1>2. AddInv'
  BY <1>1, QuietAdds
<1>3. \A d \in Coros : (SocketBusy(d) \/ TimerBusy(d))
                          => (HasAdd(Awaiter(d))' <=> HasAdd(Awaiter(d)))
  BY <1>1, SameIs, SamePending DEF HasAdd
<1>4. \A d \in Coros : op'[d] >= op[d]
  BY <1>0 DEF TypeOK
<1>5. TimersInv'
  BY <1>1, <1>3, <1>4, SamePending, QuietTimers DEF timers
<1> QED BY <1>1, <1>2, <1>3, <1>5

LEMMA RetryInv ==
    ASSUME IInv, NEW c \in Coros, Retry(c)
    PROVE  IInv'
<1>0. TypeOK /\ PlaceInv
  BY Basics
<1>1. /\ at[c] = "failed" /\ try[c] < MaxFaults
      /\ at' = [at EXCEPT ![c] = "running"] /\ try' = [try EXCEPT ![c] = @ + 1]
      /\ UNCHANGED <<table, op, outcome, timers, inbox, refused, faults>>
  BY DEF Retry
<1>2. at'[c] = "running" /\ try'[c] = try[c] + 1 /\ \A d \in Coros : d # c => Same(d)
  BY <1>0, <1>1 DEF TypeOK, Same
<1>3. try[c] \in Nat /\ try'[c] \in 0 .. MaxFaults
  BY <1>0, <1>1, <1>2, PlanAssumption DEF TypeOK
<1>4. TypeOK'
  BY <1>0, <1>1, <1>2, <1>3 DEF TypeOK, table, timers
<1>5. PlaceInv'
  BY <1>0, <1>1, <1>2, SameIs DEF PlaceInv, Same, Suspended
<1>6. \A a \in Awaiters : Abandoned(a) => Abandoned(a)'
  BY <1>1, <1>2, <1>3, AwaiterType DEF Abandoned, Same, Operation
<1>7. /\ AddInv' /\ TimersInv'
      /\ \A d \in Coros : Same(d) \/ (~SocketBusy(d) /\ ~SocketBusy(d)')
      /\ \A d \in Coros : (SocketBusy(d) \/ TimerBusy(d))
                             => (HasAdd(Awaiter(d))' <=> HasAdd(Awaiter(d)))
  BY <1>1, <1>2, <1>4, <1>5, IdleStep DEF table
<1>8. SocketsInv'
  BY <1>1, <1>4, <1>5, <1>6, <1>7, SamePending, QuietSockets DEF table
<1> QED BY <1>4, <1>5, <1>7, <1>8 DEF IInv

LEMMA EndInv ==
    ASSUME IInv, NEW c \in Coros, End(c)
    PROVE  IInv'
<1>0. TypeOK /\ PlaceInv
  BY Basics
<1>1. /\ at[c] = "running" /\ at' = [at EXCEPT ![c] = "done"]
      /\ UNCHANGED <<table, op, try, outcome, timers, inbox, refused, faults>>
  BY DEF End
<1>2. at'[c] = "done" /\ \A d \in Coros : d # c => Same(d)
  BY <1>0, <1>1 DEF TypeOK, Same
<1>3. TypeOK'
  BY <1>0, <1>1, <1>2 DEF TypeOK, table, timers
<1>4. PlaceInv'
  BY <1>0, <1>1, <1>2, SameIs DEF PlaceInv, Same, Suspended
<1>5. \A a \in Awaiters : Abandoned(a) => Abandoned(a)'
  BY <1>1, <1>2, AwaiterType DEF Abandoned, Same, Operation
<1>6. /\ AddInv' /\ TimersInv'
      /\ \A d \in Coros : Same(d) \/ (~SocketBusy(d) /\ ~SocketBusy(d)')
      /\ \A d \in Coros : (SocketBusy(d) \/ TimerBusy(d))
                             => (HasAdd(Awaiter(d))' <=> HasAdd(Awaiter(d)))
  BY <1>1, <1>2, <1>3, <1>4, IdleStep DEF table
<1>7. SocketsInv'
  BY <1>1, <1>3, <1>4, <1>5, <1>6, SamePending, QuietSockets DEF table
<1> QED BY <1>3, <1>4, <1>6, <1>7 DEF IInv
LEMMA GiveUpInv ==
    ASSUME IInv, NEW c \in Coros, GiveUp(c)
    PROVE  IInv'
<1>0. TypeOK /\ PlaceInv
  BY Basics
<1> DEFINE f == Descriptor(c)
<1>1. /\ at[c] = "failed" /\ at' = [at EXCEPT ![c] = "done"]
      /\ UNCHANGED <<op, try, outcome, timers, inbox, refused, faults>>
      /\ UNCHANGED <<pending, callbacks, events, calling>>
      /\ \/ armed' = armed /\ open' = open
         \/ armed' = [armed EXCEPT ![f] = "off"] /\ open' = open \ {f}
  BY DEF GiveUp, CloseFd, table, Descriptor
<1>2. at'[c] = "done" /\ \A d \in Coros : d # c => Same(d)
  BY <1>0, <1>1 DEF TypeOK, Same
<1>3. f \in Sockets
  BY <1>0, <1>1, Basics DEF PlaceInv
<1> HIDE DEF f
<1>4. TypeOK'
  <2>1. armed' \in [Fds -> Interests] /\ open' \subseteq Fds
    BY <1>0, <1>1 DEF TypeOK, Interests
  <2> QED BY <2>1, <1>0, <1>1, <1>2 DEF TypeOK, timers
<1>5. PlaceInv'
  BY <1>0, <1>1, <1>2, SameIs DEF PlaceInv, Same, Suspended
<1>6. \A a \in Awaiters : Abandoned(a) => Abandoned(a)'
  BY <1>1, <1>2, AwaiterType DEF Abandoned, Same, Operation
<1>7. /\ \A g \in Timers : armed'[g] = armed[g] /\ (g \in open' <=> g \in open)
      /\ \A g \in Sockets : \/ armed'[g] = armed[g] /\ (g \in open' <=> g \in open)
                            \/ armed'[g] = "off" /\ g \notin open'
  BY <1>0, <1>1, <1>3, FdFacts DEF TypeOK
<1>8. /\ AddInv' /\ TimersInv'
      /\ \A d \in Coros : Same(d) \/ (~SocketBusy(d) /\ ~SocketBusy(d)')
      /\ \A d \in Coros : (SocketBusy(d) \/ TimerBusy(d))
                             => (HasAdd(Awaiter(d))' <=> HasAdd(Awaiter(d)))
  BY <1>1, <1>2, <1>4, <1>5, <1>7, IdleStep
<1>9. SocketsInv'
  BY <1>1, <1>4, <1>5, <1>6, <1>7, <1>8, SamePending, QuietSockets
<1> QED BY <1>4, <1>5, <1>8, <1>9 DEF IInv

LEMMA ReturnInv ==
    ASSUME IInv, Return
    PROVE  IInv'
<1>0. TypeOK /\ PlaceInv
  BY Basics
<1>1. /\ \A c \in Coros : outcome[c] # "none" => at[c] \in {"suspended", "done"}
      /\ \A a \in tail : a.op = 1
      /\ calling' = FALSE /\ UNCHANGED <<pending, callbacks, armed, open, events>>
      /\ UNCHANGED <<at, op, try, outcome, ticking, timerFd, tail, early, inbox, refused, faults>>
  BY DEF Return, CallbackReturn, coroutines, timers
<1>2. \A d \in Coros : Same(d)
  BY <1>1 DEF Same
<1>3. TypeOK'
  BY <1>0, <1>1 DEF TypeOK
<1>4. PlaceInv'
  BY <1>0, <1>1, <1>2, SameIs DEF PlaceInv, Same
<1>5. \A a \in Awaiters : Abandoned(a) => Abandoned(a)'
  BY <1>1 DEF Abandoned, Operation
<1>6. AddInv'
  BY <1>1, <1>2, QuietAdds
<1>7. \A d \in Coros : HasAdd(Awaiter(d))' <=> HasAdd(Awaiter(d))
  BY <1>1, <1>2, SameIs, SamePending DEF HasAdd
<1>8. SocketsInv'
  BY <1>1, <1>2, <1>3, <1>4, <1>5, <1>7, SamePending, QuietSockets
<1>9. TimersInv'
  BY <1>1, <1>2, <1>3, <1>4, <1>7, SamePending, QuietTimers
<1> QED BY <1>3, <1>4, <1>6, <1>8, <1>9 DEF IInv
LEMMA MakeTimerInv ==
    ASSUME IInv, NEW c \in Coros, MakeTimer(c)
    PROVE  IInv'
<1>f. PICK f : f = Descriptor(c)
  OBVIOUS
<1>0. TypeOK /\ PlaceInv /\ TimerInv /\ OnInv /\ NumberInv /\ EarlyInv
  BY Basics
<1>1. /\ at[c] = "running" /\ op[c] <= Len(Plan[c]) /\ Timed(c) /\ f \notin open
      /\ open' = open \cup {f} /\ ticking' = ticking \cup {f}
      /\ inbox' = [inbox EXCEPT ![f] = FALSE] /\ at' = [at EXCEPT ![c] = "arming"]
      /\ UNCHANGED <<pending, callbacks, armed, events, calling>>
      /\ UNCHANGED <<op, try, outcome, timerFd, tail, early, refused, faults>>
  BY <1>f DEF MakeTimer, Going, OpenFd, Timed, Descriptor
<1>2. at'[c] = "arming" /\ \A d \in Coros : d # c => Same(d)
  BY <1>0, <1>1 DEF TypeOK, Same
<1>3. f \in Timers /\ f \in Fds /\ f \notin Sockets
  BY <1>0, <1>1, <1>f, AwaiterIs, FdFacts
<1>4. Awaiter(c)' = Awaiter(c) /\ Descriptor(c)' = f /\ Timed(c)'
  BY <1>1, <1>f DEF Awaiter, Descriptor, Timed, Current, Operation
<1>5. TypeOK'
  <2>1. open' \subseteq Fds /\ ticking' \subseteq Timers /\ inbox' \in [Fds -> BOOLEAN]
    BY <1>0, <1>1, <1>3 DEF TypeOK
  <2> QED BY <2>1, <1>0, <1>1, <1>2 DEF TypeOK
<1>6. PlaceInv'
  BY <1>0, <1>1, <1>2, <1>4, SameIs DEF PlaceInv, Same, Suspended
<1>7. \A a \in Awaiters : Abandoned(a) => Abandoned(a)'
  BY <1>1, <1>2, AwaiterType DEF Abandoned, Same, Operation
<1>8. AddInv'
  BY <1>1, <1>2, QuietAdds, Basics DEF Adds, AddInv, Suspended
<1>9. SocketsInv'
  <2>1. \A d \in Coros : Same(d) \/ (~SocketBusy(d) /\ ~SocketBusy(d)')
    BY <1>1, <1>2 DEF SocketBusy
  <2>2. \A d \in Coros : SocketBusy(d) => (HasAdd(Awaiter(d))' <=> HasAdd(Awaiter(d)))
    BY <1>1, <2>1, SameIs, SamePending DEF HasAdd
  <2> QED BY <1>1, <1>3, <1>5, <1>6, <1>7, <2>1, <2>2, SamePending, QuietSockets
<1>10. /\ \A d \in Coros, g \in Timers : d # c =>
             /\ On(d, g)' <=> On(d, g)
             /\ at'[d] = at[d] /\ Awaiter(d)' = Awaiter(d) /\ (Queued(d)' <=> Queued(d))
             /\ (Timed(d)' <=> Timed(d)) /\ Descriptor(d)' = Descriptor(d)
       /\ \A g \in Timers : ~On(c, g) /\ (On(c, g)' <=> g = f)
  BY <1>1, <1>2, <1>4, SameIs DEF On, Same, Queued
<1>11. \A g \in Timers : /\ Deleted(g)' <=> Deleted(g)
                         /\ OneDel(g)' <=> OneDel(g)
                         /\ Taken(g)' <=> Taken(g) \/ (g = f)
  <2>1. ~Deleted(f)
    BY <1>0, <1>1, <1>3 DEF TimerInv
  <2> QED BY <2>1, <1>1, SamePending DEF Taken
<1>12. TimerInv'
  <2>1. ASSUME NEW g \in Timers, g # f,  inbox'[g] \/ g \in ticking' \/ g \in events'
        PROVE  \E d \in Coros : at'[d] \in {"arming", "suspended"} /\ On(d, g)'
    <3>1. inbox'[g] = inbox[g] /\ (g \in ticking' <=> g \in ticking)
      BY <2>1, <1>0, <1>1 DEF TypeOK
    <3>2. PICK d \in Coros : at[d] \in {"arming", "suspended"} /\ On(d, g)
      BY <2>1, <3>1, <1>0, <1>1 DEF TimerInv
    <3> QED BY <3>2, <1>10
  <2>2. \A g \in Timers : inbox'[g] => g \notin ticking'
    BY <1>0, <1>1, <1>3, FdFacts DEF TimerInv, TypeOK
  <2>3. \A g \in Timers : OneDel(g)' /\ (Deleted(g)' => g \in open')
    BY <1>0, <1>1, <1>11 DEF TimerInv
  <2>4. at'[c] = "arming" /\ On(c, f)'
    BY <1>2, <1>3, <1>10
  <2>5. \A g \in Timers : g \notin open' => g \notin open
    BY <1>1
  <2>6. \A g \in Timers : /\ armed'[g] \in {"off", "level"}
                          /\ g \notin open' => callbacks'[g] = None /\ armed'[g] = "off"
                          /\ callbacks'[g] # None => Operation(callbacks'[g]).fd = g
                                                    /\ Operation(callbacks'[g]).kind = "timer"
                          /\ armed'[g] = "level" => callbacks'[g] # None
    BY <1>0, <1>1, <2>5 DEF TimerInv
  <2> QED BY <2>1, <2>2, <2>3, <2>4, <2>6 DEF TimerInv, Operation
<1>13. OnInv'
  <2>1. \A d \in Coros : ~On(d, f)
    BY <1>0, <1>1, <1>3 DEF OnInv, Taken
  <2>2. callbacks[f] = None /\ armed[f] = "off"
    BY <1>0, <1>1, <1>3 DEF TimerInv
  <2>3. ASSUME NEW d \in Coros, NEW g \in Timers, On(d, g)', d # c
        PROVE  /\ Taken(g)' /\ \A e \in Coros : On(e, g)' => e = d
               /\ at'[d] = "arming" \/ (at'[d] = "suspended" /\ Queued(d)') =>
                     callbacks'[g] = None /\ armed'[g] = "off"
               /\ at'[d] = "suspended" /\ ~Queued(d)' =>
                     callbacks'[g] = Awaiter(d)' /\ armed'[g] = "level"
    <3>1. On(d, g) /\ g # f
      BY <2>1, <2>3, <1>10
    <3>2. Taken(g)' /\ \A e \in Coros : On(e, g)' => e = d
      BY <3>1, <1>0, <1>10, <1>11 DEF OnInv
    <3>3. at'[d] = at[d] /\ Awaiter(d)' = Awaiter(d) /\ (Queued(d)' <=> Queued(d))
      BY <2>3, <1>10
    <3> QED BY <3>1, <3>2, <3>3, <1>0, <1>1 DEF OnInv
  <2>4. ASSUME NEW g \in Timers, On(c, g)'
        PROVE  g = f /\ Taken(g)' /\ \A e \in Coros : On(e, g)' => e = c
    BY <2>1, <2>4, <1>3, <1>10, <1>11
  <2> QED BY <2>2, <2>3, <2>4, <1>1, <1>2 DEF OnInv
<1>14. NumberInv'
  <2>0. \A a \in tail : /\ a \in Awaiters /\ a.co \in Coros /\ Operation(a).kind = "timer"
                        /\ Operation(a).fd \in Timers /\ a.op \in Nat
    BY <1>0, Basics, AwaiterType DEF NumberInv
  <2>1. ASSUME NEW a \in tail
        PROVE  /\ Operation(a).kind = "timer" /\ Taken(Operation(a).fd)'
               /\ \A d \in Coros : timerFd[d] # Operation(a).fd
               /\ \A d \in Coros : On(d, Operation(a).fd)' => a = Awaiter(d)' /\ at'[d] # "arming"
    <3>1. Taken(Operation(a).fd) /\ Operation(a).fd # f
      BY <1>0, <1>1 DEF NumberInv, Taken
    <3> QED BY <3>1, <2>0, <1>0, <1>10, <1>11 DEF NumberInv
  <2>2. ASSUME NEW a \in tail
        PROVE  /\ a # Awaiter(a.co)' \/ at'[a.co] \notin {"suspended", "resumed"} => a.co \in early
               /\ a.op # 1 => calling' /\ a = Awaiter(a.co)' /\ Suspended(a.co)'
               /\ a.op < op'[a.co] \/ (a.op = op'[a.co] /\ at'[a.co] \in {"suspended", "resumed"})
    <3>1. CASE a.co = c
      BY <3>1, <1>0, <1>1 DEF NumberInv, Suspended
    <3>2. CASE a.co # c
      BY <3>2, <2>0, <1>0, <1>1, <1>2, SameIs DEF NumberInv, Same
    <3> QED BY <3>1, <3>2
  <2>3. ASSUME NEW d \in Coros, timerFd[d] # None
        PROVE  /\ Taken(timerFd[d])'
               /\ \A e \in Coros : On(e, timerFd[d])' => e = d /\ at'[e] # "arming"
    <3>1. timerFd[d] \in Timers /\ Taken(timerFd[d]) /\ timerFd[d] # f
      BY <2>3, <1>0, <1>1 DEF NumberInv, TypeOK, Taken
    <3> QED BY <2>3, <3>1, <1>0, <1>1, <1>10, <1>11 DEF NumberInv
  <2>4. ASSUME NEW d \in Coros, at'[d] \in {"suspended", "resumed"}, Timed(d)',
               Awaiter(d)' \notin tail, timerFd[d] # Descriptor(d)'
        PROVE  d \in early
    BY <2>4, <1>0, <1>2, SameIs DEF NumberInv, Same
  <2> QED BY <2>1, <2>2, <2>3, <2>4, <1>0, <1>1 DEF NumberInv, Operation
<1>15. EarlyInv'
  <2>1. ASSUME NEW g \in Timers, g \in open'
        PROVE  \/ Deleted(g)' \/ \E d \in Coros : On(d, g)'
               \/ \E d \in early : \E o \in DOMAIN Plan[d] : Plan[d][o].fd = g
    <3>1. CASE g = f
      BY <3>1, <1>3, <1>10
    <3>2. CASE g # f
      BY <3>2, <2>1, <1>0, <1>1, <1>10, <1>11 DEF EarlyInv
    <3> QED BY <3>1, <3>2
  <2> QED BY <2>1, <1>0, <1>1 DEF EarlyInv
<1> QED BY <1>5, <1>6, <1>8, <1>9, <1>12, <1>13, <1>14, <1>15 DEF IInv, TimersInv
LEMMA ArmTimerInv ==
    ASSUME IInv, NEW c \in Coros, ArmTimer(c)
    PROVE  IInv'
<1>f. PICK f : f = Descriptor(c)
  OBVIOUS
<1>a. PICK a : a = Awaiter(c)
  OBVIOUS
<1>0. TypeOK /\ PlaceInv /\ TimerInv /\ OnInv /\ NumberInv /\ EarlyInv /\ pending \in Seq(Commands)
  BY Basics DEF TypeOK
<1>1. /\ at[c] = "arming" /\ pending' = Append(pending, Add(f, a, "level"))
      /\ at' = [at EXCEPT ![c] = "suspended"] /\ tail' = tail \cup {a}
      /\ UNCHANGED <<callbacks, armed, open, events, calling>>
      /\ UNCHANGED <<op, try, outcome, ticking, timerFd, early, inbox, refused, faults>>
  BY <1>f, <1>a DEF ArmTimer, Post, Descriptor
<1>2. at'[c] = "suspended" /\ \A d \in Coros : d # c => Same(d)
  BY <1>0, <1>1 DEF TypeOK, Same
<1>3. /\ Timed(c) /\ f \in Timers /\ f \in Fds /\ f \notin Sockets /\ op[c] <= Len(Plan[c])
      /\ a \in Awaiters /\ a.co = c /\ a.op = op[c] /\ Operation(a).kind = "timer"
      /\ Operation(a).fd = f
  BY <1>0, <1>1, <1>f, <1>a, AwaiterIs, FdFacts DEF PlaceInv, Timed, Current, Descriptor
<1>4. Awaiter(c)' = a /\ Descriptor(c)' = f /\ Timed(c)'
  BY <1>1, <1>3, <1>f, <1>a DEF Awaiter, Descriptor, Timed, Current, Operation
<1>5. /\ AddInv' /\ Add(f, a, "level") \in Commands /\ Queued(c)'
      /\ \A d \in Coros : d # c /\ op[d] <= Len(Plan[d])
                             => (HasAdd(Awaiter(d))' <=> HasAdd(Awaiter(d)))
  BY <1>1, <1>2, <1>3, <1>f, <1>a, PostedAdd DEF Suspended
<1>6. /\ pending' \in Seq(Commands)
      /\ \A g : (Leaving(g)' <=> Leaving(g)) /\ (Deleted(g)' <=> Deleted(g))
      /\ \A g : (OneUnreg(g) => OneUnreg(g)') /\ (OneDel(g) => OneDel(g)')
      /\ \A g, b : Released(b, g) => Released(b, g)'
  BY <1>0, <1>1, <1>5, CommandFacts, PostAdd
<1>7. TypeOK'
  BY <1>0, <1>1, <1>2, <1>3, <1>6 DEF TypeOK
<1>8. PlaceInv'
  BY <1>0, <1>1, <1>2, <1>3, <1>4, SameIs DEF PlaceInv, Same, Suspended
<1>9. \A d \in Coros : d # c /\ at[d] \in {"arming", "suspended", "resumed"} =>
          (HasAdd(Awaiter(d))' <=> HasAdd(Awaiter(d)))
  BY <1>0, <1>5 DEF PlaceInv
<1>10. \A b \in Awaiters : Abandoned(b) => Abandoned(b)'
  BY <1>1, <1>2, AwaiterType DEF Abandoned, Same, Operation
<1>11. SocketsInv'
  <2>1. \A d \in Coros : Same(d) \/ (~SocketBusy(d) /\ ~SocketBusy(d)')
    BY <1>2, <1>3, <1>4 DEF SocketBusy
  <2>2. \A d \in Coros : SocketBusy(d) => (HasAdd(Awaiter(d))' <=> HasAdd(Awaiter(d)))
    BY <1>1, <1>9 DEF SocketBusy
  <2> QED BY <1>1, <1>6, <1>7, <1>8, <1>10, <2>1, <2>2, QuietSockets
<1>12. /\ \A d \in Coros, g \in Timers : d # c /\ On(d, g) =>
             at'[d] = at[d] /\ Awaiter(d)' = Awaiter(d) /\ (Queued(d)' <=> Queued(d))
       /\ \A d \in Coros, g \in Timers : On(d, g)' <=> On(d, g)
       /\ \A g \in Timers : On(c, g) <=> g = f
       /\ \A g : Taken(g)' <=> Taken(g)
  <2>1. \A d \in Coros, g \in Timers : d # c /\ On(d, g) =>
            at'[d] = at[d] /\ Awaiter(d)' = Awaiter(d) /\ (Queued(d)' <=> Queued(d))
    BY <1>2, <1>9, SameIs DEF On, Same, Queued, HasAdd
  <2>2. \A g \in Timers : (On(c, g) <=> g = f) /\ (On(c, g)' <=> g = f)
    BY <1>1, <1>2, <1>3, <1>4, <1>f DEF On
  <2>3. \A d \in Coros, g \in Timers : d # c => (On(d, g)' <=> On(d, g))
    BY <1>2, SameIs
  <2> QED BY <2>1, <2>2, <2>3, <1>1, <1>6 DEF Taken
<1>13. TimerInv'
  <2>1. ASSUME NEW g \in Timers, inbox'[g] \/ g \in ticking' \/ g \in events'
        PROVE  \E d \in Coros : at'[d] \in {"arming", "suspended"} /\ On(d, g)'
    <3>1. PICK d \in Coros : at[d] \in {"arming", "suspended"} /\ On(d, g)
      BY <2>1, <1>0, <1>1 DEF TimerInv
    <3> QED BY <3>1, <1>2, <1>12
  <2> QED BY <2>1, <1>0, <1>1, <1>6 DEF TimerInv, Operation
<1>14. OnInv'
  <2>1. ASSUME NEW d \in Coros, NEW g \in Timers, On(d, g)'
        PROVE  /\ Taken(g)' /\ \A e \in Coros : On(e, g)' => e = d
               /\ at'[d] = "arming" \/ (at'[d] = "suspended" /\ Queued(d)') =>
                     callbacks'[g] = None /\ armed'[g] = "off"
               /\ at'[d] = "suspended" /\ ~Queued(d)' =>
                     callbacks'[g] = Awaiter(d)' /\ armed'[g] = "level"
    <3>1. On(d, g) /\ Taken(g)' /\ \A e \in Coros : On(e, g)' => e = d
      BY <2>1, <1>0, <1>12 DEF OnInv
    <3>2. CASE d = c
      BY <3>1, <3>2, <1>0, <1>1, <1>2, <1>5, <1>12 DEF OnInv
    <3>3. CASE d # c
      BY <3>1, <3>3, <1>0, <1>1, <1>12 DEF OnInv
    <3> QED BY <3>1, <3>2, <3>3
  <2> QED BY <2>1 DEF OnInv
<1>15. NumberInv'
  <2>0. On(c, f) /\ Taken(f) /\ \A d \in Coros : On(d, f) => d = c
    BY <1>0, <1>3, <1>12 DEF OnInv
  <2>1. \A b \in tail : Operation(b).fd # f /\ b # a
    BY <2>0, <1>0, <1>1, <1>3 DEF NumberInv
  <2>2. \A d \in Coros : timerFd[d] # f
    BY <2>0, <1>0, <1>1, <1>3, FdFacts DEF NumberInv
  <2>3. ASSUME NEW b \in tail
        PROVE  /\ b \in Awaiters /\ b.co \in Coros /\ Operation(b).kind = "timer"
               /\ Operation(b).fd \in Timers /\ Taken(Operation(b).fd)'
               /\ \A d \in Coros : timerFd[d] # Operation(b).fd
               /\ \A d \in Coros : On(d, Operation(b).fd)' => b = Awaiter(d)' /\ at'[d] # "arming"
    <3>1. b \in Awaiters /\ b.co \in Coros /\ Operation(b).kind = "timer" /\ Operation(b).fd \in Timers
      BY <1>0, Basics, AwaiterType DEF NumberInv
    <3>2. \A d \in Coros : On(d, Operation(b).fd) => d # c
      BY <3>1, <2>1, <1>12
    <3> QED BY <3>1, <3>2, <1>0, <1>12 DEF NumberInv
  <2>4. ASSUME NEW b \in tail
        PROVE  /\ b # Awaiter(b.co)' \/ at'[b.co] \notin {"suspended", "resumed"} => b.co \in early
               /\ b.op # 1 => calling' /\ b = Awaiter(b.co)' /\ Suspended(b.co)'
               /\ b.op < op'[b.co] \/ (b.op = op'[b.co] /\ at'[b.co] \in {"suspended", "resumed"})
    <3>1. CASE b.co = c
      BY <3>1, <1>0, <1>1 DEF NumberInv, Suspended
    <3>2. CASE b.co # c
      BY <3>2, <2>3, <1>0, <1>1, <1>2, SameIs DEF NumberInv, Same
    <3> QED BY <3>1, <3>2
  <2>5. /\ a # Awaiter(a.co)' \/ at'[a.co] \notin {"suspended", "resumed"} => a.co \in early
        /\ a.op # 1 => calling' /\ a = Awaiter(a.co)' /\ Suspended(a.co)'
        /\ a.op < op'[a.co] \/ (a.op = op'[a.co] /\ at'[a.co] \in {"suspended", "resumed"})
    <3>1. op[c] # 1 => calling
      BY <1>0, <1>1 DEF PlaceInv, TypeOK
    <3> QED BY <3>1, <1>1, <1>2, <1>3, <1>4 DEF Suspended
  <2>6. \A d \in Coros : On(d, f)' => a = Awaiter(d)' /\ at'[d] # "arming"
    BY <2>0, <1>2, <1>3, <1>4, <1>12
  <2>7. ASSUME NEW d \in Coros, timerFd[d] # None
        PROVE  /\ Taken(timerFd[d])'
               /\ \A e \in Coros : On(e, timerFd[d])' => e = d /\ at'[e] # "arming"
    <3>1. timerFd[d] \in Timers /\ Taken(timerFd[d]) /\ timerFd'[d] = timerFd[d]
      BY <2>7, <1>0, <1>1 DEF NumberInv, TypeOK
    <3> QED BY <2>2, <2>7, <3>1, <1>0, <1>12 DEF NumberInv
  <2>8. ASSUME NEW d \in Coros, at'[d] \in {"suspended", "resumed"}, Timed(d)',
               Awaiter(d)' \notin tail', timerFd[d] # Descriptor(d)'
        PROVE  d \in early
    BY <2>8, <1>0, <1>1, <1>2, <1>4, SameIs DEF NumberInv, Same
  <2>9. \A b \in tail' : b = a \/ b \in tail
    BY <1>1
  <2>10. Taken(f)'
    BY <2>0, <1>12
  <2>11. \A b \in tail' :
            /\ Operation(b).kind = "timer" /\ Taken(Operation(b).fd)'
            /\ \A d \in Coros : timerFd'[d] # Operation(b).fd
            /\ \A d \in Coros : On(d, Operation(b).fd)' => b = Awaiter(d)' /\ at'[d] # "arming"
            /\ b # Awaiter(b.co)' \/ at'[b.co] \notin {"suspended", "resumed"} => b.co \in early'
            /\ b.op # 1 => calling' /\ b = Awaiter(b.co)' /\ Suspended(b.co)'
            /\ b.op < op'[b.co] \/ (b.op = op'[b.co] /\ at'[b.co] \in {"suspended", "resumed"})
    BY <2>2, <2>3, <2>4, <2>5, <2>6, <2>9, <2>10, <1>1, <1>3
  <2>12. \A b, e \in tail' : Operation(b).fd = Operation(e).fd => b = e
    BY <2>1, <2>9, <1>0, <1>3 DEF NumberInv
  <2> QED BY <2>7, <2>8, <2>11, <2>12, <1>0, <1>1 DEF NumberInv, Operation
<1>16. EarlyInv'
  BY <1>0, <1>1, <1>6, <1>12 DEF EarlyInv
<1> QED BY <1>5, <1>7, <1>8, <1>11, <1>13, <1>14, <1>15, <1>16 DEF IInv, TimersInv
(* When no coroutine moves and nothing is posted or executed.              *)
LEMMA NobodyMoves ==
    ASSUME IInv, UNCHANGED <<table, coroutines, refused>>
    PROVE  /\ \A d \in Coros : Same(d) /\ Awaiter(d)' = Awaiter(d) /\ Descriptor(d)' = Descriptor(d)
                               /\ (Timed(d)' <=> Timed(d)) /\ (Queued(d)' <=> Queued(d))
                               /\ (Suspended(d)' <=> Suspended(d))
           /\ \A d \in Coros : \A g : On(d, g)' <=> On(d, g)
           /\ \A g : (Taken(g)' <=> Taken(g)) /\ (Deleted(g)' <=> Deleted(g)) /\ (OneDel(g)' <=> OneDel(g))
           /\ PlaceInv' /\ AddInv' /\ OnInv'
           /\ TypeOK' => SocketsInv'
<1>0. TypeOK /\ PlaceInv /\ AddInv /\ OnInv
  BY Basics
<1>1. \A d \in Coros : Same(d)
  BY DEF Same, coroutines
<1>2. \A d \in Coros : /\ Awaiter(d)' = Awaiter(d) /\ Descriptor(d)' = Descriptor(d)
                       /\ (Timed(d)' <=> Timed(d)) /\ (Suspended(d)' <=> Suspended(d))
  BY <1>1, SameIs
<1>3. \A d \in Coros : \A g : On(d, g)' <=> On(d, g)
  BY <1>1, SameIs
<1>4. /\ \A g : (Leaving(g)' <=> Leaving(g)) /\ (OneUnreg(g)' <=> OneUnreg(g))
      /\ \A g : (Deleted(g)' <=> Deleted(g)) /\ (OneDel(g)' <=> OneDel(g))
      /\ \A b : HasAdd(b)' <=> HasAdd(b)
      /\ \A g, b : Released(b, g)' <=> Released(b, g)
  BY SamePending DEF table
<1>5. \A d \in Coros : (Queued(d)' <=> Queued(d)) /\ (HasAdd(Awaiter(d))' <=> HasAdd(Awaiter(d)))
  BY <1>2, <1>4 DEF Queued, HasAdd
<1>6. \A g : Taken(g)' <=> Taken(g)
  BY <1>4 DEF Taken, table
<1>7. PlaceInv'
  BY <1>0, <1>2 DEF PlaceInv, coroutines, Suspended
<1>8. AddInv'
  BY <1>1, QuietAdds DEF table
<1>9. OnInv'
  <2>1. /\ \A d \in Coros : at'[d] = at[d]
        /\ \A g : callbacks'[g] = callbacks[g] /\ armed'[g] = armed[g]
    BY DEF coroutines, table
  <2> QED BY <2>1, <1>0, <1>2, <1>3, <1>5, <1>6 DEF OnInv
<1>10. \A a \in Awaiters : Abandoned(a) => Abandoned(a)'
  BY DEF Abandoned, Operation, coroutines
<1>11. TypeOK' => SocketsInv'
  BY <1>1, <1>4, <1>5, <1>7, <1>10, QuietSockets DEF table
<1> QED BY <1>1, <1>2, <1>3, <1>4, <1>5, <1>6, <1>7, <1>8, <1>9, <1>11

LEMMA ExpireInv ==
    ASSUME IInv, NEW f \in Timers, Expire(f)
    PROVE  IInv'
<1>0. TypeOK /\ TimerInv /\ NumberInv /\ EarlyInv /\ f \in Fds
  BY Basics, FdFacts
<1>1. /\ f \in ticking /\ ticking' = ticking \ {f} /\ inbox' = [inbox EXCEPT ![f] = TRUE]
      /\ UNCHANGED <<table, coroutines, refused>>
      /\ UNCHANGED <<pending, callbacks, armed, open, events, calling>>
      /\ UNCHANGED <<at, op, try, outcome, timerFd, tail, early, faults>>
  BY DEF Expire, table, coroutines
<1>2. TypeOK'
  BY <1>0, <1>1 DEF TypeOK
<1>3. /\ \A d \in Coros : Same(d) /\ Awaiter(d)' = Awaiter(d) /\ Descriptor(d)' = Descriptor(d)
                          /\ (Timed(d)' <=> Timed(d)) /\ (Suspended(d)' <=> Suspended(d))
      /\ \A d \in Coros : \A g : On(d, g)' <=> On(d, g)
      /\ \A g : (Taken(g)' <=> Taken(g)) /\ (Deleted(g)' <=> Deleted(g)) /\ (OneDel(g)' <=> OneDel(g))
      /\ PlaceInv' /\ AddInv' /\ OnInv' /\ SocketsInv'
  BY <1>1, <1>2, NobodyMoves
<1>4. TimerInv'
  <2>1. ASSUME NEW g \in Timers
        PROVE  /\ inbox'[g] => g \notin ticking'
               /\ inbox'[g] \/ g \in ticking' \/ g \in events' =>
                     \E c \in Coros : at'[c] \in {"arming", "suspended"} /\ On(c, g)'
    <3>1. inbox'[g] \/ g \in ticking' => inbox[g] \/ g \in ticking
      BY <1>0, <1>1 DEF TypeOK
    <3>2. inbox'[g] => g \notin ticking'
      BY <1>0, <1>1 DEF TypeOK, TimerInv
    <3> QED BY <3>1, <3>2, <1>0, <1>1, <1>3 DEF TimerInv
  <2> QED BY <2>1, <1>0, <1>1, <1>3 DEF TimerInv, Operation
<1>5. NumberInv'
  <2>1. \A a \in tail : Operation(a).fd' = Operation(a).fd /\ a.co \in Coros
    BY Basics DEF Operation
  <2> QED BY <2>1, <1>0, <1>1, <1>3 DEF NumberInv, Operation
<1>6. EarlyInv'
  BY <1>0, <1>1, <1>3 DEF EarlyInv
<1> QED BY <1>2, <1>3, <1>4, <1>5, <1>6 DEF IInv, TimersInv

LEMMA AssignInv ==
    ASSUME IInv, NEW a \in tail, Assign(a)
    PROVE  IInv'
<1>c. PICK c : c = a.co
  OBVIOUS
<1>f. PICK f : f = Operation(a).fd
  OBVIOUS
<1>0. TypeOK /\ TimerInv /\ NumberInv /\ EarlyInv
  BY Basics
<1>1. /\ tail' = tail \ {a}
      /\ \/ timerFd' = [timerFd EXCEPT ![c] = f]
         \/ timerFd' = timerFd /\ ~(a = Awaiter(c) /\ at[c] \in {"suspended", "resumed"})
      /\ UNCHANGED <<table, coroutines, refused>>
      /\ UNCHANGED <<pending, callbacks, armed, open, events, calling>>
      /\ UNCHANGED <<at, op, try, outcome, ticking, early, inbox, faults>>
  BY <1>c, <1>f DEF Assign, table, coroutines
<1>2. /\ a \in Awaiters /\ c \in Coros /\ Operation(a).kind = "timer" /\ f \in Timers
      /\ \A b \in tail : b \in Awaiters /\ b.co \in Coros
  BY <1>0, <1>c, <1>f, Basics, AwaiterType DEF NumberInv
<1>3. TypeOK'
  BY <1>0, <1>1, <1>2, ZenonT(60) DEF TypeOK
<1>4. /\ \A d \in Coros : Same(d) /\ Awaiter(d)' = Awaiter(d) /\ Descriptor(d)' = Descriptor(d)
                          /\ (Timed(d)' <=> Timed(d)) /\ (Suspended(d)' <=> Suspended(d))
      /\ \A d \in Coros : \A g : On(d, g)' <=> On(d, g)
      /\ \A g : (Taken(g)' <=> Taken(g)) /\ (Deleted(g)' <=> Deleted(g)) /\ (OneDel(g)' <=> OneDel(g))
      /\ PlaceInv' /\ AddInv' /\ OnInv' /\ SocketsInv'
  BY <1>1, <1>3, NobodyMoves
<1>5. TimerInv'
  BY <1>0, <1>1, <1>4 DEF TimerInv, Operation
<1>6. EarlyInv'
  BY <1>0, <1>1, <1>4 DEF EarlyInv
<1>7. NumberInv'
  <2>1. \A d \in Coros : \/ timerFd'[d] = timerFd[d]
                         \/ d = c /\ timerFd'[d] = f
    BY <1>0, <1>1, <1>2 DEF TypeOK
  <2>2. /\ Taken(f) /\ \A d \in Coros : timerFd[d] # f
        /\ \A d \in Coros : On(d, f) => d = c /\ at[d] # "arming"
    <3>1. /\ Taken(f) /\ \A d \in Coros : timerFd[d] # f
          /\ \A d \in Coros : On(d, f) => a = Awaiter(d) /\ at[d] # "arming"
      BY <1>0, <1>f DEF NumberInv
    <3>2. \A d \in Coros : a = Awaiter(d) => d = c
      BY <1>c DEF Awaiter
    <3> QED BY <3>1, <3>2
  <2>3. \A b \in tail' : b \in tail /\ b # a /\ Operation(b).fd # f
    BY <1>0, <1>1, <1>f DEF NumberInv
  <2>4. \A b \in tail' :
            /\ Operation(b).kind = "timer" /\ Taken(Operation(b).fd)'
            /\ \A d \in Coros : timerFd'[d] # Operation(b).fd
            /\ \A d \in Coros : On(d, Operation(b).fd)' => b = Awaiter(d)' /\ at'[d] # "arming"
            /\ b # Awaiter(b.co)' \/ at'[b.co] \notin {"suspended", "resumed"} => b.co \in early'
            /\ b.op # 1 => calling' /\ b = Awaiter(b.co)' /\ Suspended(b.co)'
            /\ b.op < op'[b.co] \/ (b.op = op'[b.co] /\ at'[b.co] \in {"suspended", "resumed"})
    BY <2>1, <2>3, <1>0, <1>1, <1>2, <1>4 DEF NumberInv
  <2>5. \A b, e \in tail' : Operation(b).fd = Operation(e).fd => b = e
    BY <2>3, <1>0 DEF NumberInv
  <2>6. ASSUME NEW d \in Coros, NEW n \in Timers, timerFd'[d] = n
        PROVE  /\ Taken(n)'
               /\ \A e \in Coros : On(e, n)' => e = d /\ at'[e] # "arming"
               /\ \A e \in Coros : timerFd'[e] = n => e = d
    <3>1. CASE d = c /\ n = f
      BY <3>1, <2>1, <2>2, <1>1, <1>4
    <3>2. CASE timerFd[d] = n
      <4>1. n # None /\ n # f
        BY <3>2, <2>2, FdFacts
      <4>2. /\ Taken(n)
            /\ \A e \in Coros : On(e, n) => e = d /\ at[e] # "arming"
            /\ \A e \in Coros : timerFd[e] = n => e = d
        BY <3>2, <4>1, <1>0 DEF NumberInv
      <4> QED BY <4>1, <4>2, <2>1, <1>1, <1>4
    <3> QED BY <3>1, <3>2, <2>1, <2>6
  <2>7. ASSUME NEW d \in Coros, timerFd'[d] # None
        PROVE  /\ Taken(timerFd[d])'
               /\ \A e \in Coros : On(e, timerFd[d])' => e = d /\ at'[e] # "arming"
               /\ \A e \in Coros : timerFd'[e] = timerFd'[d] => e = d
    <3>1. timerFd'[d] \in Timers
      BY <2>7, <1>3 DEF TypeOK
    <3> QED BY <3>1, <2>6
  <2>8. ASSUME NEW d \in Coros, at'[d] \in {"suspended", "resumed"}, Timed(d)',
               Awaiter(d)' \notin tail', timerFd'[d] # Descriptor(d)'
        PROVE  d \in early
    <3>1. at[d] \in {"suspended", "resumed"} /\ Timed(d) /\ Awaiter(d) \notin tail'
          /\ timerFd'[d] # Descriptor(d)
      BY <2>8, <1>1, <1>4
    <3>2. CASE Awaiter(d) = a
      <4>1. d = c /\ f = Descriptor(d)
        BY <3>2, <1>c, <1>f DEF Awaiter, Descriptor, Current
      <4> QED BY <3>1, <3>2, <4>1, <1>0, <1>1, <1>2 DEF TypeOK
    <3>3. CASE Awaiter(d) # a
      <4>1. Awaiter(d) \notin tail
        BY <3>1, <3>3, <1>1
      <4>2. CASE d = c
        BY <4>2, <3>3, <1>0, <1>c DEF NumberInv
      <4>3. CASE d # c
        BY <4>1, <4>3, <3>1, <2>1, <1>0 DEF NumberInv
      <4> QED BY <4>2, <4>3
    <3> QED BY <3>2, <3>3
  <2> QED BY <2>4, <2>5, <2>7, <2>8, <1>1 DEF NumberInv, Operation
<1> QED BY <1>3, <1>4, <1>5, <1>6, <1>7 DEF IInv, TimersInv
(* await_resume of a read or a write.                                      *)
LEMMA SocketResumeInv ==
    ASSUME IInv, NEW c \in Coros, AwaitResume(c), ~Timed(c)
    PROVE  IInv'
<1>f. PICK f : f = Descriptor(c)
  OBVIOUS
<1>a. PICK a : a = Awaiter(c)
  OBVIOUS
<1>0. TypeOK /\ PlaceInv /\ AddInv /\ SocketInv /\ ResumedInv /\ pending \in Seq(Commands)
  BY Basics DEF TypeOK
<1>1. /\ at[c] = "resumed" /\ UNCHANGED <<outcome, ticking, tail, inbox, refused, faults>>
      /\ UNCHANGED <<callbacks, armed, open, events, calling>> /\ early' = early
      /\ \/ pending' = Append(pending, Unreg(f))
         \/ pending' = pending /\ Current(c).kind = "read" /\ outcome[c] = "error"
      /\ \/ outcome[c] = "ok" /\ at' = [at EXCEPT ![c] = "running"]
            /\ op' = [op EXCEPT ![c] = @ + 1] /\ try' = [try EXCEPT ![c] = 0]
         \/ outcome[c] # "ok" /\ at' = [at EXCEPT ![c] = "failed"] /\ op' = op /\ try' = try
      /\ timerFd' = [timerFd EXCEPT ![c] = None]
  BY <1>f DEF AwaitResume, GiveBack, Post, table, Timed, Descriptor
<1>2. /\ \A d \in Coros : d # c => Same(d)
      /\ at'[c] \in {"running", "failed"} /\ op'[c] \in Nat \ {0} /\ op'[c] <= Len(Plan[c]) + 1
      /\ op'[c] >= op[c] /\ (op'[c] = op[c] => at'[c] = "failed" /\ try'[c] = try[c])
      /\ try'[c] \in 0 .. MaxFaults
  <2>1. op[c] \in Nat \ {0} /\ try[c] \in 0 .. MaxFaults /\ 0 \in 0 .. MaxFaults
    BY <1>0, PlanAssumption DEF TypeOK
  <2>2. op[c] <= Len(Plan[c]) /\ Len(Plan[c]) \in Nat
    BY <1>0, <1>1, PlanAssumption DEF PlaceInv
  <2> QED BY <2>1, <2>2, <1>0, <1>1 DEF TypeOK, Same
<1>3. /\ f \in Sockets /\ f \in Fds /\ a \in Awaiters /\ a # None /\ a.co = c /\ a.op = op[c]
      /\ a.try = try[c] /\ Operation(a).fd = f /\ Operation(a) = Current(c)
      /\ Unreg(f) \in Commands
  BY <1>1, <1>f, <1>a, Basics, FdFacts, CommandFacts DEF Descriptor, Current
<1>4. callbacks[f] = a /\ armed[f] # "oneshot" /\ f \notin events /\ ~Leaving(f)
  BY <1>0, <1>1, <1>f, <1>a DEF ResumedInv
<1>5. /\ pending' \in Seq(Commands)
      /\ \A g : (Leaving(g)' => Leaving(g) \/ g = f) /\ (Leaving(g) => Leaving(g)')
      /\ \A g : (Deleted(g)' <=> Deleted(g)) /\ (OneDel(g) => OneDel(g)')
      /\ \A g : OneUnreg(g) => OneUnreg(g)'
      /\ \A b : HasAdd(b)' <=> HasAdd(b)
      /\ \A g, b : Released(b, g) => Released(b, g)'
      /\ pending' # pending => Released(a, f)'
  <2>1. CASE pending' = pending
    BY <2>1, <1>0, SamePending
  <2>2. CASE pending' = Append(pending, Unreg(f))
    <3>1. /\ Unreg(f).type = "Unreg"
          /\ \A g : (Unreg(f) = Unreg(g) => g = f) /\ Unreg(f) # Del(g)
      BY DEF Unreg, Del
    <3>2. \A i \in DOMAIN pending : pending[i].type = "Add" => pending[i].tag.co # a.co
      BY <1>0, <1>1, <1>3 DEF AddInv, Suspended
    <3>3. /\ pending' \in Seq(Commands)
          /\ \A g : /\ Leaving(g)' <=> (Leaving(g) \/ Unreg(f) = Unreg(g))
                    /\ Deleted(g)' <=> (Deleted(g) \/ Unreg(f) = Del(g))
          /\ \A g : /\ OneUnreg(g) /\ ~(Unreg(f) = Unreg(g) /\ Leaving(g)) => OneUnreg(g)'
                    /\ OneDel(g) /\ ~(Unreg(f) = Del(g) /\ Deleted(g)) => OneDel(g)'
          /\ \A b : HasAdd(b)' <=> HasAdd(b)
          /\ \A g, b : Released(b, g) => Released(b, g)'
          /\ \A g, b : Unreg(f) = Unreg(g) /\ (\A i \in DOMAIN pending :
                              pending[i].type = "Add" => pending[i].tag.co # b.co)
                          => Released(b, g)'
      BY <2>2, <3>1, <1>0, <1>3, PostRemoval
    <3> QED BY <3>1, <3>2, <3>3, <1>4
  <2> QED BY <2>1, <2>2, <1>1
<1>6. TypeOK'
  <2>1. /\ at' \in [Coros -> {"running", "arming", "suspended", "resumed", "failed", "done"}]
        /\ op' \in [Coros -> Nat \ {0}] /\ \A d \in Coros : op'[d] <= Len(Plan[d]) + 1
        /\ try' \in [Coros -> 0 .. MaxFaults]
    BY <1>0, <1>1, <1>2 DEF TypeOK
  <2>2. timerFd' \in [Coros -> Timers \cup {None}]
    BY <1>0, <1>1 DEF TypeOK
  <2>3. \A d \in Coros : outcome'[d] # "none" /\ at'[d] \notin {"suspended", "done"} => calling'
    BY <1>0, <1>1, <1>2 DEF TypeOK, Same
  <2> QED BY <2>1, <2>2, <2>3, <1>0, <1>1, <1>5 DEF TypeOK
<1>7. PlaceInv'
  <2>1. op'[c] = op[c] => (Timed(c)' <=> Timed(c))
    BY <1>2 DEF Timed, Current, Awaiter, Operation
  <2>2. /\ at'[c] = "failed" => op'[c] <= Len(Plan[c]) /\ ~Timed(c)'
        /\ outcome'[c] = "none" => op'[c] = 1
        /\ c \notin refused'
    BY <2>1, <1>0, <1>1, <1>2 DEF PlaceInv, Suspended, TypeOK
  <2> QED BY <2>2, <1>0, <1>1, <1>2, SameIs DEF PlaceInv, Same
<1>8. AddInv'
  <2>1. ~Adds(c)
    BY <1>0, <1>1 DEF Adds, AddInv, Suspended
  <2>2. Unreg(f).type = "Unreg" /\ Unreg(f).fd = f
    BY CommandFacts
  <2> QED BY <2>1, <2>2, <1>1, <1>2, <1>3, QuietAdds
<1>9. \A d \in Coros : d # c => /\ Queued(d)' <=> Queued(d)
                                /\ HasAdd(Awaiter(d))' <=> HasAdd(Awaiter(d))
  BY <1>2, <1>5, SameIs, SMTT(30) DEF Queued, HasAdd
<1>10. SocketInv'
  <2>1. ASSUME NEW g \in Sockets, g # f, callbacks[g] # None
        PROVE  \/ Waits(callbacks[g])' \/ Resumed(callbacks[g])'
               \/ Released(callbacks[g], g)' \/ Abandoned(callbacks[g])'
    <3>b. PICK b : b = callbacks[g]
      OBVIOUS
    <3>1. /\ b \in Awaiters /\ b.co \in Coros /\ Operation(b).fd = g /\ callbacks'[g] = b
          /\ (Waits(b) \/ Resumed(b) \/ Released(b, g) \/ Abandoned(b)) /\ g \in Fds
      BY <2>1, <3>b, <1>0, <1>1, Basics, FdFacts DEF SocketInv
    <3>2. CASE b.co # c
      <4>1. Same(b.co) /\ (Queued(b.co)' <=> Queued(b.co))
        BY <3>1, <3>2, <1>2, <1>9
      <4>2. Waits(b) => Waits(b)'
        BY <4>1, <3>1, <1>1, SameIs DEF Waits
      <4>3. Resumed(b) => Resumed(b)'
        BY <4>1, <3>1, SameIs DEF Resumed, Same
      <4>4. Abandoned(b) => Abandoned(b)'
        BY <4>1, <3>1 DEF Abandoned, Same, Operation
      <4>5. /\ Waits(b)' => Waits(callbacks[g])'
            /\ Resumed(b)' => Resumed(callbacks[g])'
            /\ Abandoned(b)' => Abandoned(callbacks[g])'
            /\ Released(b, g)' => Released(callbacks[g], g)'
        BY <3>1
      <4> QED BY <4>2, <4>3, <4>4, <4>5, <3>1, <1>5
    <3>3. CASE b.co = c
      <4>1. ~Waits(b) /\ ~Resumed(b)
        BY <3>1, <3>3, <2>1, <1>1, <1>3, <1>a DEF Waits, Resumed, Suspended
      <4>2. ~Abandoned(b)
        BY <3>1, <3>3, <2>1, <1>3 DEF Abandoned, Operation
      <4>3. Released(b, g)' => Released(callbacks[g], g)'
        BY <3>1
      <4> QED BY <4>1, <4>2, <4>3, <3>1, <1>5
    <3> QED BY <3>2, <3>3
  <2>2. Released(callbacks[f], f)' \/ Abandoned(callbacks[f])'
    <3>1. callbacks'[f] = a
      BY <1>1, <1>4
    <3>2. CASE pending' # pending
      <4>1. Released(a, f)'
        BY <3>2, <1>5
      <4> QED BY <4>1, <3>1
    <3>3. CASE pending' = pending
      <4>1. pending # Append(pending, Unreg(f))
        BY <1>0, Appended, <1>3
      <4>2. Current(c).kind = "read" /\ at'[c] = "failed" /\ op'[c] = op[c] /\ try'[c] = try[c]
        BY <4>1, <3>3, <1>0, <1>1 DEF TypeOK
      <4>3. try[c] <= try[c]
        BY <1>0, PlanAssumption DEF TypeOK
      <4> QED BY <3>1, <4>2, <4>3, <1>3 DEF Abandoned, Operation
    <3> QED BY <3>2, <3>3
  <2>3. ASSUME NEW g \in Sockets, armed[g] = "oneshot" \/ g \in events
        PROVE  callbacks[g] # None /\ Waits(callbacks[g])' /\ ~Leaving(g)'
    <3>b. PICK b : b = callbacks[g]
      OBVIOUS
    <3>1. /\ b # None /\ Waits(b) /\ ~Leaving(g) /\ g # f /\ callbacks'[g] = b
          /\ b \in Awaiters /\ b.co \in Coros
      BY <2>3, <3>b, <1>0, <1>1, <1>4, Basics, FdFacts DEF SocketInv
    <3>2. Same(b.co) /\ (Queued(b.co)' <=> Queued(b.co))
      BY <3>1, <1>1, <1>2, <1>9 DEF Waits, Suspended
    <3>3. Waits(b)'
      BY <3>1, <3>2, <1>1, SameIs DEF Waits
    <3>4. Waits(b)' => Waits(callbacks[g])'
      BY <3>1
    <3> QED BY <3>1, <3>3, <3>4, <3>b, <1>5
  <2>4. \A g \in Sockets : /\ armed'[g] \in {"off", "oneshot", "disabled"}
                           /\ g \notin open' => armed'[g] = "off"
                           /\ g \in open' => (armed'[g] = "off" <=> callbacks'[g] = None)
                           /\ armed'[g] = "oneshot" => g \notin events'
                           /\ callbacks'[g] # None => /\ Operation(callbacks'[g]).fd = g
                                                      /\ Operation(callbacks'[g]).kind # "timer"
    BY <1>0, <1>1 DEF SocketInv
  <2>5. \A g \in Sockets : OneUnreg(g)' /\ (Leaving(g)' => callbacks'[g] # None)
    BY <1>0, <1>1, <1>3, <1>4, <1>5 DEF SocketInv
  <2> QED BY <2>1, <2>2, <2>3, <2>4, <2>5, <1>1 DEF SocketInv, Operation
<1>11. ResumedInv'
  <2>1. ASSUME NEW d \in Coros, at'[d] = "resumed", ~Timed(d)'
        PROVE  /\ callbacks'[Descriptor(d)'] = Awaiter(d)' /\ armed'[Descriptor(d)'] # "oneshot"
               /\ Descriptor(d)' \notin events' /\ ~Leaving(Descriptor(d))'
    <3>g. PICK g : g = Descriptor(d)
      OBVIOUS
    <3>1. d # c /\ Same(d)
      BY <2>1, <1>2
    <3>2. Awaiter(d)' = Awaiter(d) /\ Descriptor(d)' = g /\ at[d] = "resumed" /\ ~Timed(d)
      BY <2>1, <3>g, <3>1, SameIs DEF Same
    <3>3. callbacks[g] = Awaiter(d) /\ armed[g] # "oneshot" /\ g \notin events /\ ~Leaving(g)
      BY <3>2, <3>g, <1>0 DEF ResumedInv
    <3>4. Awaiter(d).co = d /\ g # f
      BY <3>1, <3>3, <1>3, <1>4 DEF Awaiter
    <3>5. ~Leaving(g)'
      BY <3>3, <3>4, <1>5
    <3> QED BY <3>2, <3>3, <3>5, <1>1
  <2>2. ASSUME NEW d \in Coros, Suspended(d)', ~Timed(d)', d \notin refused'
        PROVE  \/ Queued(d)'
               \/ /\ callbacks'[Descriptor(d)'] = Awaiter(d)'
                  /\ (armed'[Descriptor(d)'] = "oneshot" \/ Descriptor(d)' \in events')
               \/ Descriptor(d)' \notin open'
    <3>1. d # c /\ Same(d)
      BY <2>2, <1>2 DEF Suspended
    <3> QED BY <3>1, <2>2, <1>0, <1>1, <1>9, SameIs DEF ResumedInv
  <2> QED BY <2>1, <2>2 DEF ResumedInv
<1>12. TimersInv'
  <2>1. \A d \in Coros : Same(d) \/ (~TimerBusy(d) /\ ~TimerBusy(d)' /\ op'[d] >= op[d])
    BY <1>2 DEF TimerBusy
  <2>2. \A d \in Coros : TimerBusy(d) => (HasAdd(Awaiter(d))' <=> HasAdd(Awaiter(d)))
    BY <1>9 DEF TimerBusy
  <2>3. \A d \in Coros : timerFd'[d] = timerFd[d] \/ (timerFd'[d] = None /\ ~TimerBusy(d))
    BY <1>0, <1>1 DEF TypeOK, TimerBusy
  <2> QED BY <1>1, <1>5, <1>6, <1>7, <2>1, <2>2, <2>3, QuietTimers
<1> QED BY <1>6, <1>7, <1>8, <1>10, <1>11, <1>12 DEF IInv, SocketsInv
(* await_resume of a timer.                                                *)
LEMMA TimerResumeInv ==
    ASSUME IInv, NEW c \in Coros, AwaitResume(c), Timed(c)
    PROVE  IInv'
<1>f. PICK f : f = Descriptor(c)
  OBVIOUS
<1>a. PICK a : a = Awaiter(c)
  OBVIOUS
<1>n. PICK n : n = timerFd[c]
  OBVIOUS
<1>0. /\ TypeOK /\ PlaceInv /\ AddInv /\ TimerInv /\ OnInv /\ NumberInv /\ EarlyInv
      /\ pending \in Seq(Commands)
  BY Basics DEF TypeOK
<1>1. /\ at[c] = "resumed" /\ UNCHANGED <<outcome, ticking, tail, inbox, refused, faults>>
      /\ UNCHANGED <<callbacks, armed, open, events, calling>>
      /\ \/ n # None /\ pending' = Append(pending, Del(n))
         \/ n = None /\ pending' = pending
      /\ outcome[c] = "ok" /\ at' = [at EXCEPT ![c] = "running"]
      /\ op' = [op EXCEPT ![c] = @ + 1] /\ try' = [try EXCEPT ![c] = 0]
      /\ timerFd' = [timerFd EXCEPT ![c] = None]
      /\ early' = IF a \in tail THEN early \cup {c} ELSE early
  <2>1. at[c] = "resumed" /\ outcome[c] = "ok" /\ Current(c).kind = "timer"
    BY <1>0 DEF AwaitResume, PlaceInv, Timed
  <2> QED BY <2>1, <1>a, <1>n DEF AwaitResume, GiveBack, Post, table
<1>2. /\ \A d \in Coros : d # c => Same(d)
      /\ at'[c] = "running" /\ op'[c] \in Nat \ {0} /\ op'[c] <= Len(Plan[c]) + 1
      /\ op'[c] = op[c] + 1 /\ op[c] \in Nat \ {0} /\ try'[c] \in 0 .. MaxFaults
  <2>1. op[c] \in Nat \ {0} /\ 0 \in 0 .. MaxFaults
    BY <1>0, PlanAssumption DEF TypeOK
  <2>2. op[c] <= Len(Plan[c]) /\ Len(Plan[c]) \in Nat
    BY <1>0, <1>1, PlanAssumption DEF PlaceInv
  <2> QED BY <2>1, <2>2, <1>0, <1>1 DEF TypeOK, Same
<1>3. /\ f \in Timers /\ f \in Fds /\ a \in Awaiters /\ a.co = c /\ a.op = op[c]
      /\ op[c] \in DOMAIN Plan[c] /\ Plan[c][op[c]].fd = f /\ Plan[c][op[c]].kind = "timer"
      /\ Operation(a).fd = f
  BY <1>1, <1>f, <1>a, Basics, FdFacts DEF Descriptor, Current, Timed
<1>4. /\ On(c, f) /\ \A g \in Timers : On(c, g) <=> g = f
      /\ n # None => /\ n \in Timers /\ n \in Fds /\ Taken(n)
                     /\ \A d \in Coros : On(d, n) => d = c
                     /\ \A d \in Coros : timerFd[d] = n => d = c
      /\ \A b \in tail : Operation(b).fd # n
  BY <1>0, <1>1, <1>f, <1>n, FdFacts DEF On, NumberInv, TypeOK
<1>5. /\ pending' \in Seq(Commands)
      /\ \A g : (Leaving(g)' <=> Leaving(g)) /\ (OneUnreg(g) => OneUnreg(g)')
      /\ \A g : Deleted(g)' <=> (Deleted(g) \/ (g = n /\ n # None))
      /\ \A g : OneDel(g) => OneDel(g)'
      /\ \A b : HasAdd(b)' <=> HasAdd(b)
      /\ \A g, b : Released(b, g) => Released(b, g)'
  <2>1. CASE n = None
    BY <2>1, <1>0, <1>1, SamePending
  <2>2. CASE n # None
    <3>1. /\ Del(n).type = "Del" /\ Del(n) \in Commands
          /\ \A g : (Del(n) = Del(g) => g = n) /\ Del(n) # Unreg(g)
      BY <2>2, <1>4, CommandFacts DEF Unreg, Del
    <3>2. /\ pending' \in Seq(Commands)
          /\ \A g : /\ Leaving(g)' <=> (Leaving(g) \/ Del(n) = Unreg(g))
                    /\ Deleted(g)' <=> (Deleted(g) \/ Del(n) = Del(g))
          /\ \A g : /\ OneUnreg(g) /\ ~(Del(n) = Unreg(g) /\ Leaving(g)) => OneUnreg(g)'
                    /\ OneDel(g) /\ ~(Del(n) = Del(g) /\ Deleted(g)) => OneDel(g)'
          /\ \A b : HasAdd(b)' <=> HasAdd(b)
          /\ \A g, b : Released(b, g) => Released(b, g)'
      BY <2>2, <3>1, <1>0, <1>1, PostRemoval
    <3> QED BY <2>2, <3>1, <3>2, <1>4 DEF Taken
  <2> QED BY <2>1, <2>2
<1>6. TypeOK'
  <2>1. /\ at' \in [Coros -> {"running", "arming", "suspended", "resumed", "failed", "done"}]
        /\ op' \in [Coros -> Nat \ {0}] /\ \A d \in Coros : op'[d] <= Len(Plan[d]) + 1
        /\ try' \in [Coros -> 0 .. MaxFaults]
    BY <1>0, <1>1, <1>2 DEF TypeOK
  <2>2. timerFd' \in [Coros -> Timers \cup {None}] /\ early' \subseteq Coros
    BY <1>0, <1>1 DEF TypeOK
  <2>3. \A d \in Coros : outcome'[d] # "none" /\ at'[d] \notin {"suspended", "done"} => calling'
    BY <1>0, <1>1, <1>2 DEF TypeOK, Same
  <2> QED BY <2>1, <2>2, <2>3, <1>0, <1>1, <1>5 DEF TypeOK
<1>7. PlaceInv'
  BY <1>0, <1>1, <1>2, SameIs DEF PlaceInv, Same, Suspended
<1>8. AddInv'
  <2>1. ~Adds(c)
    BY <1>0, <1>1 DEF Adds, AddInv, Suspended
  <2>2. n # None => Del(n).type = "Del" /\ Del(n).fd = n /\ Del(n) \in Commands
    BY <1>4, CommandFacts
  <2> QED BY <2>1, <2>2, <1>1, <1>2, <1>4, QuietAdds
<1>9. \A d \in Coros : d # c =>
          /\ (Queued(d)' <=> Queued(d)) /\ (HasAdd(Awaiter(d))' <=> HasAdd(Awaiter(d)))
          /\ at'[d] = at[d] /\ Awaiter(d)' = Awaiter(d) /\ Descriptor(d)' = Descriptor(d)
          /\ (Timed(d)' <=> Timed(d)) /\ \A g : On(d, g)' <=> On(d, g)
  BY <1>2, <1>5, SameIs, SMTT(30) DEF Queued, HasAdd, Same
<1>10. SocketsInv'
  <2>1. \A d \in Coros : Same(d) \/ (~SocketBusy(d) /\ ~SocketBusy(d)')
    BY <1>2 DEF SocketBusy
  <2>2. \A d \in Coros : SocketBusy(d) => (HasAdd(Awaiter(d))' <=> HasAdd(Awaiter(d)))
    BY <1>9 DEF SocketBusy
  <2>3. \A b \in Awaiters : Abandoned(b) => Abandoned(b)'
    <3>1. ASSUME NEW b \in Awaiters, Abandoned(b) PROVE Abandoned(b)'
      <4>1. b.co # c
        BY <3>1, <1>3, AwaiterType DEF Abandoned, Operation
      <4> QED BY <3>1, <4>1, <1>2, AwaiterType DEF Abandoned, Same, Operation
    <3> QED BY <3>1
  <2> QED BY <1>1, <1>5, <1>6, <1>7, <2>1, <2>2, <2>3, QuietSockets
<1>11. \A g : ~On(c, g)'
  BY <1>2 DEF On
<1>12. \A g \in Timers : Taken(g) /\ g # n => Taken(g)'
  BY <1>1, <1>5 DEF Taken
<1>13. TimerInv'
  <2>1. ASSUME NEW g \in Timers, inbox'[g] \/ g \in ticking' \/ g \in events'
        PROVE  \E d \in Coros : at'[d] \in {"arming", "suspended"} /\ On(d, g)'
    <3>1. PICK d \in Coros : at[d] \in {"arming", "suspended"} /\ On(d, g)
      BY <2>1, <1>0, <1>1 DEF TimerInv
    <3> QED BY <3>1, <1>1, <1>9
  <2>2. \A g \in Timers : OneDel(g)' /\ (Deleted(g)' => g \in open')
    BY <1>0, <1>1, <1>4, <1>5 DEF TimerInv, Taken
  <2> QED BY <2>1, <2>2, <1>0, <1>1 DEF TimerInv, Operation
<1>14. OnInv'
  <2>1. ASSUME NEW d \in Coros, NEW g \in Timers, On(d, g)'
        PROVE  /\ Taken(g)' /\ \A e \in Coros : On(e, g)' => e = d
               /\ at'[d] = "arming" \/ (at'[d] = "suspended" /\ Queued(d)') =>
                     callbacks'[g] = None /\ armed'[g] = "off"
               /\ at'[d] = "suspended" /\ ~Queued(d)' =>
                     callbacks'[g] = Awaiter(d)' /\ armed'[g] = "level"
    <3>1. d # c /\ On(d, g)
      BY <2>1, <1>9, <1>11
    <3>2. Taken(g)'
      BY <3>1, <1>0, <1>4, <1>12, FdFacts DEF OnInv
    <3>3. \A e \in Coros : On(e, g)' => e = d
      BY <3>1, <1>0, <1>9, <1>11 DEF OnInv
    <3> QED BY <3>1, <3>2, <3>3, <1>0, <1>1, <1>9 DEF OnInv
  <2> QED BY <2>1 DEF OnInv
<1>15. NumberInv'
  <2>1. ASSUME NEW b \in tail
        PROVE  /\ b \in Awaiters /\ b.co \in Coros /\ b.op \in Nat /\ Operation(b).kind = "timer"
               /\ Operation(b).fd \in Timers /\ Taken(Operation(b).fd)'
               /\ \A d \in Coros : timerFd'[d] # Operation(b).fd
               /\ \A d \in Coros : On(d, Operation(b).fd)' => b = Awaiter(d)' /\ at'[d] # "arming"
    <3>1. b \in Awaiters /\ b.co \in Coros /\ Operation(b).kind = "timer" /\ Operation(b).fd \in Timers
          /\ b.op \in Nat
      BY <1>0, Basics, AwaiterType DEF NumberInv
    <3>2. Taken(Operation(b).fd)'
      BY <3>1, <1>0, <1>4, <1>12 DEF NumberInv
    <3>3. \A d \in Coros : timerFd'[d] # Operation(b).fd
      BY <3>1, <1>0, <1>1, FdFacts DEF NumberInv, TypeOK
    <3>4. \A d \in Coros : On(d, Operation(b).fd)' => b = Awaiter(d)' /\ at'[d] # "arming"
      BY <3>1, <1>0, <1>9, <1>11 DEF NumberInv
    <3> QED BY <3>1, <3>2, <3>3, <3>4
  <2>2. ASSUME NEW b \in tail
        PROVE  /\ b # Awaiter(b.co)' \/ at'[b.co] \notin {"suspended", "resumed"} => b.co \in early'
               /\ b.op # 1 => calling' /\ b = Awaiter(b.co)' /\ Suspended(b.co)'
               /\ b.op < op'[b.co] \/ (b.op = op'[b.co] /\ at'[b.co] \in {"suspended", "resumed"})
    <3>1. CASE b.co = c
      <4>1. b.op = 1
        BY <3>1, <1>0, <1>1 DEF NumberInv, Suspended
      <4>2. c \in early'
        BY <3>1, <1>0, <1>1, <1>a DEF NumberInv
      <4>3. b.op < op'[c]
        BY <3>1, <2>1, <1>0, <1>2 DEF NumberInv
      <4> QED BY <3>1, <4>1, <4>2, <4>3
    <3>2. CASE b.co # c
      BY <3>2, <2>1, <1>0, <1>1, <1>2, <1>9, SameIs DEF NumberInv, Same, Suspended
    <3> QED BY <3>1, <3>2
  <2>3. ASSUME NEW d \in Coros, timerFd'[d] # None
        PROVE  /\ Taken(timerFd[d])'
               /\ \A e \in Coros : On(e, timerFd[d])' => e = d /\ at'[e] # "arming"
               /\ \A e \in Coros : timerFd'[e] = timerFd'[d] => e = d
    <3>1. /\ d # c /\ timerFd'[d] = timerFd[d] /\ timerFd[d] \in Timers /\ timerFd[d] # n
          /\ timerFd[d] # None
      BY <2>3, <1>0, <1>1, <1>4, <1>n DEF TypeOK
    <3>2. /\ Taken(timerFd[d])
          /\ \A e \in Coros : On(e, timerFd[d]) => e = d /\ at[e] # "arming"
          /\ \A e \in Coros : timerFd[e] = timerFd[d] => e = d
      BY <3>1, <1>0 DEF NumberInv
    <3>3. \A e \in Coros : timerFd'[e] = timerFd'[d] => e = d
      BY <2>3, <3>1, <3>2, <1>0, <1>1 DEF TypeOK
    <3> QED BY <3>1, <3>2, <3>3, <1>9, <1>11, <1>12
  <2>4. ASSUME NEW d \in Coros, at'[d] \in {"suspended", "resumed"}, Timed(d)',
               Awaiter(d)' \notin tail, timerFd'[d] # Descriptor(d)'
        PROVE  d \in early'
    <3>1. d # c /\ timerFd'[d] = timerFd[d]
      BY <2>4, <1>0, <1>1, <1>2 DEF TypeOK
    <3> QED BY <2>4, <3>1, <1>0, <1>1, <1>9 DEF NumberInv
  <2> QED BY <2>1, <2>2, <2>3, <2>4, <1>0, <1>1 DEF NumberInv, Operation
<1>16. EarlyInv'
  <2>1. ASSUME NEW g \in Timers, g \in open'
        PROVE  \/ Deleted(g)' \/ \E d \in Coros : On(d, g)'
               \/ \E d \in early' : \E o \in DOMAIN Plan[d] : Plan[d][o].fd = g
    <3>1. CASE g = f
      <4>1. a \notin tail /\ n # f => c \in early
        BY <1>0, <1>1, <1>f, <1>a, <1>n DEF NumberInv
      <4>2. n = f => Deleted(f)'
        BY <1>3, <1>5, FdFacts
      <4> QED BY <3>1, <4>1, <4>2, <1>1, <1>3
    <3>2. CASE g # f
      BY <3>2, <2>1, <1>0, <1>1, <1>4, <1>5, <1>9 DEF EarlyInv
    <3> QED BY <3>1, <3>2
  <2>2. ASSUME NEW d \in early' PROVE Plan[d][1].kind = "timer"
    <3>1. a \in tail => op[c] = 1
      BY <1>0, <1>1, <1>3 DEF NumberInv, Suspended
    <3> QED BY <2>2, <3>1, <1>0, <1>1, <1>3 DEF EarlyInv
  <2> QED BY <2>1, <2>2 DEF EarlyInv
<1> QED BY <1>6, <1>7, <1>8, <1>10, <1>13, <1>14, <1>15, <1>16 DEF IInv, TimersInv
-----------------------------------------------------------------------------
(* The add of a timer is never refused.                                    *)
LEMMA TimerIsAccepted ==
    ASSUME IInv, NEW x, pending # <<>>, x = Head(pending), x.type = "Add", Timed(x.tag.co)
    PROVE  /\ x.fd \in Timers /\ On(x.tag.co, x.fd) /\ Taken(x.fd) /\ Accepted(x)
           /\ callbacks[x.fd] = None
<1> DEFINE c == x.tag.co
<1>1. 1 \in DOMAIN pending /\ x = pending[1]
  BY Basics, HeadTaken DEF TypeOK
<1>2. c \in Coros /\ Suspended(c) /\ x.tag = Awaiter(c) /\ x.fd = Descriptor(c)
  BY <1>1, AddIs
<1>3. x.fd \in Timers
  BY <1>2, Basics DEF Suspended
<1>4. On(c, x.fd) /\ Queued(c)
  BY <1>1, <1>2 DEF On, Suspended, Queued
<1>5. callbacks[x.fd] = None /\ armed[x.fd] = "off" /\ Taken(x.fd)
  BY <1>2, <1>3, <1>4, Basics DEF OnInv, Suspended
<1> QED BY <1>3, <1>4, <1>5 DEF Accepted, Taken

(* What every command that is executed leaves as it is.                    *)
LEMMA ExecuteFrame ==
    ASSUME IInv, ExecuteCommand, NEW x, x = Head(pending)
    PROVE  /\ UNCHANGED <<at, op, try, outcome, ticking, timerFd, tail, early, inbox, faults>>
           /\ UNCHANGED <<events, calling>> /\ pending # <<>> /\ pending' = Tail(pending)
           /\ x \in Commands /\ 1 \in DOMAIN pending /\ x = pending[1]
           /\ \/ x.type = "Add" /\ Accepted(x) /\ open' = open /\ refused' = refused
                 /\ armed' = [armed EXCEPT ![x.fd] = x.mode]
                 /\ callbacks' = [callbacks EXCEPT ![x.fd] = x.tag]
              \/ x.type = "Add" /\ ~Accepted(x) /\ refused' = refused \cup {x.tag.co}
                 /\ open' = open /\ armed' = armed /\ callbacks' = callbacks
              \/ x.type \in {"Del", "Unreg"} /\ refused' = refused
                 /\ armed' = [armed EXCEPT ![x.fd] = "off"]
                 /\ callbacks' = [callbacks EXCEPT ![x.fd] = None]
                 /\ open' = IF x.type = "Del" THEN open \ {x.fd} ELSE open
           /\ \A d \in Coros : Same(d)
           /\ TypeOK' /\ PlaceInv' /\ AddInv'
           /\ x.type = "Add" => ~HasAdd(x.tag)'
<1>0. TypeOK /\ PlaceInv /\ pending \in Seq(Commands)
  BY Basics DEF TypeOK
<1>1. /\ UNCHANGED <<at, op, try, outcome, ticking, timerFd, tail, early, inbox, faults>>
      /\ UNCHANGED <<events, calling>> /\ pending # <<>> /\ pending' = Tail(pending)
  BY DEF ExecuteCommand, Execute, coroutines, timers
<1>2. x \in Commands /\ 1 \in DOMAIN pending /\ x = pending[1] /\ pending' \in Seq(Commands)
  BY <1>0, <1>1, HeadTaken
<1>3. x.type \in {"Add", "Unreg", "Del"} /\ x.fd \in Fds /\ (x.type = "Add" => x.tag \in Awaiters)
  BY <1>2, CommandFacts
<1>4. \/ x.type = "Add" /\ Accepted(x) /\ open' = open /\ refused' = refused
         /\ armed' = [armed EXCEPT ![x.fd] = x.mode]
         /\ callbacks' = [callbacks EXCEPT ![x.fd] = x.tag]
      \/ x.type = "Add" /\ ~Accepted(x) /\ refused' = refused \cup {x.tag.co}
         /\ open' = open /\ armed' = armed /\ callbacks' = callbacks
      \/ x.type \in {"Del", "Unreg"} /\ refused' = refused
         /\ armed' = [armed EXCEPT ![x.fd] = "off"]
         /\ callbacks' = [callbacks EXCEPT ![x.fd] = None]
         /\ open' = IF x.type = "Del" THEN open \ {x.fd} ELSE open
  BY <1>3 DEF ExecuteCommand, Execute, DoAdd, DoRemove, DoMod, DoStop
<1>5. \A d \in Coros : Same(d)
  BY <1>1 DEF Same
<1>6. x.type = "Add" => x.tag.co \in Coros /\ Suspended(x.tag.co)
  BY <1>2, AddIs
<1>7. TypeOK'
  <2>1. x.type = "Add" => x.mode \in {"oneshot", "level"}
    BY <1>2, AddIs
  <2>2. /\ armed' \in [Fds -> Interests] /\ callbacks' \in [Fds -> Awaiters \cup {None}]
        /\ open' \subseteq Fds /\ refused' \subseteq Coros
    <3>1. "off" \in Interests /\ (x.type = "Add" => x.mode \in Interests)
      BY <2>1 DEF Interests, Modes
    <3>2. armed' \in [Fds -> Interests]
      <4>1. armed \in [Fds -> Interests]
        BY <1>0 DEF TypeOK
      <4>2. \/ armed' = armed
            \/ x.mode \in Interests /\ armed' = [armed EXCEPT ![x.fd] = x.mode]
            \/ armed' = [armed EXCEPT ![x.fd] = "off"]
        BY <3>1, <1>4
      <4>3. "off" \in Interests
        BY <3>1
      <4> QED BY <4>1, <4>2, <4>3
    <3>3. callbacks' \in [Fds -> Awaiters \cup {None}]
      <4>1. callbacks \in [Fds -> Awaiters \cup {None}]
        BY <1>0 DEF TypeOK
      <4>2. \/ callbacks' = callbacks
            \/ x.tag \in Awaiters /\ callbacks' = [callbacks EXCEPT ![x.fd] = x.tag]
            \/ callbacks' = [callbacks EXCEPT ![x.fd] = None]
        BY <1>3, <1>4
      <4> QED BY <4>1, <4>2
    <3>4. open \subseteq Fds /\ refused \subseteq Coros
      BY <1>0 DEF TypeOK
    <3>5. open' \subseteq Fds
      BY <1>4, <3>4
    <3>6. refused' \subseteq Coros
      BY <1>4, <1>6, <3>4
    <3> QED BY <3>2, <3>3, <3>5, <3>6
  <2> QED BY <2>2, <1>0, <1>1, <1>2 DEF TypeOK
<1>8. PlaceInv'
  <2>1. \A d \in refused' : d \in refused \/ (d = x.tag.co /\ Suspended(d) /\ ~Timed(d))
    BY <1>1, <1>4, <1>6, TimerIsAccepted
  <2> QED BY <2>1, <1>0, <1>1, <1>5, SameIs DEF PlaceInv
<1>9. AddInv' /\ (x.type = "Add" => ~HasAdd(x.tag)')
  BY <1>1, <1>4, <1>5, TakenAdd
<1> QED BY <1>1, <1>2, <1>4, <1>5, <1>7, <1>8, <1>9
(* A command about a timer leaves the sockets alone.                       *)
LEMMA ExecuteTimerSockets ==
    ASSUME IInv, ExecuteCommand, NEW x, x = Head(pending), x.fd \in Timers
    PROVE  SocketsInv'
<1>0. TypeOK
  BY Basics
<1>1. /\ UNCHANGED <<at, op, try, events>> /\ pending # <<>> /\ pending' = Tail(pending)
      /\ x \in Commands /\ 1 \in DOMAIN pending /\ x = pending[1]
      /\ \/ x.type = "Add" /\ Accepted(x) /\ open' = open /\ refused' = refused
            /\ armed' = [armed EXCEPT ![x.fd] = x.mode]
            /\ callbacks' = [callbacks EXCEPT ![x.fd] = x.tag]
         \/ x.type = "Add" /\ ~Accepted(x)
         \/ x.type \in {"Del", "Unreg"} /\ refused' = refused
            /\ armed' = [armed EXCEPT ![x.fd] = "off"]
            /\ callbacks' = [callbacks EXCEPT ![x.fd] = None]
            /\ open' = IF x.type = "Del" THEN open \ {x.fd} ELSE open
      /\ (\A d \in Coros : Same(d)) /\ TypeOK' /\ PlaceInv'
  BY ExecuteFrame
<1>2. x.type = "Add" => /\ x.tag.co \in Coros /\ Timed(x.tag.co) /\ x.tag = Awaiter(x.tag.co)
  <2>1. x.type = "Add" => x.tag.co \in Coros /\ Suspended(x.tag.co) /\ x.tag = Awaiter(x.tag.co)
                          /\ x.fd = Descriptor(x.tag.co)
    BY <1>1, AddIs
  <2> QED BY <2>1, Basics, FdFacts DEF Suspended
<1>3. x.type = "Add" => Accepted(x)
  BY <1>1, <1>2, TimerIsAccepted
<1>4. /\ \A g : /\ Leaving(g)' => Leaving(g)
                /\ Leaving(g) => Leaving(g)' \/ x = Unreg(g)
                /\ OneUnreg(g) => OneUnreg(g)'
      /\ \A a : /\ HasAdd(a)' => HasAdd(a)
                /\ HasAdd(a) => HasAdd(a)' \/ (x.type = "Add" /\ x.tag = a)
      /\ \A g, a : Released(a, g) => Released(a, g)' \/ x = Unreg(g)
  BY <1>0, <1>1, TakeHead
<1>5. \A g \in Sockets : /\ g # x.fd /\ x # Unreg(g)
                         /\ armed'[g] = armed[g] /\ callbacks'[g] = callbacks[g]
                         /\ g \in open' <=> g \in open
  BY <1>0, <1>1, <1>3, FdFacts, CommandFacts DEF TypeOK
<1>6. \A d \in Coros : SocketBusy(d) => (HasAdd(Awaiter(d))' <=> HasAdd(Awaiter(d)))
  <2>1. \A d \in Coros : SocketBusy(d) => ~(x.type = "Add" /\ x.tag = Awaiter(d))
    BY <1>2 DEF SocketBusy, Awaiter
  <2>2. \A d \in Coros : Awaiter(d)' = Awaiter(d)
    BY <1>1, SameIs
  <2>3. \A d \in Coros : SocketBusy(d) =>
            /\ HasAdd(Awaiter(d))' => HasAdd(Awaiter(d))
            /\ HasAdd(Awaiter(d)) => HasAdd(Awaiter(d))'
    BY <2>1, <2>2, <1>4
  <2> QED BY <2>3
<1>7. \A a \in Awaiters : Abandoned(a) => Abandoned(a)'
  BY <1>1 DEF Abandoned, Operation
<1> QED BY <1>1, <1>3, <1>4, <1>5, <1>6, <1>7, QuietSockets

(* A command about a socket leaves the timers alone.                       *)
LEMMA ExecuteSocketTimers ==
    ASSUME IInv, ExecuteCommand, NEW x, x = Head(pending), x.fd \in Sockets
    PROVE  TimersInv'
<1>0. TypeOK
  BY Basics
<1>1. /\ UNCHANGED <<at, op, try, ticking, timerFd, tail, early, inbox, events, calling>>
      /\ pending # <<>> /\ pending' = Tail(pending)
      /\ x \in Commands /\ 1 \in DOMAIN pending /\ x = pending[1]
      /\ \/ open' = open /\ armed' = [armed EXCEPT ![x.fd] = x.mode]
            /\ callbacks' = [callbacks EXCEPT ![x.fd] = x.tag]
         \/ open' = open /\ armed' = armed /\ callbacks' = callbacks
         \/ armed' = [armed EXCEPT ![x.fd] = "off"]
            /\ callbacks' = [callbacks EXCEPT ![x.fd] = None]
            /\ open' \in {open, open \ {x.fd}}
      /\ (\A d \in Coros : Same(d)) /\ TypeOK' /\ PlaceInv'
  BY ExecuteFrame
<1>2. /\ \A g : /\ Deleted(g)' => Deleted(g)
                /\ Deleted(g) => Deleted(g)' \/ x = Del(g)
                /\ OneDel(g) => OneDel(g)'
      /\ \A a : /\ HasAdd(a)' => HasAdd(a)
                /\ HasAdd(a) => HasAdd(a)' \/ (x.type = "Add" /\ x.tag = a)
  BY <1>0, <1>1, TakeHead
<1>3. \A g \in Timers : /\ g # x.fd /\ x # Del(g)
                        /\ armed'[g] = armed[g] /\ callbacks'[g] = callbacks[g]
                        /\ g \in open' <=> g \in open
  BY <1>0, <1>1, FdFacts, CommandFacts DEF TypeOK
<1>4. \A d \in Coros : TimerBusy(d) => (HasAdd(Awaiter(d))' <=> HasAdd(Awaiter(d)))
  <2>1. ASSUME NEW d \in Coros, TimerBusy(d), x.type = "Add", x.tag = Awaiter(d)
        PROVE  FALSE
    <3>1. d = x.tag.co /\ x.fd = Descriptor(d)
      BY <2>1, <1>1, AddIs DEF Awaiter
    <3> QED BY <2>1, <3>1, Basics, FdFacts DEF TimerBusy
  <2> QED BY <2>1, <1>1, <1>2, SameIs, SMTT(30) DEF HasAdd
<1> QED BY <1>1, <1>2, <1>3, <1>4, QuietTimers

(* The removal of a timer.                                                 *)
LEMMA ExecuteDelTimers ==
    ASSUME IInv, ExecuteCommand, NEW x, x = Head(pending), x.type = "Del"
    PROVE  TimersInv'
<1>f. PICK f : f = x.fd
  OBVIOUS
<1>0. TypeOK /\ AddInv /\ TimerInv /\ OnInv /\ NumberInv /\ EarlyInv
  BY Basics
<1>1. /\ UNCHANGED <<at, op, try, ticking, timerFd, tail, early, inbox, events, calling, refused>>
      /\ pending # <<>> /\ pending' = Tail(pending)
      /\ x \in Commands /\ 1 \in DOMAIN pending /\ x = pending[1]
      /\ armed' = [armed EXCEPT ![f] = "off"] /\ callbacks' = [callbacks EXCEPT ![f] = None]
      /\ open' = open \ {f}
      /\ (\A d \in Coros : Same(d)) /\ TypeOK' /\ PlaceInv'
  BY <1>f, ExecuteFrame
<1>2. x = Del(f) /\ f \in Timers /\ f \in Fds /\ \A g : x = Del(g) => g = f
  BY <1>0, <1>1, <1>f, CommandFacts, FdFacts DEF AddInv, Del
<1>3. /\ \A g : /\ Deleted(g)' => Deleted(g)
                /\ Deleted(g) => Deleted(g)' \/ g = f
                /\ OneDel(g) => OneDel(g)' /\ (g = f => ~Deleted(g)')
      /\ Deleted(f)
      /\ \A a : HasAdd(a)' <=> HasAdd(a)
  BY <1>0, <1>1, <1>2, TakeHead
<1>4. \A d \in Coros : /\ \A g : On(d, g)' <=> On(d, g)
                       /\ at'[d] = at[d] /\ Awaiter(d)' = Awaiter(d) /\ (Queued(d)' <=> Queued(d))
                       /\ Descriptor(d)' = Descriptor(d) /\ (Timed(d)' <=> Timed(d))
                       /\ (Suspended(d)' <=> Suspended(d))
  <2>1. \A d \in Coros : /\ \A g : On(d, g)' <=> On(d, g)
                         /\ at'[d] = at[d] /\ Awaiter(d)' = Awaiter(d)
                         /\ Descriptor(d)' = Descriptor(d) /\ (Timed(d)' <=> Timed(d))
                         /\ (Suspended(d)' <=> Suspended(d))
    BY <1>1, SameIs DEF Same
  <2>2. \A d \in Coros : Queued(d)' <=> Queued(d)
    BY <2>1, <1>3 DEF Queued, HasAdd
  <2> QED BY <2>1, <2>2
<1>5. /\ \A g : Taken(g) => Taken(g)' /\ g # f
      /\ \A d \in Coros, g \in Timers : On(d, g) => g # f
      /\ f \in open /\ ~inbox[f] /\ f \notin ticking /\ f \notin events
  <2>1. \A g : Taken(g) => Taken(g)' /\ g # f
    BY <1>1, <1>3 DEF Taken
  <2>2. \A d \in Coros, g \in Timers : On(d, g) => g # f
    BY <2>1, <1>0 DEF OnInv
  <2> QED BY <2>1, <2>2, <1>0, <1>2, <1>3 DEF TimerInv
<1>6. \A g \in Timers : g # f => /\ armed'[g] = armed[g] /\ callbacks'[g] = callbacks[g]
                                 /\ g \in open' <=> g \in open
  BY <1>0, <1>1, FdFacts DEF TypeOK
<1>7. armed'[f] = "off" /\ callbacks'[f] = None /\ f \notin open'
  BY <1>0, <1>1, <1>2 DEF TypeOK
<1>8. TimerInv'
  <2>1. ASSUME NEW g \in Timers, inbox'[g] \/ g \in ticking' \/ g \in events'
        PROVE  \E d \in Coros : at'[d] \in {"arming", "suspended"} /\ On(d, g)'
    BY <2>1, <1>0, <1>1, <1>4 DEF TimerInv
  <2>2. \A g \in Timers : OneDel(g)' /\ (Deleted(g)' => g \in open')
    BY <1>0, <1>3, <1>6 DEF TimerInv
  <2>3. \A g \in Timers :
            /\ armed'[g] \in {"off", "level"}
            /\ g \notin open' => callbacks'[g] = None /\ armed'[g] = "off"
            /\ callbacks'[g] # None => Operation(callbacks'[g]).fd = g
                                       /\ Operation(callbacks'[g]).kind = "timer"
            /\ armed'[g] = "level" => callbacks'[g] # None
            /\ inbox'[g] => g \notin ticking'
    BY <1>0, <1>1, <1>6, <1>7 DEF TimerInv
  <2> QED BY <2>1, <2>2, <2>3 DEF TimerInv, Operation
<1>9. OnInv'
  <2>1. ASSUME NEW d \in Coros, NEW g \in Timers, On(d, g)'
        PROVE  /\ Taken(g)' /\ \A e \in Coros : On(e, g)' => e = d
               /\ at'[d] = "arming" \/ (at'[d] = "suspended" /\ Queued(d)') =>
                     callbacks'[g] = None /\ armed'[g] = "off"
               /\ at'[d] = "suspended" /\ ~Queued(d)' =>
                     callbacks'[g] = Awaiter(d)' /\ armed'[g] = "level"
    BY <2>1, <1>0, <1>4, <1>5, <1>6 DEF OnInv
  <2> QED BY <2>1 DEF OnInv
<1>10. NumberInv'
  <2>1. \A b \in tail : b \in Awaiters /\ b.co \in Coros /\ Operation(b).fd \in Timers
    BY <1>0, Basics, AwaiterType DEF NumberInv
  <2>2. ASSUME NEW b \in tail
        PROVE  /\ Operation(b).kind = "timer" /\ Taken(Operation(b).fd)'
               /\ \A d \in Coros : timerFd'[d] # Operation(b).fd
               /\ \A d \in Coros : On(d, Operation(b).fd)' => b = Awaiter(d)' /\ at'[d] # "arming"
               /\ b # Awaiter(b.co)' \/ at'[b.co] \notin {"suspended", "resumed"} => b.co \in early'
               /\ b.op # 1 => calling' /\ b = Awaiter(b.co)' /\ Suspended(b.co)'
               /\ b.op < op'[b.co] \/ (b.op = op'[b.co] /\ at'[b.co] \in {"suspended", "resumed"})
    BY <2>1, <1>0, <1>1, <1>4, <1>5 DEF NumberInv
  <2>3. ASSUME NEW d \in Coros, timerFd[d] # None
        PROVE  /\ Taken(timerFd[d])'
               /\ \A e \in Coros : On(e, timerFd[d])' => e = d /\ at'[e] # "arming"
               /\ \A e \in Coros : timerFd'[e] = timerFd'[d] => e = d
    BY <2>3, <1>0, <1>1, <1>4, <1>5 DEF NumberInv
  <2>4. ASSUME NEW d \in Coros, at'[d] \in {"suspended", "resumed"}, Timed(d)',
               Awaiter(d)' \notin tail, timerFd[d] # Descriptor(d)'
        PROVE  d \in early
    BY <2>4, <1>0, <1>4 DEF NumberInv
  <2> QED BY <2>2, <2>3, <2>4, <1>0, <1>1 DEF NumberInv, Operation
<1>11. EarlyInv'
  BY <1>0, <1>1, <1>3, <1>4, <1>6 DEF EarlyInv
<1> QED BY <1>8, <1>9, <1>10, <1>11 DEF TimersInv
(* The add of a timer.                                                     *)
LEMMA ExecuteAddTimers ==
    ASSUME IInv, ExecuteCommand, NEW x, x = Head(pending), x.type = "Add", x.fd \in Timers
    PROVE  TimersInv'
<1>f. PICK f : f = x.fd
  OBVIOUS
<1>c. PICK c : c = x.tag.co
  OBVIOUS
<1>0. TypeOK /\ TimerInv /\ OnInv /\ NumberInv /\ EarlyInv
  BY Basics
<1>1. /\ UNCHANGED <<at, op, try, ticking, timerFd, tail, early, inbox, events, calling>>
      /\ pending # <<>> /\ pending' = Tail(pending)
      /\ x \in Commands /\ 1 \in DOMAIN pending /\ x = pending[1]
      /\ \/ Accepted(x) /\ open' = open
            /\ armed' = [armed EXCEPT ![f] = x.mode] /\ callbacks' = [callbacks EXCEPT ![f] = x.tag]
         \/ ~Accepted(x)
      /\ (\A d \in Coros : Same(d)) /\ TypeOK' /\ PlaceInv' /\ ~HasAdd(x.tag)'
  BY <1>f, ExecuteFrame
<1>2. /\ c \in Coros /\ Suspended(c) /\ x.tag = Awaiter(c) /\ f = Descriptor(c) /\ Timed(c)
      /\ x.mode = "level" /\ x.tag \in Awaiters /\ x.tag # None /\ f \in Timers /\ f \in Fds
  <2>1. c \in Coros /\ Suspended(c) /\ x.tag = Awaiter(c) /\ f = Descriptor(c)
        /\ x.mode = IF Timed(c) THEN "level" ELSE "oneshot"
    BY <1>1, <1>f, <1>c, AddIs
  <2>2. /\ x.tag \in Awaiters /\ x.tag # None
        /\ ~Timed(c) => Descriptor(c) \in Sockets
    BY <2>1, Basics DEF Suspended
  <2>3. Timed(c) /\ f \in Timers /\ f \in Fds
    BY <2>1, <2>2, <1>f, FdFacts
  <2> QED BY <2>1, <2>2, <2>3
<1>3. Accepted(x) /\ On(c, f)
  BY <1>1, <1>2, <1>c, <1>f, TimerIsAccepted
<1>4. /\ open' = open /\ armed'[f] = "level" /\ callbacks'[f] = x.tag
      /\ \A g \in Timers : g # f => armed'[g] = armed[g] /\ callbacks'[g] = callbacks[g]
  BY <1>0, <1>1, <1>2, <1>3, FdFacts DEF TypeOK
<1>5. /\ \A g : (Deleted(g)' <=> Deleted(g)) /\ (Taken(g)' <=> Taken(g)) /\ (OneDel(g) => OneDel(g)')
      /\ \A a : a # x.tag => (HasAdd(a)' <=> HasAdd(a))
  <2>1. \A g : x # Del(g)
    BY CommandFacts
  <2>2. /\ \A g : (Deleted(g)' <=> Deleted(g)) /\ (OneDel(g) => OneDel(g)')
        /\ \A a : a # x.tag => (HasAdd(a)' <=> HasAdd(a))
    BY <2>1, <1>0, <1>1, TakeHead
  <2> QED BY <2>2, <1>4 DEF Taken
<1>6. \A d \in Coros : /\ \A g : On(d, g)' <=> On(d, g)
                       /\ at'[d] = at[d] /\ Awaiter(d)' = Awaiter(d)
                       /\ Descriptor(d)' = Descriptor(d) /\ (Timed(d)' <=> Timed(d))
                       /\ (Suspended(d)' <=> Suspended(d))
  BY <1>1, SameIs DEF Same
<1>7. (\A d \in Coros : d # c => (Queued(d)' <=> Queued(d))) /\ ~Queued(c)'
  <2>1. \A d \in Coros : d # c => Awaiter(d) # x.tag
    BY <1>2 DEF Awaiter
  <2>2. \A d \in Coros : Queued(d)' <=> HasAdd(Awaiter(d))'
    BY <1>6 DEF Queued, HasAdd
  <2>3. \A d \in Coros : d # c => (HasAdd(Awaiter(d))' <=> HasAdd(Awaiter(d)))
    BY <2>1, <1>5, <1>6
  <2>4. ~HasAdd(Awaiter(c))'
    BY <1>1, <1>2, <1>6
  <2> QED BY <2>2, <2>3, <2>4, <1>2, QueuedIs
<1>8. TimerInv'
  <2>1. ASSUME NEW g \in Timers, inbox'[g] \/ g \in ticking' \/ g \in events'
        PROVE  \E d \in Coros : at'[d] \in {"arming", "suspended"} /\ On(d, g)'
    BY <2>1, <1>0, <1>1, <1>6 DEF TimerInv
  <2>2. Operation(x.tag).fd = f /\ Operation(x.tag).kind = "timer" /\ f \in open
    BY <1>2, <1>3, <1>f DEF Descriptor, Current, Timed, Accepted
  <2>3. \A g \in Timers :
            /\ armed'[g] \in {"off", "level"}
            /\ g \notin open' => callbacks'[g] = None /\ armed'[g] = "off"
            /\ callbacks'[g] # None => Operation(callbacks'[g]).fd = g
                                       /\ Operation(callbacks'[g]).kind = "timer"
            /\ armed'[g] = "level" => callbacks'[g] # None
            /\ inbox'[g] => g \notin ticking'
            /\ OneDel(g)' /\ (Deleted(g)' => g \in open')
    BY <2>2, <1>0, <1>1, <1>2, <1>4, <1>5 DEF TimerInv
  <2> QED BY <2>1, <2>3 DEF TimerInv, Operation
<1>9. OnInv'
  <2>1. ASSUME NEW d \in Coros, NEW g \in Timers, On(d, g)'
        PROVE  /\ Taken(g)' /\ \A e \in Coros : On(e, g)' => e = d
               /\ at'[d] = "arming" \/ (at'[d] = "suspended" /\ Queued(d)') =>
                     callbacks'[g] = None /\ armed'[g] = "off"
               /\ at'[d] = "suspended" /\ ~Queued(d)' =>
                     callbacks'[g] = Awaiter(d)' /\ armed'[g] = "level"
    <3>1. On(d, g) /\ Taken(g)' /\ \A e \in Coros : On(e, g)' => e = d
      BY <2>1, <1>0, <1>5, <1>6 DEF OnInv
    <3>2. CASE g = f
      <4>1. d = c
        BY <3>1, <3>2, <1>2, <1>3, <1>0 DEF OnInv
      <4> QED BY <3>1, <3>2, <4>1, <1>2, <1>4, <1>6, <1>7 DEF Suspended
    <3>3. CASE g # f
      <4>1. d # c
        BY <3>1, <3>3, <1>2 DEF On
      <4> QED BY <3>1, <3>3, <4>1, <1>0, <1>4, <1>6, <1>7 DEF OnInv
    <3> QED BY <3>2, <3>3
  <2> QED BY <2>1 DEF OnInv
<1>10. NumberInv'
  <2>1. \A b \in tail : b \in Awaiters /\ b.co \in Coros /\ Operation(b).fd \in Timers
    BY <1>0, Basics, AwaiterType DEF NumberInv
  <2>2. ASSUME NEW b \in tail
        PROVE  /\ Operation(b).kind = "timer" /\ Taken(Operation(b).fd)'
               /\ \A d \in Coros : timerFd'[d] # Operation(b).fd
               /\ \A d \in Coros : On(d, Operation(b).fd)' => b = Awaiter(d)' /\ at'[d] # "arming"
               /\ b # Awaiter(b.co)' \/ at'[b.co] \notin {"suspended", "resumed"} => b.co \in early'
               /\ b.op # 1 => calling' /\ b = Awaiter(b.co)' /\ Suspended(b.co)'
               /\ b.op < op'[b.co] \/ (b.op = op'[b.co] /\ at'[b.co] \in {"suspended", "resumed"})
    BY <2>1, <1>0, <1>1, <1>5, <1>6 DEF NumberInv
  <2>3. ASSUME NEW d \in Coros, timerFd[d] # None
        PROVE  /\ Taken(timerFd[d])'
               /\ \A e \in Coros : On(e, timerFd[d])' => e = d /\ at'[e] # "arming"
               /\ \A e \in Coros : timerFd'[e] = timerFd'[d] => e = d
    BY <2>3, <1>0, <1>1, <1>5, <1>6 DEF NumberInv
  <2>4. ASSUME NEW d \in Coros, at'[d] \in {"suspended", "resumed"}, Timed(d)',
               Awaiter(d)' \notin tail, timerFd[d] # Descriptor(d)'
        PROVE  d \in early
    BY <2>4, <1>0, <1>6 DEF NumberInv
  <2> QED BY <2>2, <2>3, <2>4, <1>0, <1>1 DEF NumberInv, Operation
<1>11. EarlyInv'
  BY <1>0, <1>1, <1>4, <1>5, <1>6 DEF EarlyInv
<1> QED BY <1>8, <1>9, <1>10, <1>11 DEF TimersInv

(* A command about a socket: an add that is accepted, one that is refused, *)
(* a removal.                                                              *)
LEMMA ExecuteSocketSockets ==
    ASSUME IInv, ExecuteCommand, NEW x, x = Head(pending), x.fd \in Sockets
    PROVE  SocketsInv'
<1>f. PICK f : f = x.fd
  OBVIOUS
<1>c. PICK c : c = x.tag.co
  OBVIOUS
<1>0. TypeOK /\ AddInv /\ SocketInv /\ ResumedInv /\ f \in Sockets /\ f \in Fds
  BY <1>f, Basics, FdFacts
<1>1. /\ UNCHANGED <<at, op, try, events>> /\ pending # <<>> /\ pending' = Tail(pending)
      /\ x \in Commands /\ 1 \in DOMAIN pending /\ x = pending[1]
      /\ \/ x.type = "Add" /\ Accepted(x) /\ open' = open /\ refused' = refused
            /\ armed' = [armed EXCEPT ![f] = x.mode]
            /\ callbacks' = [callbacks EXCEPT ![f] = x.tag]
         \/ x.type = "Add" /\ ~Accepted(x) /\ refused' = refused \cup {c}
            /\ open' = open /\ armed' = armed /\ callbacks' = callbacks
         \/ x.type \in {"Del", "Unreg"} /\ refused' = refused
            /\ armed' = [armed EXCEPT ![f] = "off"]
            /\ callbacks' = [callbacks EXCEPT ![f] = None]
            /\ open' = IF x.type = "Del" THEN open \ {f} ELSE open
      /\ (\A d \in Coros : Same(d)) /\ TypeOK' /\ PlaceInv'
      /\ x.type = "Add" => ~HasAdd(x.tag)'
  BY <1>f, <1>c, ExecuteFrame
<1>2. x.type = "Add" =>
          /\ c \in Coros /\ Suspended(c) /\ x.tag = Awaiter(c) /\ f = Descriptor(c) /\ ~Timed(c)
          /\ x.mode = "oneshot" /\ x.tag \in Awaiters /\ x.tag # None /\ Queued(c) /\ c \notin refused
  <2>1. x.type = "Add" => /\ c \in Coros /\ Suspended(c) /\ x.tag = Awaiter(c) /\ f = Descriptor(c)
                          /\ x.mode = IF Timed(c) THEN "level" ELSE "oneshot"
                          /\ c \notin refused
    BY <1>1, <1>f, <1>c, AddIs
  <2>2. x.type = "Add" => Queued(c)
    BY <2>1, <1>1 DEF Queued
  <2> QED BY <2>1, <2>2, <1>0, Basics, FdFacts DEF Suspended
<1>3. /\ \A g : /\ Leaving(g)' => Leaving(g)
                /\ Leaving(g) => Leaving(g)' \/ x = Unreg(g)
                /\ x = Unreg(g) => Leaving(g)
                /\ OneUnreg(g) => OneUnreg(g)' /\ (x = Unreg(g) => ~Leaving(g)')
      /\ \A a : /\ HasAdd(a)' => HasAdd(a)
                /\ HasAdd(a) => HasAdd(a)' \/ (x.type = "Add" /\ x.tag = a)
      /\ \A g, a : Released(a, g) => Released(a, g)' \/ x = Unreg(g)
  BY <1>0, <1>1, TakeHead
<1>4. /\ x.type # "Add" => x = Unreg(f)
      /\ \A g : x = Unreg(g) => g = f /\ x.type = "Unreg"
  BY <1>0, <1>1, <1>f, CommandFacts, FdFacts DEF AddInv, Unreg
<1>5. \A d \in Coros : /\ at'[d] = at[d] /\ Awaiter(d)' = Awaiter(d)
                       /\ Descriptor(d)' = Descriptor(d) /\ (Timed(d)' <=> Timed(d))
                       /\ (Suspended(d)' <=> Suspended(d)) /\ (Queued(d)' => Queued(d))
                       /\ Queued(d) => Queued(d)' \/ (x.type = "Add" /\ d = c)
                       /\ x.type = "Add" => ~Queued(c)'
  <2>1. \A d \in Coros : /\ at'[d] = at[d] /\ Awaiter(d)' = Awaiter(d)
                         /\ Descriptor(d)' = Descriptor(d) /\ (Timed(d)' <=> Timed(d))
                         /\ (Suspended(d)' <=> Suspended(d))
    BY <1>1, SameIs DEF Same
  <2>2. \A d \in Coros : x.type = "Add" => (x.tag = Awaiter(d) <=> d = c)
    BY <1>2 DEF Awaiter
  <2>3. \A d \in Coros : (Queued(d)' => Queued(d)) /\ (Queued(d) => Queued(d)' \/ (x.type = "Add" /\ d = c))
    BY <2>1, <2>2, <1>3 DEF Queued, HasAdd
  <2>4. x.type = "Add" => ~Queued(c)'
    BY <2>1, <1>1, <1>2 DEF Queued, HasAdd
  <2> QED BY <2>1, <2>3, <2>4
<1>6. \A a \in Awaiters : a.co \in Coros =>
          /\ Waits(a) => Waits(a)'
          /\ Resumed(a) => Resumed(a)'
          /\ Abandoned(a) => Abandoned(a)'
  <2>1. ASSUME NEW a \in Awaiters, a.co \in Coros, Waits(a) PROVE Waits(a)'
    <3>1. a.co \notin refused'
      BY <2>1, <1>1, <1>2 DEF Waits
    <3> QED BY <3>1, <2>1, <1>5 DEF Waits
  <2>2. ASSUME NEW a \in Awaiters, a.co \in Coros, Resumed(a) PROVE Resumed(a)'
    BY <2>2, <1>5 DEF Resumed
  <2>3. ASSUME NEW a \in Awaiters, a.co \in Coros, Abandoned(a) PROVE Abandoned(a)'
    BY <2>3, <1>1 DEF Abandoned, Operation
  <2> QED BY <2>1, <2>2, <2>3
<1>7. ASSUME NEW g \in Sockets, callbacks'[g] # None, callbacks'[g] = callbacks[g]
      PROVE  \/ Waits(callbacks[g])' \/ Resumed(callbacks[g])'
             \/ Released(callbacks[g], g)' \/ Abandoned(callbacks[g])'
  <2>b. PICK b : b = callbacks[g]
    OBVIOUS
  <2>1. b \in Awaiters /\ b.co \in Coros /\ b # None /\ callbacks'[g] = b
        /\ (Waits(b) \/ Resumed(b) \/ Released(b, g) \/ Abandoned(b))
    BY <2>b, <1>7, <1>0, Basics, FdFacts DEF SocketInv
  <2>2. x # Unreg(g)
    BY <1>0, <1>1, <1>4, <1>7 DEF TypeOK
  <2>3. Waits(b)' \/ Resumed(b)' \/ Released(b, g)' \/ Abandoned(b)'
    BY <2>1, <2>2, <1>3, <1>6
  <2>4. /\ Waits(b)' => Waits(callbacks[g])'
        /\ Resumed(b)' => Resumed(callbacks[g])'
        /\ Abandoned(b)' => Abandoned(callbacks[g])'
        /\ Released(b, g)' => Released(callbacks[g], g)'
    BY <2>1
  <2> QED BY <2>3, <2>4
<1>8. ASSUME NEW g \in Sockets, armed[g] = "oneshot" \/ g \in events
      PROVE  /\ callbacks[g] # None /\ x # Unreg(g) /\ ~Leaving(g)'
             /\ callbacks'[g] = callbacks[g] => Waits(callbacks[g])'
  <2>b. PICK b : b = callbacks[g]
    OBVIOUS
  <2>1. b # None /\ Waits(b) /\ ~Leaving(g) /\ b \in Awaiters /\ b.co \in Coros
    BY <2>b, <1>8, <1>0, Basics, FdFacts DEF SocketInv
  <2>2. callbacks'[g] = b => (Waits(b)' => Waits(callbacks[g])')
    OBVIOUS
  <2> QED BY <2>b, <2>1, <2>2, <1>3, <1>6
<1>9. \A g \in Sockets : g # f => armed'[g] = armed[g] /\ callbacks'[g] = callbacks[g]
                                  /\ (g \in open' <=> g \in open)
  BY <1>0, <1>1, FdFacts DEF TypeOK

<1>10. CASE x.type = "Add" /\ Accepted(x)
  <2>1. /\ open' = open /\ refused' = refused /\ armed'[f] = "oneshot" /\ callbacks'[f] = x.tag
        /\ f \in open /\ armed[f] = "off" /\ callbacks[f] = None /\ f \notin events /\ ~Leaving(f)
    BY <1>10, <1>0, <1>1, <1>2, <1>f DEF TypeOK, Accepted, SocketInv
  <2>2. Waits(x.tag)' /\ x.tag.co = c
    BY <1>10, <2>1, <1>2, <1>5, <1>c DEF Waits
  <2>3. Waits(callbacks[f])'
    BY <2>1, <2>2
  <2>4. Operation(x.tag).fd = f /\ Operation(x.tag).kind # "timer"
    BY <1>10, <1>2 DEF Descriptor, Current, Timed
  <2>5. SocketInv'
    <3>1. ASSUME NEW g \in Sockets, g # f
          PROVE  /\ armed'[g] \in {"off", "oneshot", "disabled"}
                 /\ g \notin open' => armed'[g] = "off"
                 /\ g \in open' => (armed'[g] = "off" <=> callbacks'[g] = None)
                 /\ armed'[g] = "oneshot" => g \notin events'
                 /\ armed'[g] = "oneshot" \/ g \in events' =>
                       callbacks'[g] # None /\ Waits(callbacks[g])' /\ ~Leaving(g)'
                 /\ callbacks'[g] # None =>
                       /\ Operation(callbacks'[g]).fd = g /\ Operation(callbacks'[g]).kind # "timer"
                       /\ \/ Waits(callbacks[g])' \/ Resumed(callbacks[g])'
                          \/ Released(callbacks[g], g)' \/ Abandoned(callbacks[g])'
                 /\ OneUnreg(g)' /\ (Leaving(g)' => callbacks'[g] # None)
      BY <3>1, <1>0, <1>1, <1>3, <1>7, <1>8, <1>9 DEF SocketInv
    <3>2. OneUnreg(f)' /\ ~Leaving(f)'
      BY <2>1, <1>0, <1>3 DEF SocketInv
    <3> QED BY <3>1, <3>2, <2>1, <2>3, <2>4, <1>1, <1>2, <1>10 DEF SocketInv, Operation
  <2>6. ResumedInv'
    <3>1. ASSUME NEW d \in Coros, at'[d] = "resumed", ~Timed(d)'
          PROVE  /\ callbacks'[Descriptor(d)'] = Awaiter(d)' /\ armed'[Descriptor(d)'] # "oneshot"
                 /\ Descriptor(d)' \notin events' /\ ~Leaving(Descriptor(d))'
      <4>g. PICK g : g = Descriptor(d)
        OBVIOUS
      <4>1. /\ callbacks[g] = Awaiter(d) /\ armed[g] # "oneshot" /\ g \notin events /\ ~Leaving(g)
            /\ g \in Sockets /\ Awaiter(d) # None /\ Descriptor(d)' = g
        BY <3>1, <4>g, <1>0, <1>5, Basics DEF ResumedInv
      <4>2. g # f
        BY <4>1, <2>1
      <4>3. ~Leaving(g)'
        BY <4>1, <1>3
      <4> QED BY <3>1, <4>1, <4>2, <4>3, <1>1, <1>5, <1>9
    <3>2. ASSUME NEW d \in Coros, Suspended(d)', ~Timed(d)', d \notin refused'
          PROVE  \/ Queued(d)'
                 \/ /\ callbacks'[Descriptor(d)'] = Awaiter(d)'
                    /\ (armed'[Descriptor(d)'] = "oneshot" \/ Descriptor(d)' \in events')
                 \/ Descriptor(d)' \notin open'
      <4>g. PICK g : g = Descriptor(d)
        OBVIOUS
      <4>0. /\ g \in Sockets /\ Awaiter(d) # None /\ Descriptor(d)' = g /\ Awaiter(d)' = Awaiter(d)
            /\ Suspended(d) /\ ~Timed(d) /\ d \notin refused
        BY <3>2, <4>g, <2>1, <1>5, Basics DEF Suspended
      <4>1. CASE d = c
        BY <4>1, <4>g, <4>0, <2>1, <1>2, <1>10
      <4>2. CASE d # c
        <5>1. \/ Queued(d)'
              \/ callbacks[g] = Awaiter(d) /\ (armed[g] = "oneshot" \/ g \in events)
              \/ g \notin open
          BY <4>2, <4>g, <4>0, <1>0, <1>5 DEF ResumedInv
        <5>2. callbacks[g] = Awaiter(d) => g # f
          BY <4>0, <2>1
        <5> QED BY <5>1, <5>2, <4>0, <2>1, <1>1, <1>9
      <4> QED BY <4>1, <4>2
    <3> QED BY <3>1, <3>2 DEF ResumedInv
  <2> QED BY <2>5, <2>6 DEF SocketsInv

<1>11. CASE x.type = "Add" /\ ~Accepted(x)
  <2>1. open' = open /\ armed' = armed /\ callbacks' = callbacks /\ refused' = refused \cup {c}
        /\ \A g : x # Unreg(g)
    BY <1>11, <1>1, <1>4
  <2>2. SocketInv'
    <3>1. ASSUME NEW g \in Sockets
          PROVE  /\ armed'[g] \in {"off", "oneshot", "disabled"}
                 /\ g \notin open' => armed'[g] = "off"
                 /\ g \in open' => (armed'[g] = "off" <=> callbacks'[g] = None)
                 /\ armed'[g] = "oneshot" => g \notin events'
                 /\ armed'[g] = "oneshot" \/ g \in events' =>
                       callbacks'[g] # None /\ Waits(callbacks[g])' /\ ~Leaving(g)'
                 /\ callbacks'[g] # None =>
                       /\ Operation(callbacks'[g]).fd = g /\ Operation(callbacks'[g]).kind # "timer"
                       /\ \/ Waits(callbacks[g])' \/ Resumed(callbacks[g])'
                          \/ Released(callbacks[g], g)' \/ Abandoned(callbacks[g])'
                 /\ OneUnreg(g)' /\ (Leaving(g)' => callbacks'[g] # None)
      BY <2>1, <1>0, <1>1, <1>3, <1>7, <1>8 DEF SocketInv
    <3> QED BY <3>1 DEF SocketInv, Operation
  <2>3. ResumedInv'
    <3>1. ASSUME NEW d \in Coros, at'[d] = "resumed", ~Timed(d)'
          PROVE  /\ callbacks'[Descriptor(d)'] = Awaiter(d)' /\ armed'[Descriptor(d)'] # "oneshot"
                 /\ Descriptor(d)' \notin events' /\ ~Leaving(Descriptor(d))'
      <4>g. PICK g : g = Descriptor(d)
        OBVIOUS
      <4>1. /\ callbacks[g] = Awaiter(d) /\ armed[g] # "oneshot" /\ g \notin events /\ ~Leaving(g)
            /\ Descriptor(d)' = g
        BY <3>1, <4>g, <1>0, <1>5 DEF ResumedInv
      <4>2. ~Leaving(g)'
        BY <4>1, <1>3
      <4> QED BY <3>1, <4>1, <4>2, <2>1, <1>1, <1>5
    <3>2. ASSUME NEW d \in Coros, Suspended(d)', ~Timed(d)', d \notin refused'
          PROVE  \/ Queued(d)'
                 \/ /\ callbacks'[Descriptor(d)'] = Awaiter(d)'
                    /\ (armed'[Descriptor(d)'] = "oneshot" \/ Descriptor(d)' \in events')
                 \/ Descriptor(d)' \notin open'
      BY <3>2, <2>1, <1>0, <1>1, <1>5 DEF ResumedInv
    <3> QED BY <3>1, <3>2 DEF ResumedInv
  <2> QED BY <2>2, <2>3 DEF SocketsInv

<1>12. CASE x.type # "Add"
  <2>1. /\ x = Unreg(f) /\ open' = open /\ refused' = refused /\ armed'[f] = "off"
        /\ callbacks'[f] = None /\ Leaving(f) /\ ~Leaving(f)' /\ OneUnreg(f)'
        /\ armed[f] # "oneshot" /\ f \notin events
    <3>1. x = Unreg(f) /\ x.type = "Unreg"
      BY <1>12, <1>4
    <3>2. Leaving(f) /\ (OneUnreg(f) => ~Leaving(f)' /\ OneUnreg(f)')
      BY <3>1, <1>3
    <3>3. OneUnreg(f) /\ (armed[f] = "oneshot" \/ f \in events => ~Leaving(f))
      BY <1>0, <1>1 DEF SocketInv
    <3>4. open' = open /\ refused' = refused /\ armed'[f] = "off" /\ callbacks'[f] = None
      BY <3>1, <1>0, <1>1 DEF TypeOK
    <3> QED BY <3>1, <3>2, <3>3, <3>4
  <2>2. SocketInv'
    <3>1. ASSUME NEW g \in Sockets, g # f
          PROVE  /\ armed'[g] \in {"off", "oneshot", "disabled"}
                 /\ g \notin open' => armed'[g] = "off"
                 /\ g \in open' => (armed'[g] = "off" <=> callbacks'[g] = None)
                 /\ armed'[g] = "oneshot" => g \notin events'
                 /\ armed'[g] = "oneshot" \/ g \in events' =>
                       callbacks'[g] # None /\ Waits(callbacks[g])' /\ ~Leaving(g)'
                 /\ callbacks'[g] # None =>
                       /\ Operation(callbacks'[g]).fd = g /\ Operation(callbacks'[g]).kind # "timer"
                       /\ \/ Waits(callbacks[g])' \/ Resumed(callbacks[g])'
                          \/ Released(callbacks[g], g)' \/ Abandoned(callbacks[g])'
                 /\ OneUnreg(g)' /\ (Leaving(g)' => callbacks'[g] # None)
      BY <3>1, <1>0, <1>1, <1>3, <1>7, <1>8, <1>9 DEF SocketInv
    <3> QED BY <3>1, <2>1, <1>1 DEF SocketInv, Operation
  <2>3. ResumedInv'
    <3>1. ASSUME NEW d \in Coros, at'[d] = "resumed", ~Timed(d)'
          PROVE  /\ callbacks'[Descriptor(d)'] = Awaiter(d)' /\ armed'[Descriptor(d)'] # "oneshot"
                 /\ Descriptor(d)' \notin events' /\ ~Leaving(Descriptor(d))'
      <4>g. PICK g : g = Descriptor(d)
        OBVIOUS
      <4>1. /\ callbacks[g] = Awaiter(d) /\ armed[g] # "oneshot" /\ g \notin events /\ ~Leaving(g)
            /\ g \in Sockets /\ Descriptor(d)' = g
        BY <3>1, <4>g, <1>0, <1>5, Basics DEF ResumedInv
      <4>2. g # f /\ ~Leaving(g)'
        BY <4>1, <2>1, <1>3
      <4> QED BY <3>1, <4>1, <4>2, <1>1, <1>5, <1>9
    <3>2. ASSUME NEW d \in Coros, Suspended(d)', ~Timed(d)', d \notin refused'
          PROVE  \/ Queued(d)'
                 \/ /\ callbacks'[Descriptor(d)'] = Awaiter(d)'
                    /\ (armed'[Descriptor(d)'] = "oneshot" \/ Descriptor(d)' \in events')
                 \/ Descriptor(d)' \notin open'
      <4>g. PICK g : g = Descriptor(d)
        OBVIOUS
      <4>0. /\ g \in Sockets /\ Descriptor(d)' = g /\ Awaiter(d)' = Awaiter(d)
            /\ Suspended(d) /\ ~Timed(d) /\ d \notin refused
        BY <3>2, <4>g, <2>1, <1>5, Basics DEF Suspended
      <4>1. \/ Queued(d)'
            \/ callbacks[g] = Awaiter(d) /\ (armed[g] = "oneshot" \/ g \in events)
            \/ g \notin open
        BY <4>g, <4>0, <1>0, <1>5, <1>12 DEF ResumedInv
      <4>2. armed[g] = "oneshot" \/ g \in events => g # f
        BY <2>1
      <4> QED BY <4>1, <4>2, <4>0, <2>1, <1>1, <1>9
    <3> QED BY <3>1, <3>2 DEF ResumedInv
  <2> QED BY <2>2, <2>3 DEF SocketsInv
<1> QED BY <1>10, <1>11, <1>12

LEMMA ExecuteInv ==
    ASSUME IInv, ExecuteCommand
    PROVE  IInv'
<1> DEFINE x == Head(pending)
<1>1. x \in Commands /\ TypeOK' /\ PlaceInv' /\ AddInv' /\ x = pending[1] /\ 1 \in DOMAIN pending
  BY ExecuteFrame
<1>2. x.fd \in Fds /\ x.type \in {"Add", "Unreg", "Del"}
      /\ (x.type = "Unreg" => x.fd \in Sockets) /\ (x.type = "Del" => x.fd \in Timers)
  BY <1>1, Basics, CommandFacts DEF AddInv
<1> HIDE DEF x
<1>3. CASE x.fd \in Sockets
  <2>1. SocketsInv'
    BY <1>3, ExecuteSocketSockets DEF x
  <2>2. TimersInv'
    BY <1>3, ExecuteSocketTimers DEF x
  <2> QED BY <1>1, <2>1, <2>2 DEF IInv
<1>4. CASE x.fd \in Timers
  <2>1. SocketsInv'
    BY <1>4, ExecuteTimerSockets DEF x
  <2>2. x.type = "Add" => TimersInv'
    BY <1>4, ExecuteAddTimers DEF x
  <2>3. x.type = "Del" => TimersInv'
    BY ExecuteDelTimers DEF x
  <2>4. x.type # "Unreg"
    BY <1>2, <1>4, FdFacts
  <2> QED BY <1>1, <1>2, <2>1, <2>2, <2>3, <2>4 DEF IInv
<1> QED BY <1>2, <1>3, <1>4, FdFacts
LEMMA PollInv ==
    ASSUME IInv, Poll
    PROVE  IInv'
<1>0. TypeOK /\ PlaceInv /\ SocketInv /\ ResumedInv /\ TimerInv
  BY Basics
<1>1. PICK ready \in SUBSET ReadyFds : Collect(ready)
  BY DEF Poll
<1>2. /\ UNCHANGED <<pending, callbacks, open, calling>> /\ events = {} /\ events' = ready
      /\ armed' = [f \in Fds |-> IF f \in ready /\ armed[f] = "oneshot" THEN "disabled" ELSE armed[f]]
      /\ UNCHANGED <<at, op, try, outcome, ticking, timerFd, tail, early, inbox, refused, faults>>
  BY <1>1 DEF Collect, Poll, coroutines, timers
<1>3. \A d \in Coros : Same(d)
  BY <1>2 DEF Same
<1>4. \A f \in ready : f \in Fds /\ armed[f] \in Modes /\ Possible(Operation(callbacks[f]))
  BY DEF ReadyFds
<1>5. TypeOK'
  <2>1. armed' \in [Fds -> Interests] /\ events' \subseteq Fds
    BY <1>0, <1>2, <1>4 DEF TypeOK, Interests
  <2> QED BY <2>1, <1>0, <1>2 DEF TypeOK
<1>6. PlaceInv'
  BY <1>0, <1>2, <1>3, SameIs DEF PlaceInv
<1>7. AddInv'
  BY <1>2, <1>3, QuietAdds
<1>8. \A d \in Coros : /\ Awaiter(d)' = Awaiter(d) /\ Descriptor(d)' = Descriptor(d)
                       /\ (Timed(d)' <=> Timed(d)) /\ (Suspended(d)' <=> Suspended(d))
                       /\ (Queued(d)' <=> Queued(d)) /\ (HasAdd(Awaiter(d))' <=> HasAdd(Awaiter(d)))
  BY <1>2, <1>3, SameIs, SamePending DEF Queued, HasAdd
<1>9. \A f \in Sockets : /\ f \in Fds
                         /\ \/ armed'[f] = armed[f] /\ f \notin events'
                            \/ f \in events' /\ armed[f] = "oneshot" /\ armed'[f] = "disabled"
  <2>1. \A f \in Sockets : f \in Fds /\ armed[f] \in {"off", "oneshot", "disabled"}
    BY <1>0, FdFacts DEF SocketInv
  <2> QED BY <2>1, <1>2, <1>4 DEF Modes
<1>10. SocketInv'
  <2>1. ASSUME NEW f \in Sockets, callbacks[f] # None
        PROVE  \/ Waits(callbacks[f])' \/ Resumed(callbacks[f])'
               \/ Released(callbacks[f], f)' \/ Abandoned(callbacks[f])'
    <3>b. PICK b : b = callbacks[f]
      OBVIOUS
    <3>1. /\ b \in Awaiters /\ b.co \in Coros /\ callbacks'[f] = b
          /\ (Waits(b) \/ Resumed(b) \/ Released(b, f) \/ Abandoned(b))
      BY <2>1, <3>b, <1>0, <1>2, Basics, FdFacts DEF SocketInv
    <3>2. Waits(b) => Waits(b)'
      BY <3>1, <1>2, <1>8 DEF Waits
    <3>3. Resumed(b) => Resumed(b)'
      BY <3>1, <1>2, <1>8 DEF Resumed
    <3>4. Abandoned(b) => Abandoned(b)'
      BY <1>2 DEF Abandoned, Operation
    <3>5. Released(b, f) => Released(b, f)'
      BY <1>2, SamePending
    <3>6. /\ Waits(b)' => Waits(callbacks[f])'
          /\ Resumed(b)' => Resumed(callbacks[f])'
          /\ Abandoned(b)' => Abandoned(callbacks[f])'
          /\ Released(b, f)' => Released(callbacks[f], f)'
      BY <3>1
    <3> QED BY <3>1, <3>2, <3>3, <3>4, <3>5, <3>6
  <2>2. ASSUME NEW f \in Sockets, armed'[f] = "oneshot" \/ f \in events'
        PROVE  callbacks[f] # None /\ Waits(callbacks[f])' /\ ~Leaving(f)'
    <3>b. PICK b : b = callbacks[f]
      OBVIOUS
    <3>1. armed[f] = "oneshot"
      BY <2>2, <1>9
    <3>2. b # None /\ Waits(b) /\ ~Leaving(f) /\ b \in Awaiters /\ b.co \in Coros /\ callbacks'[f] = b
      BY <3>1, <3>b, <1>0, <1>2, Basics, FdFacts DEF SocketInv
    <3>3. Waits(b)'
      BY <3>2, <1>2, <1>8 DEF Waits
    <3>4. Waits(b)' => Waits(callbacks[f])'
      BY <3>2
    <3> QED BY <3>b, <3>2, <3>3, <3>4, <1>2, SamePending
  <2>3. \A f \in Sockets : /\ armed'[f] \in {"off", "oneshot", "disabled"}
                           /\ f \notin open' => armed'[f] = "off"
                           /\ f \in open' => (armed'[f] = "off" <=> callbacks'[f] = None)
                           /\ armed'[f] = "oneshot" => f \notin events'
                           /\ callbacks'[f] # None => /\ Operation(callbacks'[f]).fd = f
                                                      /\ Operation(callbacks'[f]).kind # "timer"
    BY <1>0, <1>2, <1>9 DEF SocketInv
  <2>4. \A f \in Sockets : OneUnreg(f)' /\ (Leaving(f)' => callbacks'[f] # None)
    BY <1>0, <1>2, SamePending DEF SocketInv
  <2> QED BY <2>1, <2>2, <2>3, <2>4, <1>2 DEF SocketInv, Operation
<1>11. ResumedInv'
  <2>1. ASSUME NEW d \in Coros, at'[d] = "resumed", ~Timed(d)'
        PROVE  /\ callbacks'[Descriptor(d)'] = Awaiter(d)' /\ armed'[Descriptor(d)'] # "oneshot"
               /\ Descriptor(d)' \notin events' /\ ~Leaving(Descriptor(d))'
    <3>g. PICK g : g = Descriptor(d)
      OBVIOUS
    <3>1. /\ callbacks[g] = Awaiter(d) /\ armed[g] # "oneshot" /\ ~Leaving(g)
          /\ g \in Sockets /\ Descriptor(d)' = g
      BY <2>1, <3>g, <1>0, <1>2, <1>8, Basics DEF ResumedInv
    <3>2. ~Leaving(g)'
      BY <3>1, <1>2, SamePending
    <3> QED BY <3>1, <3>2, <1>2, <1>8, <1>9
  <2>2. ASSUME NEW d \in Coros, Suspended(d)', ~Timed(d)', d \notin refused'
        PROVE  \/ Queued(d)'
               \/ /\ callbacks'[Descriptor(d)'] = Awaiter(d)'
                  /\ (armed'[Descriptor(d)'] = "oneshot" \/ Descriptor(d)' \in events')
               \/ Descriptor(d)' \notin open'
    <3>g. PICK g : g = Descriptor(d)
      OBVIOUS
    <3>1. /\ Queued(d) \/ (callbacks[g] = Awaiter(d) /\ armed[g] = "oneshot") \/ g \notin open
          /\ g \in Sockets /\ Descriptor(d)' = g
      BY <2>2, <3>g, <1>0, <1>2, <1>8, Basics DEF ResumedInv, Suspended
    <3> QED BY <3>1, <1>2, <1>8, <1>9
  <2> QED BY <2>1, <2>2 DEF ResumedInv
<1>12. TimersInv'
  <2>1. ASSUME NEW f \in Timers
        PROVE  /\ f \in Fds /\ armed'[f] = armed[f]
               /\ f \in events' => f \in events \/ inbox[f]
    <3>1. f \in Fds /\ armed[f] # "oneshot"
      BY <1>0, FdFacts DEF TimerInv
    <3>2. f \in ready => Operation(callbacks[f]).fd = f /\ Operation(callbacks[f]).kind = "timer"
      BY <1>0, <1>4 DEF TimerInv, Modes
    <3>3. f \in ready => inbox[f]
      BY <3>2, <1>4 DEF Possible
    <3> QED BY <3>1, <3>3, <1>2
  <2> QED BY <2>1, <1>2, <1>3, <1>5, <1>6, <1>8, SamePending, QuietTimers
<1> QED BY <1>5, <1>6, <1>7, <1>10, <1>11, <1>12 DEF IInv, SocketsInv
(* A callback that is there resumes the coroutine it was registered for.   *)
LEMMA WhoIsResumed ==
    ASSUME IInv, NEW f \in events, NEW a, a = callbacks[f], a # None
    PROVE  /\ a \in Awaiters /\ a.co \in Coros /\ Suspended(a.co) /\ a = Awaiter(a.co)
           /\ Descriptor(a.co) = f /\ ~Queued(a.co) /\ a.co \notin refused /\ f \in Fds
           /\ Timed(a.co) <=> f \in Timers
<1>0. TypeOK /\ PlaceInv /\ SocketInv /\ TimerInv /\ OnInv /\ f \in Fds
  BY Basics DEF TypeOK
<1>1. a \in Awaiters /\ a.co \in Coros
  BY <1>0, Basics
<1>2. CASE f \in Sockets
  <2>1. Waits(a) /\ Operation(a).fd = f /\ Operation(a).kind # "timer"
    BY <1>0, <1>2 DEF SocketInv
  <2> QED BY <2>1, <1>0, <1>1, <1>2, FdFacts DEF Waits, Descriptor, Timed, Current
<1>3. CASE f \in Timers
  <2>1. PICK d \in Coros : at[d] \in {"arming", "suspended"} /\ On(d, f)
    BY <1>0, <1>3 DEF TimerInv
  <2>2. at[d] = "suspended" /\ ~Queued(d) /\ a = Awaiter(d)
    BY <2>1, <1>0, <1>3 DEF OnInv
  <2>3. a.co = d
    BY <2>2 DEF Awaiter
  <2> QED BY <2>1, <2>2, <2>3, <1>0, <1>1, <1>3 DEF On, Suspended, PlaceInv
<1> QED BY <1>0, <1>2, <1>3, FdFacts

LEMMA EmptyCallbackInv ==
    ASSUME IInv, NEW f \in Fds, Callback(f), callbacks[f] = None
    PROVE  IInv'
<1>0. TypeOK /\ PlaceInv
  BY Basics
<1>1. /\ f \in events /\ events' = events \ {f} /\ ~calling /\ calling' = FALSE
      /\ UNCHANGED <<pending, callbacks, armed, open>>
      /\ UNCHANGED <<at, op, try, outcome, ticking, timerFd, tail, early, inbox, refused, faults>>
  BY DEF Callback, Dispatch, coroutines, timers
<1>2. f \in Timers
  BY <1>1, FdFacts, Basics DEF SocketInv
<1>3. \A d \in Coros : Same(d)
  BY <1>1 DEF Same
<1>4. TypeOK'
  BY <1>0, <1>1 DEF TypeOK
<1>5. PlaceInv'
  BY <1>0, <1>1, <1>3, SameIs DEF PlaceInv
<1>6. AddInv'
  BY <1>1, <1>3, QuietAdds
<1>7. \A d \in Coros : HasAdd(Awaiter(d))' <=> HasAdd(Awaiter(d))
  BY <1>1, <1>3, SameIs, SamePending DEF HasAdd
<1>8. \A b \in Awaiters : Abandoned(b) => Abandoned(b)'
  BY <1>1 DEF Abandoned, Operation
<1>9. SocketsInv'
  BY <1>1, <1>2, <1>3, <1>4, <1>5, <1>7, <1>8, FdFacts, SamePending, QuietSockets
<1>10. TimersInv'
  BY <1>1, <1>3, <1>4, <1>5, <1>7, SamePending, QuietTimers
<1> QED BY <1>4, <1>5, <1>6, <1>9, <1>10 DEF IInv

LEMMA CallbackInv ==
    ASSUME IInv, NEW f \in Fds, Callback(f), callbacks[f] # None
    PROVE  IInv'
<1>a. PICK a : a = callbacks[f]
  OBVIOUS
<1>c. PICK c : c = a.co
  OBVIOUS
<1>0. /\ TypeOK /\ PlaceInv /\ AddInv /\ SocketInv /\ ResumedInv /\ TimerInv /\ OnInv
      /\ NumberInv /\ EarlyInv
  BY Basics
<1>1. /\ f \in events /\ events' = events \ {f} /\ ~calling /\ calling' = TRUE
      /\ UNCHANGED <<pending, callbacks, armed, open>>
      /\ UNCHANGED <<op, try, ticking, timerFd, tail, early, refused>>
      /\ at' = [at EXCEPT ![c] = "resumed"]
      /\ \E result \in {"ok", "error"} :
            /\ Transfer(Operation(a), result) /\ outcome' = [outcome EXCEPT ![c] = result]
  BY <1>a, <1>c DEF Callback, Dispatch, Resume, timers
<1>2. /\ a \in Awaiters /\ c \in Coros /\ Suspended(c) /\ a = Awaiter(c) /\ Descriptor(c) = f
      /\ ~Queued(c) /\ c \notin refused /\ (Timed(c) <=> f \in Timers)
      /\ Operation(a).fd = f /\ Operation(a) = Current(c)
  BY <1>1, <1>a, <1>c, WhoIsResumed DEF Descriptor, Current
<1>3. /\ outcome'[c] \in {"ok", "error"} /\ (Timed(c) => outcome'[c] = "ok")
      /\ outcome' \in [Coros -> {"none", "ok", "error"}]
      /\ \A d \in Coros : d # c => outcome'[d] = outcome[d]
  BY <1>0, <1>1, <1>2 DEF TypeOK, Transfer, Timed
<1>4. at'[c] = "resumed" /\ at[c] = "suspended" /\ \A d \in Coros : d # c => Same(d)
  BY <1>0, <1>1, <1>2 DEF TypeOK, Same, Suspended
<1>5. Awaiter(c)' = a /\ Descriptor(c)' = f /\ (Timed(c)' <=> Timed(c))
  BY <1>1, <1>2 DEF Awaiter, Descriptor, Timed, Current, Operation
<1>6. /\ inbox' \in [Fds -> BOOLEAN] /\ faults' \in 0 .. MaxFaults
      /\ \A g \in Timers : inbox'[g] = inbox[g] \/ (g = f /\ inbox[f] /\ ~inbox'[f])
      /\ f \in Timers => inbox[f] /\ ~inbox'[f]
  <2>1. PICK result \in {"ok", "error"} : Transfer(Operation(a), result)
    BY <1>1
  <2>2. /\ Operation(a).kind \in {"read", "write", "timer"}
        /\ Operation(a).kind = "timer" <=> f \in Timers
        /\ f \in Sockets => Peer[f] \in Sockets
    BY <1>2, AwaiterType, PlanAssumption DEF Timed
  <2>3. faults' \in 0 .. MaxFaults
    BY <2>1, <1>0, PlanAssumption DEF TypeOK, Transfer
  <2>4. CASE f \in Timers
    <3>1. inbox' = [inbox EXCEPT ![f] = FALSE] /\ inbox[f]
      BY <2>1, <2>2, <2>4, <1>2 DEF Transfer, CanSucceed, Possible
    <3>2. inbox \in [Fds -> BOOLEAN]
      BY <1>0 DEF TypeOK
    <3>3. inbox' \in [Fds -> BOOLEAN] /\ ~inbox'[f] /\ \A g \in Fds : g # f => inbox'[g] = inbox[g]
      BY <3>1, <3>2
    <3> QED BY <3>1, <3>3, <2>3, FdFacts
  <2>5. CASE f \in Sockets
    <3>1. \E g \in Sockets, v \in BOOLEAN : inbox' = inbox \/ inbox' = [inbox EXCEPT ![g] = v]
      BY <2>1, <2>2, <2>5, <1>2 DEF Transfer
    <3>2. inbox \in [Fds -> BOOLEAN]
      BY <1>0 DEF TypeOK
    <3>3. inbox' \in [Fds -> BOOLEAN] /\ \A g \in Fds : g \in Sockets \/ inbox'[g] = inbox[g]
      BY <3>1, <3>2
    <3> QED BY <3>3, <2>3, <2>5, FdFacts
  <2> QED BY <2>4, <2>5, FdFacts
<1>7. TypeOK'
  BY <1>0, <1>1, <1>3, <1>4, <1>6 DEF TypeOK
<1>8. PlaceInv'
  BY <1>0, <1>1, <1>2, <1>3, <1>4, <1>5, SameIs DEF PlaceInv, Same, Suspended
<1>9. ~Adds(c) /\ AddInv'
  <2>1. ~Adds(c)
    <3>1. \A i \in DOMAIN pending : pending[i].type = "Add" /\ pending[i].tag.co = c =>
              pending[i].tag = Awaiter(c)
      BY AddIs
    <3> QED BY <3>1, <1>2 DEF Adds, Queued
  <2> QED BY <2>1, <1>1, <1>4, QuietAdds
<1>10. /\ \A g : (Leaving(g)' <=> Leaving(g)) /\ (OneUnreg(g)' <=> OneUnreg(g))
       /\ \A g : (Deleted(g)' <=> Deleted(g)) /\ (OneDel(g)' <=> OneDel(g)) /\ (Taken(g)' <=> Taken(g))
       /\ \A b : HasAdd(b)' <=> HasAdd(b)
       /\ \A g, b : Released(b, g)' <=> Released(b, g)
  BY <1>1, SamePending DEF Taken
<1>11. \A d \in Coros : d # c =>
          /\ at'[d] = at[d] /\ Awaiter(d)' = Awaiter(d) /\ Descriptor(d)' = Descriptor(d)
          /\ (Timed(d)' <=> Timed(d)) /\ (Queued(d)' <=> Queued(d))
          /\ (Suspended(d)' <=> Suspended(d)) /\ (\A g : On(d, g)' <=> On(d, g))
          /\ (HasAdd(Awaiter(d))' <=> HasAdd(Awaiter(d)))
  BY <1>4, <1>10, SameIs DEF Queued, HasAdd, Same
<1>12. \A b \in Awaiters : b.co \in Coros /\ Abandoned(b) => Abandoned(b)'
  BY <1>0, <1>1, <1>4 DEF Abandoned, Operation, Same

<1>13. CASE f \in Timers
  <2>1. SocketsInv'
    <3>1. \A d \in Coros : Same(d) \/ (~SocketBusy(d) /\ ~SocketBusy(d)')
      BY <1>2, <1>4, <1>5, <1>13 DEF SocketBusy
    <3>2. \A d \in Coros : SocketBusy(d) => (HasAdd(Awaiter(d))' <=> HasAdd(Awaiter(d)))
      BY <1>2, <1>11, <1>13 DEF SocketBusy
    <3>3. \A b \in Awaiters : Abandoned(b) => Abandoned(b)'
      BY <1>12, AwaiterType
    <3> QED BY <3>1, <3>2, <3>3, <1>1, <1>7, <1>8, <1>10, <1>13, FdFacts, QuietSockets
  <2>2. \A d \in Coros, g \in Timers : On(d, g)' <=> On(d, g)
    BY <1>2, <1>4, <1>5, <1>11 DEF On
  <2>3. On(c, f) /\ \A g \in Timers : On(c, g) => g = f
    BY <1>2, <1>4, <1>13 DEF On
  <2>4. TimerInv'
    <3>1. ASSUME NEW g \in Timers, inbox'[g] \/ g \in ticking' \/ g \in events'
          PROVE  \E d \in Coros : at'[d] \in {"arming", "suspended"} /\ On(d, g)'
      <4>1. g # f
        BY <3>1, <1>0, <1>1, <1>6, <1>13 DEF TimerInv
      <4>2. PICK d \in Coros : at[d] \in {"arming", "suspended"} /\ On(d, g)
        BY <3>1, <1>0, <1>1, <1>6 DEF TimerInv
      <4>3. d # c
        BY <4>1, <4>2, <2>3
      <4> QED BY <4>2, <4>3, <1>11
    <3>2. \A g \in Timers : inbox'[g] => g \notin ticking'
      BY <1>0, <1>1, <1>6 DEF TimerInv
    <3> QED BY <3>1, <3>2, <1>0, <1>1, <1>10 DEF TimerInv, Operation
  <2>5. OnInv'
    <3>1. ASSUME NEW d \in Coros, NEW g \in Timers, On(d, g)'
          PROVE  /\ Taken(g)' /\ \A e \in Coros : On(e, g)' => e = d
                 /\ at'[d] = "arming" \/ (at'[d] = "suspended" /\ Queued(d)') =>
                       callbacks'[g] = None /\ armed'[g] = "off"
                 /\ at'[d] = "suspended" /\ ~Queued(d)' =>
                       callbacks'[g] = Awaiter(d)' /\ armed'[g] = "level"
      <4>1. On(d, g) /\ Taken(g)' /\ \A e \in Coros : On(e, g)' => e = d
        BY <3>1, <2>2, <1>0, <1>10 DEF OnInv
      <4>2. CASE d = c
        BY <4>1, <4>2, <1>4
      <4>3. CASE d # c
        BY <4>1, <4>3, <1>0, <1>1, <1>11 DEF OnInv
      <4> QED BY <4>1, <4>2, <4>3
    <3> QED BY <3>1 DEF OnInv
  <2>6. NumberInv'
    <3>1. \A b \in tail : b \in Awaiters /\ b.co \in Coros /\ Operation(b).fd \in Timers
      BY <1>0, Basics, AwaiterType DEF NumberInv
    <3>2. ASSUME NEW b \in tail
          PROVE  /\ Operation(b).kind = "timer" /\ Taken(Operation(b).fd)'
                 /\ \A d \in Coros : timerFd'[d] # Operation(b).fd
                 /\ \A d \in Coros : On(d, Operation(b).fd)' => b = Awaiter(d)' /\ at'[d] # "arming"
                 /\ b # Awaiter(b.co)' \/ at'[b.co] \notin {"suspended", "resumed"} => b.co \in early'
                 /\ b.op # 1 => calling' /\ b = Awaiter(b.co)' /\ Suspended(b.co)'
                 /\ b.op < op'[b.co] \/ (b.op = op'[b.co] /\ at'[b.co] \in {"suspended", "resumed"})
      <4>1. /\ Operation(b).kind = "timer" /\ Taken(Operation(b).fd)'
            /\ \A d \in Coros : timerFd'[d] # Operation(b).fd
            /\ b.op = 1
        BY <3>1, <1>0, <1>1, <1>10 DEF NumberInv
      <4>2. \A d \in Coros : On(d, Operation(b).fd)' => b = Awaiter(d)' /\ at'[d] # "arming"
        BY <3>1, <2>2, <1>0, <1>2, <1>4, <1>5, <1>11 DEF NumberInv
      <4>3. b # Awaiter(b.co)' \/ at'[b.co] \notin {"suspended", "resumed"} => b.co \in early'
        BY <3>1, <1>0, <1>1, <1>2, <1>4, <1>5, <1>11 DEF NumberInv
      <4>4. b.op < op'[b.co] \/ (b.op = op'[b.co] /\ at'[b.co] \in {"suspended", "resumed"})
        BY <3>1, <1>0, <1>1, <1>4, <1>11 DEF NumberInv
      <4> QED BY <4>1, <4>2, <4>3, <4>4
    <3>3. ASSUME NEW d \in Coros, timerFd[d] # None
          PROVE  /\ Taken(timerFd[d])'
                 /\ \A e \in Coros : On(e, timerFd[d])' => e = d /\ at'[e] # "arming"
                 /\ \A e \in Coros : timerFd'[e] = timerFd'[d] => e = d
      <4>1. timerFd[d] \in Timers /\ timerFd'[d] = timerFd[d]
        BY <3>3, <1>0, <1>1 DEF TypeOK
      <4> QED BY <3>3, <4>1, <2>2, <1>0, <1>1, <1>4, <1>10, <1>11 DEF NumberInv
    <3>4. ASSUME NEW d \in Coros, at'[d] \in {"suspended", "resumed"}, Timed(d)',
                 Awaiter(d)' \notin tail, timerFd[d] # Descriptor(d)'
          PROVE  d \in early
      BY <3>4, <1>0, <1>2, <1>4, <1>5, <1>11 DEF NumberInv
    <3> QED BY <3>2, <3>3, <3>4, <1>0, <1>1 DEF NumberInv, Operation
  <2>7. EarlyInv'
    BY <2>2, <1>0, <1>1, <1>10 DEF EarlyInv
  <2> QED BY <2>1, <2>4, <2>5, <2>6, <2>7, <1>7, <1>8, <1>9 DEF IInv, TimersInv

<1>14. CASE f \in Sockets
  <2>0. ~Timed(c) /\ f \notin Timers /\ armed[f] # "oneshot" /\ ~Leaving(f)
    BY <1>0, <1>1, <1>2, <1>14, FdFacts DEF SocketInv
  <2>1. TimersInv'
    <3>1. \A d \in Coros : Same(d) \/ (~TimerBusy(d) /\ ~TimerBusy(d)' /\ op'[d] >= op[d])
      BY <2>0, <1>0, <1>1, <1>4, <1>5 DEF TimerBusy, TypeOK
    <3>2. \A d \in Coros : TimerBusy(d) => (HasAdd(Awaiter(d))' <=> HasAdd(Awaiter(d)))
      BY <2>0, <1>11 DEF TimerBusy
    <3>3. \A g \in Timers : inbox'[g] = inbox[g]
      BY <2>0, <1>6
    <3> QED BY <3>1, <3>2, <3>3, <1>1, <1>7, <1>8, <1>10, QuietTimers
  <2>2. ASSUME NEW g \in Sockets, callbacks[g] # None
        PROVE  \/ Waits(callbacks[g])' \/ Resumed(callbacks[g])'
               \/ Released(callbacks[g], g)' \/ Abandoned(callbacks[g])'
    <3>b. PICK b : b = callbacks[g]
      OBVIOUS
    <3>1. /\ b \in Awaiters /\ b.co \in Coros /\ callbacks'[g] = b /\ Operation(b).fd = g
          /\ (Waits(b) \/ Resumed(b) \/ Released(b, g) \/ Abandoned(b))
      BY <2>2, <3>b, <1>0, <1>1, Basics, FdFacts DEF SocketInv
    <3>2. Waits(b) => Waits(b)' \/ Resumed(b)'
      <4>1. CASE b.co = c
        BY <4>1, <1>2, <1>4, <1>5 DEF Waits, Resumed
      <4>2. CASE b.co # c
        BY <4>2, <3>1, <1>1, <1>11 DEF Waits
      <4> QED BY <4>1, <4>2
    <3>3. Resumed(b) => Resumed(b)'
      BY <3>1, <1>4, <1>11 DEF Resumed
    <3>4. (Abandoned(b) => Abandoned(b)') /\ (Released(b, g) => Released(b, g)')
      BY <3>1, <1>10, <1>12
    <3>5. /\ Waits(b)' => Waits(callbacks[g])'
          /\ Resumed(b)' => Resumed(callbacks[g])'
          /\ Abandoned(b)' => Abandoned(callbacks[g])'
          /\ Released(b, g)' => Released(callbacks[g], g)'
      BY <3>1
    <3> QED BY <3>1, <3>2, <3>3, <3>4, <3>5
  <2>3. ASSUME NEW g \in Sockets, armed'[g] = "oneshot" \/ g \in events'
        PROVE  callbacks[g] # None /\ Waits(callbacks[g])' /\ ~Leaving(g)'
    <3>b. PICK b : b = callbacks[g]
      OBVIOUS
    <3>1. /\ b # None /\ Waits(b) /\ ~Leaving(g) /\ b \in Awaiters /\ b.co \in Coros
          /\ callbacks'[g] = b /\ Operation(b).fd = g /\ g # f
      BY <2>0, <2>3, <3>b, <1>0, <1>1, Basics, FdFacts DEF SocketInv
    <3>2. b.co # c
      BY <3>1, <1>2 DEF Waits
    <3>3. Waits(b)'
      BY <3>1, <3>2, <1>1, <1>11 DEF Waits
    <3>4. Waits(b)' => Waits(callbacks[g])'
      BY <3>1
    <3> QED BY <3>b, <3>1, <3>3, <3>4, <1>10
  <2>4. SocketInv'
    <3>1. \A g \in Sockets : /\ armed'[g] \in {"off", "oneshot", "disabled"}
                             /\ g \notin open' => armed'[g] = "off"
                             /\ g \in open' => (armed'[g] = "off" <=> callbacks'[g] = None)
                             /\ armed'[g] = "oneshot" => g \notin events'
                             /\ callbacks'[g] # None => /\ Operation(callbacks'[g]).fd = g
                                                        /\ Operation(callbacks'[g]).kind # "timer"
                             /\ OneUnreg(g)' /\ (Leaving(g)' => callbacks'[g] # None)
      BY <1>0, <1>1, <1>10 DEF SocketInv
    <3> QED BY <2>2, <2>3, <3>1, <1>1 DEF SocketInv, Operation
  <2>5. ResumedInv'
    <3>1. ASSUME NEW d \in Coros, at'[d] = "resumed", ~Timed(d)'
          PROVE  /\ callbacks'[Descriptor(d)'] = Awaiter(d)' /\ armed'[Descriptor(d)'] # "oneshot"
                 /\ Descriptor(d)' \notin events' /\ ~Leaving(Descriptor(d))'
      <4>g. PICK g : g = Descriptor(d)
        OBVIOUS
      <4>1. CASE d = c
        <5>1. ~Leaving(f)'
          BY <2>0, <1>10
        <5> QED BY <4>1, <5>1, <2>0, <1>1, <1>5, <1>a
      <4>2. CASE d # c
        <5>1. /\ callbacks[g] = Awaiter(d) /\ armed[g] # "oneshot" /\ g \notin events /\ ~Leaving(g)
              /\ Descriptor(d)' = g
          BY <3>1, <4>2, <4>g, <1>0, <1>11 DEF ResumedInv
        <5>2. ~Leaving(g)'
          BY <5>1, <1>10
        <5> QED BY <4>2, <5>1, <5>2, <1>1, <1>11
      <4> QED BY <4>1, <4>2
    <3>2. ASSUME NEW d \in Coros, Suspended(d)', ~Timed(d)', d \notin refused'
          PROVE  \/ Queued(d)'
                 \/ /\ callbacks'[Descriptor(d)'] = Awaiter(d)'
                    /\ (armed'[Descriptor(d)'] = "oneshot" \/ Descriptor(d)' \in events')
                 \/ Descriptor(d)' \notin open'
      <4>g. PICK g : g = Descriptor(d)
        OBVIOUS
      <4>1. d # c
        BY <3>2, <1>4 DEF Suspended
      <4>2. /\ \/ Queued(d)
               \/ callbacks[g] = Awaiter(d) /\ (armed[g] = "oneshot" \/ g \in events)
               \/ g \notin open
            /\ Descriptor(d)' = g /\ Awaiter(d)' = Awaiter(d)
        BY <3>2, <4>1, <4>g, <1>0, <1>1, <1>11 DEF ResumedInv
      <4>3. callbacks[g] = Awaiter(d) => g # f
        BY <4>1, <1>a, <1>c DEF Awaiter
      <4> QED BY <4>1, <4>2, <4>3, <1>1, <1>11
    <3> QED BY <3>1, <3>2 DEF ResumedInv
  <2> QED BY <2>1, <2>4, <2>5, <1>7, <1>8, <1>9 DEF IInv, SocketsInv
<1> QED BY <1>13, <1>14, FdFacts

-----------------------------------------------------------------------------
LEMMA NextInv == IInv /\ [Next]_vars => IInv'
<1> SUFFICES ASSUME IInv, [Next]_vars PROVE IInv'
  OBVIOUS
<1>1. ASSUME NEW c \in Coros, CoroutineStep(c) PROVE IInv'
  <2>1. AwaitResume(c) => IInv'
    BY SocketResumeInv, TimerResumeInv
  <2> QED BY <1>1, <2>1, SuspendInv, MakeTimerInv, ArmTimerInv, RetryInv, GiveUpInv, EndInv
       DEF CoroutineStep
<1>2. ASSUME LoopStep PROVE IInv'
  BY <1>2, ExecuteInv, PollInv, ReturnInv, EmptyCallbackInv, CallbackInv DEF LoopStep
<1>3. ASSUME NEW a \in tail, Assign(a) PROVE IInv'
  BY <1>3, AssignInv
<1>4. ASSUME NEW f \in Timers, Expire(f) PROVE IInv'
  BY <1>4, ExpireInv
<1>5. CASE UNCHANGED vars
  <2>1. UNCHANGED <<table, coroutines, refused>> /\ UNCHANGED <<timers, inbox, faults>>
    BY <1>5 DEF vars
  <2>2. TypeOK'
    BY <2>1, Basics DEF TypeOK, table, coroutines, timers
  <2>3. PlaceInv' /\ AddInv' /\ SocketsInv' /\ \A d \in Coros : Same(d)
    BY <2>1, <2>2, NobodyMoves
  <2>4. \A d \in Coros : HasAdd(Awaiter(d))' <=> HasAdd(Awaiter(d))
    BY <2>1, <2>3, SameIs, SamePending DEF HasAdd, table
  <2>5. TimersInv'
    BY <2>1, <2>2, <2>3, <2>4, SamePending, QuietTimers DEF table, timers
  <2> QED BY <2>2, <2>3, <2>5 DEF IInv
<1> QED BY <1>1, <1>2, <1>3, <1>4, <1>5 DEF Next

LEMMA Invariance == Spec => []IInv
BY InitInv, NextInv, PTL DEF Spec
(* The type invariant of IoAwaitables.                                     *)
THEOREM TypeCorrect == Spec => []TypeOK
BY Invariance, PTL DEF IInv

(* A coroutine that awaits is queued, registered or collected: no other    *)
(* coroutine's add, removal or event takes that from it (reactor.hpp's     *)
(* executors and io_awaitables.hpp:38-54).                                 *)
THEOREM NobodyIsForgotten == Spec => []NoAwaiterForgotten
<1>1. IInv => NoAwaiterForgotten
  <2> SUFFICES ASSUME IInv, NEW c \in Coros, Suspended(c), c \notin refused
               PROVE  LET f == Descriptor(c) IN
                      \/ Queued(c)
                      \/ callbacks[f] = Awaiter(c) /\ (armed[f] \in Modes \/ f \in events)
                      \/ f \notin open
    BY DEF NoAwaiterForgotten
  <2>1. CASE Timed(c)
    <3>1. On(c, Descriptor(c)) /\ Descriptor(c) \in Timers
      BY <2>1, Basics DEF On, Suspended
    <3> QED BY <3>1, Basics DEF OnInv, Suspended, Modes
  <2>2. CASE ~Timed(c)
    BY <2>2, Basics DEF ResumedInv, Modes
  <2> QED BY <2>1, <2>2
<1> QED BY <1>1, Invariance, PTL

(* Only the timers of a coroutine that was resumed before timer_fd_ was    *)
(* assigned can stay open (reactor_epoll_tests.cpp:99).                    *)
THEOREM TimersAreFound == Spec => []NoTimerForgotten
<1>1. IInv => NoTimerForgotten
  <2>1. ASSUME NEW c \in Coros, NEW f, On(c, f) PROVE Awaited(f)
    BY <2>1 DEF On, Awaited
  <2> QED BY <2>1, Basics DEF EarlyInv, NoTimerForgotten
<1> QED BY <1>1, Invariance, PTL

(* A callback runs while its awaiter is alive and its coroutine suspended  *)
(* there (io_awaitables.hpp:45-49).                                        *)
THEOREM CallbacksAreRight == Spec => ResumesItsAwaiter
<1>1. ASSUME IInv, [Next]_vars, NEW f \in events \ events', calling'
      PROVE  Suspended(callbacks[f].co) /\ callbacks[f] = Awaiter(callbacks[f].co)
             /\ Descriptor(callbacks[f].co) = f
  <2>1. f \in Fds /\ Callback(f)
    <3>1. f \in Fds
      BY <1>1, Basics DEF TypeOK
    <3>2. ASSUME NEW c \in Coros, CoroutineStep(c) PROVE events' = events
      BY <3>2 DEF CoroutineStep, Suspend, MakeTimer, ArmTimer, AwaitResume, GiveBack, Retry, GiveUp,
                  End, Post, OpenFd, CloseFd, table
    <3>3. ASSUME ExecuteCommand \/ Return PROVE events' = events
      BY <3>3 DEF ExecuteCommand, Execute, Return, CallbackReturn
    <3>4. ASSUME Poll PROVE events = {}
      BY <3>4 DEF Poll, Collect
    <3>5. ASSUME NEW a \in tail, Assign(a) PROVE events' = events
      BY <3>5 DEF Assign, table
    <3>6. ASSUME NEW g \in Timers, Expire(g) PROVE events' = events
      BY <3>6 DEF Expire, table
    <3>7. ASSUME NEW g \in Fds, Callback(g) PROVE events' = events \ {g}
      BY <3>7 DEF Callback, Dispatch
    <3>8. UNCHANGED vars => events' = events
      BY DEF vars, table
    <3> QED BY <1>1, <3>1, <3>2, <3>3, <3>4, <3>5, <3>6, <3>7, <3>8 DEF Next, LoopStep
  <2>2. callbacks[f] # None
    BY <1>1, <2>1 DEF Callback, Dispatch
  <2> QED BY <1>1, <2>2, WhoIsResumed
<1>2. IInv /\ [Next]_vars =>
        [\A f \in events \ events' :
            LET a == callbacks[f] IN
            calling' => Suspended(a.co) /\ a = Awaiter(a.co) /\ Descriptor(a.co) = f]_vars
  BY <1>1
<1> QED BY <1>2, Invariance, PTL DEF Spec, ResumesItsAwaiter

(* An add fails only on a descriptor that another coroutine awaits, or     *)
(* that is closed, or after a read that failed (io_awaitables.hpp:52-60).  *)
THEOREM RefusalsAreClashes == Spec => OnlyClashesAreRefused
<1>1. ASSUME IInv, [Next]_vars, NEW c \in refused' \ refused
      PROVE  LET f == Descriptor(c)
                 holder == callbacks[f] IN
             \/ f \notin open
             \/ holder # None /\ holder.co # c
             \/ /\ holder # None /\ holder.op = op[c] /\ holder.try < try[c]
                /\ Operation(holder).kind = "read"
  <2> DEFINE x == Head(pending)
             f == Descriptor(c)
             h == callbacks[f]
  <2>1. ExecuteCommand
    <3>1. ASSUME NEW d \in Coros, CoroutineStep(d) PROVE refused' = refused
      BY <3>1 DEF CoroutineStep, Suspend, MakeTimer, ArmTimer, AwaitResume, Retry, GiveUp, End
    <3>2. ASSUME Poll \/ Return \/ \E g \in Fds : Callback(g) PROVE refused' = refused
      BY <3>2 DEF Poll, Return, Callback
    <3>3. ASSUME NEW a \in tail, Assign(a) PROVE refused' = refused
      BY <3>3 DEF Assign
    <3>4. ASSUME NEW g \in Timers, Expire(g) PROVE refused' = refused
      BY <3>4 DEF Expire
    <3>5. UNCHANGED vars => refused' = refused
      BY DEF vars
    <3> QED BY <1>1, <3>1, <3>2, <3>3, <3>4, <3>5 DEF Next, LoopStep
  <2>2. /\ pending # <<>> /\ pending' = Tail(pending) /\ 1 \in DOMAIN pending /\ x = pending[1]
        /\ x.type = "Add" /\ ~Accepted(x) /\ c = x.tag.co
    BY <1>1, <2>1, ExecuteFrame
  <2>3. /\ c \in Coros /\ Suspended(c) /\ x.tag = Awaiter(c) /\ x.fd = f /\ Queued(c)
    BY <1>1, <2>2, AddIs DEF Queued
  <2>4. ~Timed(c) /\ f \in Sockets /\ f \in Fds
    BY <1>1, <2>2, <2>3, TimerIsAccepted, Basics, FdFacts DEF Suspended
  <2>5. f \notin open \/ h # None
    BY <1>1, <2>2, <2>3, <2>4, Basics DEF SocketInv, Accepted
  <2>6. ASSUME h # None, h.co = c
        PROVE  h.op = op[c] /\ h.try < try[c] /\ Operation(h).kind = "read"
    <3>1. /\ Waits(h) \/ Resumed(h) \/ Released(h, f) \/ Abandoned(h)
          /\ h \in Awaiters
      BY <1>1, <2>4, <2>6, Basics DEF SocketInv
    <3>2. ~Waits(h) /\ ~Resumed(h)
      BY <2>3, <2>6 DEF Waits, Resumed, Suspended
    <3>3. ~Released(h, f)
      BY <1>1, <2>2, <2>6, TakeHead, Basics
    <3>4. h.try \in Nat /\ try[c] \in Nat
      BY <1>1, <2>3, <3>1, AwaiterType, Basics, PlanAssumption DEF TypeOK
    <3> QED BY <2>3, <2>6, <3>1, <3>2, <3>3, <3>4 DEF Abandoned, Suspended
  <2> QED BY <2>5, <2>6
<1>2. IInv /\ [Next]_vars =>
        [\A c \in refused' \ refused :
            LET f == Descriptor(c)
                holder == callbacks[f] IN
            \/ f \notin open
            \/ holder # None /\ holder.co # c
            \/ /\ holder # None /\ holder.op = op[c] /\ holder.try < try[c]
               /\ Operation(holder).kind = "read"]_vars
  BY <1>1
<1> QED BY <1>2, Invariance, PTL DEF Spec, OnlyClashesAreRefused


================================================================================
