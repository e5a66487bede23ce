---------------------------- MODULE IoUringProofs -----------------------------
(***************************************************************************)
(* Theorems about IoUring, for any objects, descriptors and bounds.        *)
(*                                                                         *)
(* At any time at most one operation is outstanding: it is being           *)
(* submitted, or the kernel works on it, or its callback is in the map.    *)
(* While it is, the program leaves the object alone whose number it uses;  *)
(* and since no two objects hold one number, nothing that the program does *)
(* with the others closes it.  A callback leaves the map before it runs    *)
(* and never comes back, so that a completion that stays in the queue does *)
(* not run it again.  An operation whose submission failed leaves its      *)
(* callback in the map for good; the program then submits no other.        *)
(***************************************************************************)
EXTENDS IoUring, FiniteSetTheorems, SequenceTheorems, TLAPS

(* No two objects hold a number, none holds one that was released, and a   *)
(* number is open exactly when somebody holds it.                          *)
HolderInv ==
    /\ \A x, y \in Objs : obj[x] = obj[y] /\ obj[x] \in Fds => x = y
    /\ \A x \in Objs : obj[x] \notin raw
    /\ \A n \in Fds : file[n] # 0 <=> n \in raw \/ \E x \in Objs : obj[x] = n

(* At most two stops are ever queued: the program's and the destructor's.  *)
CountInv ==
    /\ mpc \in {"free", "push"} => cmdQ = 0
    /\ mpc \in {"wakeup", "stopped", "endpush"} => cmdQ <= 1

InSubmission(i) == \E t \in Submitters : spc[t] # "idle" /\ sid[t] = i
Live(i) == i \in kernel \/ InSubmission(i)
Outstanding == {i \in Ids : Live(i) \/ i \in iocb}
Completed == {cq[j] : j \in DOMAIN cq}

OpsInv ==
    /\ \A i \in Outstanding : i < nextId
    /\ \A i \in Completed : i < nextId /\ i \notin kernel
    /\ kernel \subseteq iocb
    /\ \A t \in Submitters : spc[t] = "mapped" => sid[t] \in iocb
    /\ \A i, j \in Outstanding : i = j
    /\ \A t \in Submitters : spc[t] # "idle" =>
          sid[t] \in Ids /\ sid[t] \notin kernel /\ sid[t] \notin Completed
    /\ \A t, u \in Submitters : spc[t] # "idle" /\ spc[u] # "idle" => t = u
    /\ rpc = "find" => cq # <<>>
    /\ spc[Loop] # "idle" => rpc = "await"
    /\ spc[Main] # "idle" => mpc = "free"

(* The program waits while an operation is outstanding (but for a failed   *)
(* submission, after which it submits no more) or its callback runs, and   *)
(* leaves alone the object that the operation uses.                        *)
UseInv ==
    /\ inUse # Invalid => obj[inUse] \in Fds
    /\ mpc = "free" /\ Outstanding # {} => inUse # Invalid
    /\ \A i \in Ids : Live(i) \/ i \in iocb \cap Completed => inUse # Invalid
    /\ rpc \in {"callback", "resumed"} => Outstanding = {} /\ inUse # Invalid
    /\ \A i \in Ids : Live(i) => target[i] = [fd |-> obj[inUse], gen |-> file[obj[inUse]]]

CalledInv ==
    /\ \A i \in Ids : i \in Outstanding \/ i >= nextId => called[i] = 0
    /\ rpc = "callback" => cur \in Ids /\ cur < nextId /\ called[cur] = 0
    /\ \A i \in Completed :
          i \in iocb \/ called[i] # 0 \/ (rpc = "callback" /\ cur = i)
    /\ CallbackOnce

IInv == TypeOK /\ HolderInv /\ CountInv /\ OpsInv /\ UseInv /\ CalledInv

-----------------------------------------------------------------------------
LEMMA InitInv == Init => IInv
<1> SUFFICES ASSUME Init PROVE IInv
  OBVIOUS
<1>1. cq = <<>> /\ cq \in Seq(Ids) /\ Completed = {} /\ Outstanding = {}
  BY DEF Init, Completed, Outstanding, Live, InSubmission
<1>2. TypeOK
  <2>1. 0 \in 0 .. MaxIds /\ 1 \in 1 .. MaxIds + 1 /\ 0 \in 0 .. MaxOpens
    BY BoundsAssumption, EventsAssumption
  <2>2. target \in [Ids -> [fd : Fds \cup {Invalid}, gen : 0 .. MaxOpens]]
    BY <2>1 DEF Init, NoFile
  <2>3. FdTypeOK
    BY <2>1 DEF Init, FdInit, FdTypeOK
  <2>4. nextId \in 1 .. MaxIds + 1 /\ cur \in 0 .. MaxIds
    BY <2>1 DEF Init
  <2>5. called \in [Ids -> Nat] /\ sid \in [Submitters -> 0 .. MaxIds]
    BY <2>1 DEF Init
  <2>6. /\ cmdQ \in 0 .. 2 /\ batch = {}
        /\ rpc = "none" /\ mpc = "free" /\ iocb = {} /\ kernel = {} /\ inUse = Invalid
    BY DEF Init
  <2>7. spc \in [Submitters -> {"idle", "taken", "mapped"}]
    BY DEF Init
  <2>8. running \in BOOLEAN /\ wake \in BOOLEAN
    BY DEF Init
  <2> QED BY <1>1, <2>2, <2>3, <2>4, <2>5, <2>6, <2>7, <2>8 DEF TypeOK
<1>3. HolderInv /\ CountInv
  BY EventsAssumption DEF Init, FdInit, HolderInv, CountInv
<1>4. OpsInv
  <2>1. \A t \in Submitters : spc[t] = "idle"
    BY DEF Init
  <2> QED BY <1>1, <2>1 DEF Init, OpsInv, Submitters
<1>5. UseInv
  <2>1. \A i \in Ids : ~Live(i)
    BY DEF Init, Live, InSubmission
  <2> QED BY <1>1, <2>1 DEF Init, UseInv
<1>6. CalledInv
  BY <1>1 DEF Init, CalledInv, CallbackOnce
<1> QED BY <1>2, <1>3, <1>4, <1>5, <1>6 DEF IInv

-----------------------------------------------------------------------------
(* The program's other objects.  What an action of FileDescriptor does is  *)
(* well typed, keeps one holder per open number, and leaves alone the      *)
(* number of an object it does not name.                                   *)
LEMMA FdStep ==
    ASSUME TypeOK, HolderInv, UseFiles
    PROVE  /\ FdTypeOK' /\ HolderInv'
           /\ inUse \in Objs /\ obj[inUse] \in Fds =>
                obj'[inUse] = obj[inUse] /\ file'[obj[inUse]] = file[obj[inUse]]
<1>1. /\ Invalid \notin Fds \cup Objs /\ Absent \notin Fds /\ Invalid # Absent
      /\ 0 \in 0 .. MaxOpens
  BY EventsAssumption
<1>2. /\ obj \in [Objs -> Fds \cup {Invalid, Absent}] /\ raw \subseteq Fds
      /\ file \in [Fds -> 0 .. MaxOpens] /\ gen \in [Fds -> 0 .. MaxOpens]
  BY DEF TypeOK, FdTypeOK
<1>3. /\ \A x, y \in Objs : obj[x] = obj[y] /\ obj[x] \in Fds => x = y
      /\ \A x \in Objs : obj[x] \notin raw
      /\ \A n \in Fds : file[n] # 0 <=> n \in raw \/ \E x \in Objs : obj[x] = n
  BY DEF HolderInv
<1>4. CASE \E x \in Objs, n \in Fds : Construct(x, n)
  <2> PICK x \in Objs, n \in Fds : Construct(x, n)
    BY <1>4
  <2>1. gen[n] + 1 \in 0 .. MaxOpens /\ gen[n] + 1 # 0
    BY <1>2, EventsAssumption DEF Construct
  <2>2. FdTypeOK'
    BY <1>2, <2>1 DEF Construct, FdTypeOK
  <2>3. HolderInv'
    BY <1>1, <1>2, <1>3, <2>1 DEF Construct, HolderInv
  <2> QED BY <1>1, <1>2, <1>3, <2>2, <2>3 DEF Construct
<1>5. CASE \E x \in Objs \ {inUse} : Release(x)
  BY <1>1, <1>2, <1>3, <1>5 DEF Release, FdTypeOK, HolderInv
<1>6. CASE \E x \in Objs \ {inUse} : CloseFd(x)
  BY <1>1, <1>2, <1>3, <1>6 DEF CloseFd, CloseNumber, FdTypeOK, HolderInv
<1>7. CASE \E x \in Objs \ {inUse} : DestroyFd(x)
  BY <1>1, <1>2, <1>3, <1>7 DEF DestroyFd, CloseNumber, FdTypeOK, HolderInv
<1>8. CASE \E n \in Fds : CloseRaw(n)
  BY <1>1, <1>2, <1>3, <1>8 DEF CloseRaw, CloseNumber, FdTypeOK, HolderInv
<1>9. ASSUME NEW x \in Objs \ {inUse}, NEW y \in Objs \ {inUse}, x # y,
             obj' = [obj EXCEPT ![x] = obj[y], ![y] = Invalid],
             file' = IF obj[x] \in Fds THEN [file EXCEPT ![obj[x]] = 0] ELSE file,
             UNCHANGED <<raw, gen>>
      PROVE  /\ FdTypeOK' /\ HolderInv'
             /\ inUse \in Objs /\ obj[inUse] \in Fds =>
                  obj'[inUse] = obj[inUse] /\ file'[obj[inUse]] = file[obj[inUse]]
  <2>1. \A z \in Objs : obj'[z] = IF z = y THEN Invalid ELSE IF z = x THEN obj[y] ELSE obj[z]
    BY <1>2, <1>9
  <2>2. \A n \in Fds : file'[n] = IF n = obj[x] THEN 0 ELSE file[n]
    BY <1>2, <1>9
  <2>3. FdTypeOK'
    <3>1. file' \in [Fds -> 0 .. MaxOpens]
      BY <1>1, <1>2, <1>9
    <3>2. obj' \in [Objs -> Fds \cup {Invalid, Absent}]
      BY <1>2, <1>9
    <3> QED BY <1>2, <1>9, <3>1, <3>2 DEF FdTypeOK
  <2>4. \A n \in Fds : (\E z \in Objs : obj'[z] = n) <=>
                       n # obj[x] /\ \E z \in Objs : obj[z] = n
    <3> SUFFICES ASSUME NEW n \in Fds
                 PROVE  (\E z \in Objs : obj'[z] = n) <=>
                        n # obj[x] /\ \E z \in Objs : obj[z] = n
      OBVIOUS
    <3>1. ASSUME NEW z \in Objs, obj'[z] = n
          PROVE  n # obj[x] /\ \E u \in Objs : obj[u] = n
      BY <1>1, <1>3, <1>9, <2>1, <3>1
    <3>2. ASSUME NEW z \in Objs, obj[z] = n, n # obj[x]
          PROVE  \E u \in Objs : obj'[u] = n
      <4>1. CASE z = y
        BY <1>9, <2>1, <3>2, <4>1
      <4>2. CASE z # y
        BY <2>1, <3>2, <4>2
      <4> QED BY <4>1, <4>2
    <3> QED BY <3>1, <3>2
  <2>5. HolderInv'
    <3>1. \A z, u \in Objs : obj'[z] = obj'[u] /\ obj'[z] \in Fds => z = u
      BY <1>1, <1>3, <2>1
    <3>2. \A z \in Objs : obj'[z] \notin raw'
      BY <1>1, <1>2, <1>3, <1>9, <2>1
    <3>3. \A n \in Fds : file'[n] # 0 <=> n \in raw' \/ \E z \in Objs : obj'[z] = n
      <4> SUFFICES ASSUME NEW n \in Fds
                   PROVE  file'[n] # 0 <=> n \in raw' \/ \E z \in Objs : obj'[z] = n
        OBVIOUS
      <4>1. file[n] # 0 <=> n \in raw \/ \E z \in Objs : obj[z] = n
        BY <1>3
      <4>2. n = obj[x] => n \notin raw
        BY <1>3
      <4>3. (\E z \in Objs : obj'[z] = n) <=> n # obj[x] /\ \E z \in Objs : obj[z] = n
        BY <2>4
      <4> QED BY <1>9, <2>2, <4>1, <4>2, <4>3
    <3> QED BY <3>1, <3>2, <3>3 DEF HolderInv
  <2>6. inUse \in Objs /\ obj[inUse] \in Fds => obj[inUse] # obj[x]
    BY <1>3, <1>9
  <2> QED BY <2>1, <2>2, <2>3, <2>5, <2>6
<1>10. CASE \E x \in Objs \ {inUse}, y \in Objs \ {inUse} : MoveAssign(x, y)
  BY <1>9, <1>10 DEF MoveAssign, CloseNumber
<1>11. CASE \E x \in Objs \ {inUse}, y \in Objs \ {inUse} : MoveConstruct(x, y)
  BY <1>1, <1>9, <1>11 DEF MoveConstruct
<1> QED BY <1>4, <1>5, <1>6, <1>7, <1>8, <1>10, <1>11 DEF UseFiles

LEMMA UseFilesInv == IInv /\ UseFiles => IInv'
<1> SUFFICES ASSUME IInv, UseFiles PROVE IInv'
  OBVIOUS
<1>1. /\ FdTypeOK' /\ HolderInv'
      /\ inUse \in Objs /\ obj[inUse] \in Fds =>
           obj'[inUse] = obj[inUse] /\ file'[obj[inUse]] = file[obj[inUse]]
  BY FdStep DEF IInv
<1>2. UNCHANGED <<reactor, mpc, io, inUse>>
  BY DEF UseFiles
<1>3. TypeOK'
  BY <1>1, <1>2 DEF IInv, TypeOK, reactor, io
<1>4. UNCHANGED <<Outstanding, Completed>> /\ \A i \in Ids : Live(i)' = Live(i)
  BY <1>2 DEF Outstanding, Completed, Live, InSubmission, io
<1>5. CountInv' /\ OpsInv' /\ CalledInv'
  BY <1>2, <1>4 DEF IInv, CountInv, OpsInv, CalledInv, CallbackOnce, reactor, io
<1>6. UseInv'
  <2>1. CASE inUse = Invalid
    BY <1>2, <1>4, <2>1 DEF IInv, UseInv, Outstanding, reactor, io
  <2>2. CASE inUse # Invalid
    <3>1. inUse \in Objs /\ obj[inUse] \in Fds
      BY <2>2 DEF IInv, TypeOK, UseInv
    <3> QED BY <1>1, <1>2, <1>4, <2>2, <3>1 DEF IInv, UseInv, reactor, io
  <2> QED BY <2>1, <2>2
<1> QED BY <1>1, <1>3, <1>5, <1>6 DEF IInv

-----------------------------------------------------------------------------
(* Steps that touch neither the operations nor the descriptors: those of   *)
(* the program's calls, and of the loop outside the completion handler.    *)
LEMMA QuietType ==
    ASSUME TypeOK, UNCHANGED <<io, inUse, fdVars, cur>>,
           running' \in BOOLEAN, wake' \in BOOLEAN, cmdQ' \in 0 .. 2,
           batch' \subseteq {Wake, Ring},
           rpc' \in {"none", "start", "check", "poll", "dispatch", "drain", "exec",
                     "peek", "find", "callback", "resumed", "await", "exited"},
           batch' # {} => rpc' \notin {"none", "start", "check", "poll", "exited"},
           mpc' \in {"free", "push", "wakeup", "stopped", "endpush", "endwakeup",
                     "join", "gone", "aborted"}
    PROVE  TypeOK'
  BY DEF TypeOK, FdTypeOK, io, fdVars

LEMMA QuietStep ==
    ASSUME IInv, UNCHANGED <<io, inUse, fdVars, cur>>,
           rpc' = rpc \/ rpc' \notin {"callback", "resumed"},
           rpc = "callback" => rpc' = "callback",
           rpc' = "find" => cq # <<>>,
           spc[Loop] # "idle" => rpc' = "await",
           spc[Main] # "idle" => mpc' = "free",
           mpc' = "free" => mpc = "free"
    PROVE  HolderInv' /\ OpsInv' /\ UseInv' /\ CalledInv'
<1>1. UNCHANGED <<Outstanding, Completed>> /\ \A i \in Ids : Live(i)' = Live(i)
  BY DEF Outstanding, Completed, Live, InSubmission, io
<1>2. HolderInv'
  BY DEF IInv, HolderInv, fdVars
<1>3. OpsInv'
  BY <1>1 DEF IInv, OpsInv, io
<1>4. UseInv'
  BY <1>1 DEF IInv, UseInv, io, fdVars
<1>5. CalledInv'
  BY <1>1 DEF IInv, CalledInv, CallbackOnce, io
<1> QED BY <1>2, <1>3, <1>4, <1>5

Control ==
    \/ Run \/ StopCall \/ StopPush \/ Wakeup \/ Destroy \/ Finished
    \/ Start \/ Check \/ Poll \/ PollNothing \/ BatchDone \/ Drain \/ Exec
    \/ Peek \/ CallbackReturn \/ \E e \in batch : Dispatch(e)

LEMMA ControlInv == IInv /\ Control => IInv'
<1> SUFFICES ASSUME IInv, Control PROVE IInv'
  OBVIOUS
<1>1. /\ TypeOK /\ CountInv /\ (spc[Loop] # "idle" => rpc = "await")
      /\ spc[Main] # "idle" => mpc = "free"
  BY DEF IInv, OpsInv
<1>2. CASE Run \/ Start \/ Check \/ Poll \/ PollNothing \/ BatchDone \/ Drain \/ Exec
           \/ Peek \/ CallbackReturn \/ \E e \in batch : Dispatch(e)
  <2>1. UNCHANGED <<io, inUse, fdVars, cur, mpc>>
    BY <1>2 DEF Run, Start, Check, Poll, PollNothing, BatchDone, Drain, Exec, Peek,
               CallbackReturn, Dispatch
  <2>2. spc[Loop] # "idle" => rpc' = "await"
    BY <1>1, <1>2 DEF Run, Start, Check, Poll, PollNothing, BatchDone, Drain, Exec, Peek,
               CallbackReturn, Dispatch, GoTo
  <2>3. /\ rpc' \in {"start", "check", "poll", "exited", "dispatch", "drain", "peek",
                     "exec", "find"}
        /\ rpc' = "find" => cq # <<>>
        /\ rpc # "callback"
    BY <1>2 DEF Run, Start, Check, Poll, PollNothing, BatchDone, Drain, Exec, Peek,
               CallbackReturn, Dispatch, GoTo
  <2>4. running' \in BOOLEAN /\ wake' \in BOOLEAN
    BY <1>1, <1>2 DEF TypeOK, Run, Start, Check, Poll, PollNothing, BatchDone, Drain,
               Exec, Peek, CallbackReturn, Dispatch, io, fdVars
  <2>5. cmdQ' = cmdQ \/ cmdQ' = 0
    BY <1>2 DEF Run, Start, Check, Poll, PollNothing, BatchDone, Drain, Exec, Peek,
               CallbackReturn, Dispatch
  <2>6. /\ batch' \subseteq {Wake, Ring}
        /\ batch' # {} => rpc' \notin {"none", "start", "check", "poll", "exited"}
    BY <1>1, <1>2 DEF TypeOK, GoTo, Run, Start, Check, Poll, PollNothing, BatchDone,
               Drain, Exec, Peek, CallbackReturn, Dispatch
  <2>7. TypeOK'
    <3>1. cmdQ' \in 0 .. 2
      BY <1>1, <2>5 DEF TypeOK
    <3>2. mpc' = mpc /\ mpc \in {"free", "push", "wakeup", "stopped", "endpush",
                                "endwakeup", "join", "gone", "aborted"}
      BY <1>1, <2>1 DEF TypeOK
    <3> QED BY <1>1, <2>1, <2>3, <2>4, <2>6, <3>1, <3>2, QuietType
  <2>8. CountInv'
    BY <1>1, <2>1, <2>5 DEF CountInv, TypeOK
  <2> QED BY <1>1, <2>1, <2>2, <2>3, <2>7, <2>8, QuietStep DEF IInv
<1>3. CASE StopCall \/ StopPush \/ Wakeup \/ Destroy \/ Finished
  <2>1. UNCHANGED <<io, inUse, fdVars, cur, rpc, batch>>
    BY <1>3 DEF StopCall, StopPush, Wakeup, Destroy, Finished, vars, reactor
  <2>2. running' \in BOOLEAN /\ wake' \in BOOLEAN
    BY <1>1, <1>3
    DEF TypeOK, StopCall, StopPush, Wakeup, Destroy, Finished, vars, reactor
  <2>3. /\ cmdQ' \in 0 .. 2 /\ CountInv'
        /\ mpc' \in {"free", "push", "wakeup", "stopped", "endpush", "endwakeup",
                     "join", "gone", "aborted"}
    BY <1>1, <1>3 DEF TypeOK, CountInv, StopCall, StopPush, Wakeup, Destroy, Finished,
                      MainFree, vars, reactor
  <2>4. TypeOK'
    BY <1>1, <2>1, <2>2, <2>3, QuietType DEF TypeOK
  <2>5. rpc = "find" => cq # <<>>
    BY DEF IInv, OpsInv
  <2>6. /\ mpc' = "free" => mpc = "free"
        /\ spc[Main] # "idle" => mpc' = "free"
    BY <1>1, <1>3 DEF StopCall, StopPush, Wakeup, Destroy, Finished, MainFree, vars
  <2> QED BY <1>1, <2>1, <2>3, <2>4, <2>5, <2>6, QuietStep DEF IInv
<1> QED BY <1>2, <1>3 DEF Control

-----------------------------------------------------------------------------
(* The steps of an operation.  The submission: by the program, when it     *)
(* waits for none; by the coroutine, when it was resumed.  Either way none *)
(* is outstanding, and the new one is for the number of the object in use. *)
LEMMA TakeIdInv ==
    ASSUME IInv, NEW t \in Submitters, NEW x \in Objs, obj[x] \in Fds,
           TakeId(t, obj[x]), inUse' = x, Outstanding = {},
           rpc' = IF t = Loop THEN "await" ELSE rpc,
           t = Main => mpc = "free" /\ rpc # "callback" /\ rpc # "resumed",
           rpc # "callback",
           \A u \in Submitters : spc[u] = "idle",
           UNCHANGED <<running, cmdQ, wake, batch, cur, mpc, fdVars>>
    PROVE  IInv'
<1>0. TypeOK /\ OpsInv /\ UseInv /\ CalledInv /\ HolderInv /\ CountInv
  BY DEF IInv
<1>1. /\ nextId \in Ids /\ nextId' = nextId + 1 /\ nextId' \in 1 .. MaxIds + 1
      /\ nextId \in Nat /\ MaxMain \in Nat
  BY <1>0, BoundsAssumption DEF TakeId, TypeOK, Ids
<1>2. /\ sid' = [sid EXCEPT ![t] = nextId] /\ spc' = [spc EXCEPT ![t] = "taken"]
      /\ target' = [target EXCEPT ![nextId] = [fd |-> obj[x], gen |-> file[obj[x]]]]
      /\ UNCHANGED <<iocb, kernel, cq, called>>
  BY DEF TakeId
<1>3. x # Invalid
  BY EventsAssumption
<1>4. \A u \in Submitters : spc'[u] # "idle" <=> u = t
  BY <1>0, <1>2 DEF TypeOK
<1>5. sid'[t] = nextId
  BY <1>0, <1>2 DEF TypeOK
<1>6. \A i \in Ids : i \notin kernel /\ i \notin iocb
  BY DEF Outstanding, Live
<1>7. \A i \in Ids : Live(i)' <=> i = nextId
  BY <1>2, <1>4, <1>5, <1>6 DEF Live, InSubmission
<1>8. Outstanding' = {nextId}
  BY <1>1, <1>2, <1>6, <1>7 DEF Outstanding
<1>9. Completed' = Completed
  BY <1>2 DEF Completed
<1>10. TypeOK'
  <2>1. target' \in [Ids -> [fd : Fds \cup {Invalid}, gen : 0 .. MaxOpens]]
    BY <1>0, <1>1, <1>2 DEF TypeOK, FdTypeOK
  <2>2. /\ sid' \in [Submitters -> 0 .. MaxIds]
        /\ spc' \in [Submitters -> {"idle", "taken", "mapped"}]
    BY <1>0, <1>1, <1>2 DEF TypeOK, Ids
  <2>3. /\ rpc' \in {"none", "start", "check", "poll", "dispatch", "drain", "exec",
                     "peek", "find", "callback", "resumed", "await", "exited"}
        /\ batch' # {} => rpc' \notin {"none", "start", "check", "poll", "exited"}
    BY <1>0 DEF TypeOK
  <2>4. FdTypeOK'
    BY <1>0 DEF TypeOK, FdTypeOK, fdVars
  <2> QED BY <1>0, <1>1, <1>2, <2>1, <2>2, <2>3, <2>4 DEF TypeOK
<1>11. HolderInv' /\ CountInv'
  BY <1>0 DEF HolderInv, CountInv, fdVars
<1>12. OpsInv'
  <2>1. \A i \in Completed' : i < nextId' /\ i \notin kernel'
    <3>1. Completed \subseteq Ids
      BY <1>0, ElementOfSeq DEF TypeOK, Completed
    <3> QED BY <1>0, <1>1, <1>2, <1>9, <3>1 DEF OpsInv, Ids
  <2>2. nextId \notin Completed'
    BY <1>0, <1>1, <1>9 DEF OpsInv
  <2>3. \A i \in Outstanding' : i < nextId'
    BY <1>1, <1>8
  <2>4. rpc' = "find" => cq' # <<>>
    BY <1>0, <1>2 DEF OpsInv
  <2>5. spc'[Loop] # "idle" => rpc' = "await"
    BY <1>4 DEF Submitters
  <2>6. spc'[Main] # "idle" => mpc' = "free"
    BY <1>4 DEF Submitters
  <2>8. \A u \in Submitters : spc'[u] # "mapped"
    BY <1>0, <1>2, <1>4 DEF TypeOK
  <2>7. \A u \in Submitters : spc'[u] # "idle" =>
          sid'[u] \in Ids /\ sid'[u] \notin kernel' /\ sid'[u] \notin Completed'
    BY <1>1, <1>2, <1>4, <1>5, <1>6, <2>2
  <2> QED BY <1>0, <1>2, <1>4, <1>8, <2>1, <2>3, <2>4, <2>5, <2>6, <2>7, <2>8 DEF OpsInv
<1>13. UseInv'
  <2>1. \A i \in Ids : Live(i)' =>
           target'[i] = [fd |-> obj'[inUse'], gen |-> file'[obj'[inUse']]]
    BY <1>0, <1>1, <1>2, <1>7 DEF TypeOK, fdVars
  <2>2. rpc' \notin {"callback", "resumed"}
    BY DEF Submitters
  <2> QED BY <1>3, <2>1, <2>2 DEF UseInv, fdVars
<1>14. CalledInv'
  <2>1. \A i \in Ids : i >= nextId => called[i] = 0
    BY <1>0 DEF CalledInv
  <2>2. \A i \in Ids : i \in Outstanding' \/ i >= nextId' => i >= nextId
    BY <1>1, <1>8 DEF Ids
  <2>3. rpc' # "callback"
    BY DEF Submitters
  <2> QED BY <1>0, <1>2, <1>9, <2>1, <2>2, <2>3 DEF CalledInv, CallbackOnce
<1> QED BY <1>10, <1>11, <1>12, <1>13, <1>14 DEF IInv

LEMMA SubmitInv == ASSUME IInv, NEW x \in Objs, Submit(x) PROVE IInv'
<1>1. Outstanding = {} /\ mpc = "free" /\ rpc \notin {"callback", "resumed"}
  BY DEF Submit, MaySubmit, Waiting, IInv, UseInv
<1>2. \A u \in Submitters : spc[u] = "idle"
  <2>1. \A u \in Submitters : spc[u] # "idle" => sid[u] \in Outstanding
    BY DEF IInv, OpsInv, Outstanding, Live, InSubmission
  <2> QED BY <1>1, <2>1
<1>3. Main \in Submitters /\ Main # Loop
  BY BoundsAssumption DEF Submitters
<1> QED BY <1>1, <1>2, <1>3, TakeIdInv DEF Submit, MaySubmit, reactor

LEMMA AwaitNextInv == ASSUME IInv, AwaitNext PROVE IInv'
<1>1. Outstanding = {} /\ inUse \in Objs /\ obj[inUse] \in Fds
  BY DEF AwaitNext, GoTo, IInv, UseInv, TypeOK
<1>2. \A u \in Submitters : spc[u] = "idle"
  <2>1. \A u \in Submitters : spc[u] # "idle" => sid[u] \in Outstanding
    BY DEF IInv, OpsInv, Outstanding, Live, InSubmission
  <2> QED BY <1>1, <2>1
<1>3. Loop \in Submitters /\ Main # Loop
  BY BoundsAssumption DEF Submitters
<1> QED BY <1>1, <1>2, <1>3, TakeIdInv DEF AwaitNext, GoTo

(* The rest of submit_io, on either thread: the operation stays the only   *)
(* one that is outstanding.                                                *)
LEMMA InSubmitInv == ASSUME IInv, NEW t \in Submitters, InSubmit(t) PROVE IInv'
<1>0. TypeOK /\ OpsInv /\ UseInv /\ CalledInv /\ HolderInv /\ CountInv
  BY DEF IInv
<1> DEFINE s == sid[t]
<1>1. /\ spc[t] # "idle" /\ s \in Ids /\ s \notin kernel /\ s \notin Completed
      /\ Live(s) /\ s \in Outstanding
  <2>1. spc[t] # "idle"
    BY DEF InSubmit, Advance
  <2> QED BY <1>0, <2>1 DEF OpsInv, Live, InSubmission, Outstanding
<1>2. UNCHANGED <<reactor, mpc, nextId, sid, cq, called, target, inUse, fdVars>>
  BY DEF InSubmit
<1>3. /\ kernel' \subseteq kernel \cup {s} /\ kernel \subseteq kernel'
      /\ iocb' \subseteq iocb \cup {s}
      /\ iocb \subseteq iocb'
      /\ \/ spc' = [spc EXCEPT ![t] = "mapped"] /\ kernel' = kernel
         \/ spc' = [spc EXCEPT ![t] = "idle"] /\ s \in kernel'
      /\ spc' = [spc EXCEPT ![t] = "mapped"] => s \in iocb'
      /\ s \in kernel' => s \in iocb'
  BY <1>0, <1>1 DEF InSubmit, Advance, ToMap, ToKernel, OpsInv
<1>4. /\ \A u \in Submitters : u # t => spc'[u] = spc[u]
      /\ \A u \in Submitters : spc'[u] # "idle" => spc[u] # "idle"
      /\ spc'[t] # "idle" => kernel' = kernel
  BY <1>0, <1>1, <1>3 DEF TypeOK
<1>5. \A i \in Ids : Live(i)' <=> Live(i)
  <2>1. ASSUME NEW i \in Ids, i = s PROVE Live(i)'
    BY <1>0, <1>2, <1>3, <1>4, <2>1 DEF Live, InSubmission, TypeOK
  <2>2. ASSUME NEW i \in Ids, i # s PROVE Live(i)' <=> Live(i)
    <3>1. i \in kernel' <=> i \in kernel
      BY <1>3, <2>2
    <3>2. InSubmission(i)' <=> InSubmission(i)
      BY <1>2, <1>4, <2>2 DEF InSubmission
    <3> QED BY <3>1, <3>2 DEF Live
  <2> QED BY <1>1, <2>1, <2>2
<1>6. Outstanding' = Outstanding /\ Completed' = Completed
  BY <1>1, <1>2, <1>3, <1>5 DEF Outstanding, Completed
<1>7. TypeOK'
  <2>1. /\ kernel' \subseteq Ids /\ iocb' \subseteq Ids
        /\ spc' \in [Submitters -> {"idle", "taken", "mapped"}]
    BY <1>0, <1>1, <1>3 DEF TypeOK
  <2> QED BY <1>0, <1>2, <2>1 DEF TypeOK, FdTypeOK, fdVars, reactor
<1>8. HolderInv' /\ CountInv'
  BY <1>0, <1>2 DEF HolderInv, CountInv, fdVars, reactor
<1>9. OpsInv'
  <2>1. \A u \in Submitters : spc'[u] # "idle" =>
           sid'[u] \in Ids /\ sid'[u] \notin kernel' /\ sid'[u] \notin Completed'
    BY <1>0, <1>1, <1>2, <1>4, <1>6 DEF OpsInv
  <2>2. \A i \in Completed' : i < nextId' /\ i \notin kernel'
    BY <1>0, <1>1, <1>2, <1>3, <1>6 DEF OpsInv
  <2>3. Loop \in Submitters /\ Main \in Submitters
    BY DEF Submitters
  <2>4. kernel' \subseteq iocb'
    BY <1>0, <1>3 DEF OpsInv
  <2>5. \A u \in Submitters : spc'[u] = "mapped" => sid'[u] \in iocb'
    <3>1. \A u \in Submitters : spc[u] # "idle" => u = t
      BY <1>0, <1>1 DEF OpsInv
    <3>2. spc'[t] = "mapped" => s \in iocb'
      BY <1>0, <1>1, <1>3 DEF TypeOK
    <3> QED BY <1>2, <1>4, <3>1, <3>2
  <2> QED BY <1>0, <1>2, <1>4, <1>6, <2>1, <2>2, <2>3, <2>4, <2>5 DEF OpsInv, reactor
<1>10. UseInv'
  <2>1. \A i \in Ids : i \in iocb' \cap Completed' => i \in iocb \cap Completed
    BY <1>1, <1>3, <1>6
  <2> QED BY <1>0, <1>2, <1>5, <1>6, <2>1 DEF UseInv, fdVars, reactor
<1>11. CalledInv'
  BY <1>0, <1>2, <1>3, <1>6 DEF CalledInv, CallbackOnce, reactor
<1> QED BY <1>7, <1>8, <1>9, <1>10, <1>11 DEF IInv

(* submit_io throws after the callback entered the map: the operation is   *)
(* not live any more, and its callback stays.                              *)
LEMMA NotSubmittedInv == ASSUME IInv, NEW t \in Submitters, NotSubmitted(t) PROVE IInv'
<1>0. TypeOK /\ OpsInv /\ UseInv /\ CalledInv /\ HolderInv /\ CountInv
  BY DEF IInv
<1> DEFINE s == sid[t]
<1>1. /\ spc[t] = "mapped" /\ spc' = [spc EXCEPT ![t] = "idle"]
      /\ UNCHANGED <<reactor, nextId, sid, iocb, kernel, cq, called, target, fdVars>>
  BY DEF NotSubmitted, Advance
<1>2. /\ s \in Ids /\ s \notin kernel /\ s \notin Completed /\ s \in iocb
      /\ Live(s) /\ s \in Outstanding /\ inUse # Invalid
  BY <1>0, <1>1 DEF OpsInv, UseInv, Live, InSubmission, Outstanding
<1>3. \A i \in Outstanding : i = s
  BY <1>0, <1>2 DEF OpsInv
<1>4. /\ \A u \in Submitters : spc'[u] = "idle"
      /\ spc' \in [Submitters -> {"idle", "taken", "mapped"}]
  BY <1>0, <1>1 DEF OpsInv, TypeOK
<1>5. Completed' = Completed
  BY <1>1 DEF Completed
<1>6. \A i \in Ids : ~Live(i)'
  BY <1>1, <1>2, <1>3, <1>4 DEF Live, InSubmission, Outstanding
<1>7. Outstanding' \subseteq Outstanding
  BY <1>1, <1>6 DEF Outstanding
<1>8. \/ mpc' = "aborted" /\ inUse' = inUse
      \/ mpc' = "stopped" /\ inUse' = Invalid /\ mpc = "free"
  BY <1>0, <1>1 DEF NotSubmitted, Throw, OpsInv
<1>9. TypeOK'
  BY <1>0, <1>1, <1>4, <1>8 DEF TypeOK, FdTypeOK, fdVars, reactor
<1>10. HolderInv' /\ CountInv'
  BY <1>0, <1>1, <1>8 DEF HolderInv, CountInv, TypeOK, fdVars, reactor
<1>11. Main \in Submitters /\ Loop \in Submitters
  BY DEF Submitters
<1>12. OpsInv'
  BY <1>0, <1>1, <1>4, <1>5, <1>7, <1>11 DEF OpsInv, reactor
<1>13. UseInv'
  <2>1. \A i \in Ids : i \notin iocb \cap Completed
    BY <1>2, <1>3 DEF Outstanding
  <2>2. rpc \notin {"callback", "resumed"}
    BY <1>0, <1>2 DEF UseInv
  <2> QED BY <1>0, <1>1, <1>5, <1>6, <1>8, <2>1, <2>2 DEF UseInv, fdVars, reactor
<1>14. CalledInv'
  BY <1>0, <1>1, <1>5, <1>7 DEF CalledInv, CallbackOnce, reactor
<1> QED BY <1>9, <1>10, <1>12, <1>13, <1>14 DEF IInv

(* submit_io throws before it changed anything: only the caller's place    *)
(* changes.                                                                *)
LEMMA NoEntryInv == ASSUME IInv, NoEntry PROVE IInv'
<1>0. TypeOK /\ OpsInv /\ UseInv /\ CalledInv /\ HolderInv /\ CountInv
  BY DEF IInv
<1>1. UNCHANGED <<reactor, io, fdVars>>
  BY DEF NoEntry
<1>2. /\ \/ mpc' = "aborted" /\ inUse' = inUse
         \/ mpc' = "stopped" /\ inUse' = Invalid /\ mpc = "free" /\ inUse = Invalid
      /\ spc[Main] = "idle"
  BY <1>0, BoundsAssumption
  DEF NoEntry, Throw, MaySubmit, MainFree, Waiting, OpsInv, UseInv, Outstanding, Live,
      InSubmission, Submitters
<1>3. UNCHANGED <<Outstanding, Completed, inUse>> /\ \A i \in Ids : Live(i)' = Live(i)
  BY <1>1, <1>2 DEF Outstanding, Completed, Live, InSubmission, io
<1>4. TypeOK'
  BY <1>0, <1>1, <1>2 DEF TypeOK, FdTypeOK, fdVars, reactor, io
<1>5. HolderInv' /\ CountInv'
  BY <1>0, <1>1, <1>2 DEF HolderInv, CountInv, TypeOK, fdVars, reactor
<1>6. OpsInv'
  BY <1>0, <1>1, <1>2, <1>3 DEF OpsInv, reactor, io
<1>7. UseInv'
  BY <1>0, <1>1, <1>2, <1>3 DEF UseInv, reactor, io, fdVars
<1>8. CalledInv'
  BY <1>0, <1>1, <1>3 DEF CalledInv, CallbackOnce, reactor, io
<1> QED BY <1>4, <1>5, <1>6, <1>7, <1>8 DEF IInv

(* The kernel completes an operation. *)
LEMMA CompleteInv == ASSUME IInv, NEW i \in Ids, Complete(i) PROVE IInv'
<1>0. TypeOK /\ OpsInv /\ UseInv /\ CalledInv /\ HolderInv /\ CountInv
  BY DEF IInv
<1>1. /\ i \in kernel /\ kernel' = kernel \ {i} /\ cq' = Append(cq, i) /\ cq \in Seq(Ids)
      /\ UNCHANGED <<reactor, mpc, nextId, spc, sid, iocb, called, target, inUse, fdVars>>
  BY <1>0 DEF Complete, TypeOK
<1>2. cq' \in Seq(Ids) /\ cq' # <<>> /\ Completed' = Completed \cup {i}
  <2>1. cq' \in Seq(Ids) /\ cq' # <<>>
    BY <1>1, AppendProperties
  <2>2. DOMAIN cq' = DOMAIN cq \cup {Len(cq) + 1} /\ cq'[Len(cq) + 1] = i
    BY <1>1, AppendProperties
  <2>3. \A j \in DOMAIN cq : cq'[j] = cq[j]
    BY <1>1, AppendProperties
  <2> QED BY <2>1, <2>2, <2>3 DEF Completed
<1>3. \A j \in Ids : Live(j)' => Live(j)
  BY <1>1 DEF Live, InSubmission
<1>4. Outstanding' \subseteq Outstanding /\ i \in Outstanding
  BY <1>1, <1>3 DEF Outstanding, Live
<1>5. TypeOK'
  BY <1>0, <1>1, <1>2, SMTT(30) DEF TypeOK, FdTypeOK, fdVars, reactor
<1>6. HolderInv' /\ CountInv'
  BY <1>0, <1>1 DEF HolderInv, CountInv, fdVars, reactor
<1>7. OpsInv'
  <2>1. \A u \in Submitters : spc[u] # "idle" => sid[u] # i
    BY <1>0, <1>1 DEF OpsInv
  <2> QED BY <1>0, <1>1, <1>2, <1>4, <2>1 DEF OpsInv, reactor
<1>8. UseInv'
  <2>1. inUse # Invalid
    BY <1>0, <1>1 DEF UseInv, Live
  <2>2. \A j \in Ids : Live(j)' =>
           target'[j] = [fd |-> obj'[inUse'], gen |-> file'[obj'[inUse']]]
    BY <1>0, <1>1, <1>3 DEF UseInv, fdVars
  <2> QED BY <1>0, <1>1, <1>4, <2>1, <2>2 DEF UseInv, fdVars, reactor
<1>9. CalledInv'
  BY <1>0, <1>1, <1>2, <1>4 DEF OpsInv, CalledInv, CallbackOnce, reactor
<1> QED BY <1>5, <1>6, <1>7, <1>8, <1>9 DEF IInv

(* The callback is taken out of the map: its operation has completed, so   *)
(* none is outstanding any more.                                           *)
LEMMA FindInv == ASSUME IInv, Find PROVE IInv'
<1>0. TypeOK /\ OpsInv /\ UseInv /\ CalledInv /\ HolderInv /\ CountInv
  BY DEF IInv
<1> DEFINE h == Head(cq)
<1>1. /\ rpc = "find" /\ rpc' = (IF h \in iocb THEN "callback" ELSE "peek")
      /\ cur' = h /\ iocb' = iocb \ {h}
      /\ UNCHANGED <<running, cmdQ, wake, batch, mpc, nextId, spc, sid, kernel, cq,
                     called, target, inUse, fdVars>>
  BY DEF Find, GoTo
<1>2. h \in Ids /\ h \in Completed
  <2>1. cq \in Seq(Ids) /\ cq # <<>>
    BY <1>0, <1>1 DEF TypeOK, OpsInv
  <2>2. Len(cq) \in Nat /\ Len(cq) # 0 /\ DOMAIN cq = 1 .. Len(cq)
    BY <2>1, EmptySeq, LenProperties
  <2>3. 1 \in DOMAIN cq
    BY <2>2
  <2>4. h = cq[1]
    BY <2>1, HeadTailProperties
  <2>5. cq[1] \in Ids
    BY <2>1, <2>3, ElementOfSeq, <2>2
  <2> QED BY <2>3, <2>4, <2>5 DEF Completed
<1>3. ~Live(h) /\ h < nextId
  BY <1>0, <1>2 DEF OpsInv, Live, InSubmission
<1>4. \A i \in Ids : Live(i)' <=> Live(i)
  BY <1>1 DEF Live, InSubmission
<1>5. Outstanding' = Outstanding \ {h} /\ Completed' = Completed
  BY <1>1, <1>3, <1>4 DEF Outstanding, Completed
<1>6. h \in iocb => h \in Outstanding /\ Outstanding' = {} /\ called[h] = 0
  <2>1. h \in iocb => h \in Outstanding
    BY <1>2 DEF Outstanding
  <2> QED BY <1>0, <1>2, <1>5, <2>1 DEF OpsInv, CalledInv
<1>7. TypeOK'
  <2>1. cur' \in 0 .. MaxIds /\ iocb' \subseteq Ids
    <3>1. iocb' \subseteq Ids
      BY <1>0, <1>1 DEF TypeOK
    <3>2. \A i \in Ids : i \in 0 .. MaxIds
      BY BoundsAssumption DEF Ids
    <3> QED BY <1>1, <1>2, <3>1, <3>2
  <2>2. rpc' \in {"none", "start", "check", "poll", "dispatch", "drain", "exec",
                  "peek", "find", "callback", "resumed", "await", "exited"}
    BY <1>1
  <2>3. batch' # {} => rpc' \notin {"none", "start", "check", "poll", "exited"}
    BY <1>1
  <2> QED BY <1>0, <1>1, <2>1, <2>2, <2>3 DEF TypeOK, FdTypeOK, fdVars
<1>8. HolderInv' /\ CountInv'
  BY <1>0, <1>1 DEF HolderInv, CountInv, fdVars
<1>9. OpsInv'
  <2>1. kernel' \subseteq iocb' /\ \A t \in Submitters : spc'[t] = "mapped" => sid'[t] \in iocb'
    BY <1>0, <1>1, <1>2 DEF OpsInv
  <2> QED BY <1>0, <1>1, <1>5, <2>1 DEF OpsInv
<1>10. UseInv'
  <2>1. h \in iocb => inUse # Invalid
    BY <1>0, <1>2 DEF UseInv
  <2>2. \A i \in Ids : Live(i)' \/ i \in iocb' \cap Completed' => inUse' # Invalid
    BY <1>0, <1>1, <1>4, <1>5 DEF UseInv
  <2>3. \A i \in Ids : Live(i)' =>
           target'[i] = [fd |-> obj'[inUse'], gen |-> file'[obj'[inUse']]]
    BY <1>0, <1>1, <1>4 DEF UseInv, fdVars
  <2> QED BY <1>0, <1>1, <1>5, <1>6, <2>1, <2>2, <2>3 DEF UseInv, fdVars
<1>11. CalledInv'
  BY <1>0, <1>1, <1>2, <1>3, <1>5, <1>6 DEF CalledInv, CallbackOnce
<1> QED BY <1>7, <1>8, <1>9, <1>10, <1>11 DEF IInv

LEMMA CallbackInv == ASSUME IInv, Callback PROVE IInv'
<1>0. TypeOK /\ OpsInv /\ UseInv /\ CalledInv /\ HolderInv /\ CountInv
  BY DEF IInv
<1>1. /\ rpc = "callback" /\ rpc' = "resumed"
      /\ called' = [called EXCEPT ![cur] = @ + 1]
      /\ UNCHANGED <<running, cmdQ, wake, batch, cur, mpc, nextId, spc, sid, iocb,
                     kernel, cq, target, inUse, fdVars>>
  BY DEF Callback, GoTo
<1>2. /\ cur \in Ids /\ cur < nextId /\ called[cur] = 0 /\ Outstanding = {}
      /\ spc[Loop] = "idle"
  BY <1>0, <1>1 DEF CalledInv, UseInv, OpsInv
<1>3. \A i \in Ids : called'[i] = IF i = cur THEN 1 ELSE called[i]
  BY <1>0, <1>1, <1>2 DEF TypeOK
<1>4. Outstanding' = Outstanding /\ Completed' = Completed /\ \A i \in Ids : Live(i)' = Live(i)
  BY <1>1 DEF Outstanding, Completed, Live, InSubmission
<1>5. TypeOK'
  <2>1. called' \in [Ids -> Nat]
    BY <1>0, <1>1, <1>2 DEF TypeOK
  <2> QED BY <1>0, <1>1, <2>1 DEF TypeOK, FdTypeOK, fdVars
<1>6. HolderInv' /\ CountInv'
  BY <1>0, <1>1 DEF HolderInv, CountInv, fdVars
<1>7. OpsInv'
  BY <1>0, <1>1, <1>2, <1>4 DEF OpsInv
<1>8. UseInv'
  BY <1>0, <1>1, <1>4 DEF UseInv, fdVars
<1>9. CalledInv'
  <2>1. \A i \in Ids : i \in Outstanding' \/ i >= nextId' => called'[i] = 0
    BY <1>0, <1>1, <1>2, <1>3, <1>4 DEF CalledInv, TypeOK, Ids
  <2>2. Completed \subseteq Ids
    BY <1>0, ElementOfSeq DEF TypeOK, Completed
  <2>3. \A i \in Completed' : i \in iocb' \/ called'[i] # 0
    BY <1>0, <1>1, <1>3, <1>4, <2>2 DEF CalledInv
  <2> QED BY <1>0, <1>1, <1>3, <2>1, <2>3 DEF CalledInv, CallbackOnce
<1> QED BY <1>5, <1>6, <1>7, <1>8, <1>9 DEF IInv

LEMMA CoroutineEndsInv == ASSUME IInv, CoroutineEnds PROVE IInv'
<1>0. TypeOK /\ OpsInv /\ UseInv /\ CalledInv /\ HolderInv /\ CountInv
  BY DEF IInv
<1>1. /\ rpc = "resumed" /\ rpc' = "peek" /\ inUse' = Invalid
      /\ UNCHANGED <<running, cmdQ, wake, batch, cur, mpc, io, fdVars>>
  BY DEF CoroutineEnds, GoTo
<1>2. Outstanding = {} /\ spc[Loop] = "idle"
  BY <1>0, <1>1 DEF UseInv, OpsInv
<1>3. Outstanding' = {} /\ Completed' = Completed /\ \A i \in Ids : ~Live(i)'
  BY <1>1, <1>2 DEF Outstanding, Completed, Live, InSubmission, io
<1>4. TypeOK'
  BY <1>0, <1>1 DEF TypeOK, FdTypeOK, fdVars, io
<1>5. HolderInv' /\ CountInv'
  BY <1>0, <1>1 DEF HolderInv, CountInv, fdVars
<1>6. OpsInv'
  BY <1>0, <1>1, <1>2, <1>3 DEF OpsInv, io
<1>7. UseInv'
  BY <1>1, <1>3 DEF UseInv, Outstanding
<1>8. CalledInv'
  BY <1>0, <1>1, <1>2, <1>3 DEF CalledInv, CallbackOnce, io
<1> QED BY <1>4, <1>5, <1>6, <1>7, <1>8 DEF IInv

(* io_uring_queue_exit drops what is left, after the loop's end. *)
LEMMA JoinInv == ASSUME IInv, Join PROVE IInv'
<1>0. TypeOK /\ OpsInv /\ UseInv /\ CalledInv /\ HolderInv /\ CountInv
  BY DEF IInv
<1>1. /\ mpc = "join" /\ mpc' = "gone" /\ kernel' = {} /\ cq' = <<>> /\ rpc \in {"none", "exited"}
      /\ UNCHANGED <<reactor, nextId, spc, sid, iocb, called, target, inUse, fdVars>>
  BY DEF Join
<1>2. Completed' = {} /\ cq' \in Seq(Ids)
  BY <1>1 DEF Completed
<1>3. \A i \in Ids : Live(i)' => Live(i)
  BY <1>1 DEF Live, InSubmission
<1>4. Outstanding' \subseteq Outstanding
  BY <1>1, <1>3 DEF Outstanding
<1>5. TypeOK'
  BY <1>0, <1>1, <1>2 DEF TypeOK, FdTypeOK, fdVars, reactor
<1>6. HolderInv' /\ CountInv'
  BY <1>0, <1>1 DEF HolderInv, CountInv, fdVars, reactor
<1>7. OpsInv'
  BY <1>0, <1>1, <1>2, <1>4 DEF OpsInv, reactor
<1>8. UseInv'
  BY <1>0, <1>1, <1>2, <1>3, <1>4 DEF UseInv, fdVars, reactor
<1>9. CalledInv'
  BY <1>0, <1>1, <1>2, <1>4 DEF CalledInv, CallbackOnce, reactor
<1> QED BY <1>5, <1>6, <1>7, <1>8, <1>9 DEF IInv

-----------------------------------------------------------------------------
LEMMA StutterInv == ASSUME IInv, UNCHANGED vars PROVE IInv'
<1>1. UNCHANGED <<Outstanding, Completed>> /\ \A i \in Ids : Live(i)' = Live(i)
  BY DEF Outstanding, Completed, Live, InSubmission, vars, io
<1>2. TypeOK' /\ HolderInv' /\ CountInv'
  BY DEF IInv, TypeOK, FdTypeOK, HolderInv, CountInv, vars, reactor, io, fdVars
<1>3. OpsInv' /\ UseInv' /\ CalledInv'
  BY <1>1 DEF IInv, OpsInv, UseInv, CalledInv, CallbackOnce, vars, reactor, io, fdVars
<1> QED BY <1>2, <1>3 DEF IInv

LEMMA NextInv == IInv /\ [Next]_vars => IInv'
<1> SUFFICES ASSUME IInv, [Next]_vars PROVE IInv'
  OBVIOUS
<1>1. CASE UseFiles
  BY <1>1, UseFilesInv
<1>2. CASE Control
  BY <1>2, ControlInv
<1>3. CASE \E x \in Objs : Submit(x)
  BY <1>3, SubmitInv
<1>4. CASE \E t \in Submitters : InSubmit(t)
  BY <1>4, InSubmitInv
<1>5. CASE \E i \in Ids : Complete(i)
  BY <1>5, CompleteInv
<1>6. CASE Find \/ Callback \/ AwaitNext \/ CoroutineEnds \/ Join
  BY <1>6, FindInv, CallbackInv, AwaitNextInv, CoroutineEndsInv, JoinInv
<1>7. CASE UNCHANGED vars
  BY <1>7, StutterInv
<1>8. CASE NoEntry \/ \E t \in Submitters : NotSubmitted(t)
  BY <1>8, NoEntryInv, NotSubmittedInv
<1>9. Main \in Submitters /\ Loop \in Submitters
  BY DEF Submitters
<1> QED
  BY <1>1, <1>2, <1>3, <1>4, <1>5, <1>6, <1>7, <1>8, <1>9
  DEF Next, LoopStep, MainStep, Control

LEMMA Invariance == Spec => []IInv
  BY InitInv, NextInv, PTL DEF Spec

-----------------------------------------------------------------------------
(* The variables keep their types. *)
THEOREM TypeCorrect == Spec => []TypeOK
<1>1. IInv => TypeOK
  BY DEF IInv
<1> QED BY <1>1, Invariance, PTL

(* A callback runs at most once, although its completion stays in the      *)
(* queue and is looked at again.                                           *)
THEOREM CallbackRunsOnce == Spec => []CallbackOnce
<1>1. IInv => CallbackOnce
  BY DEF IInv, CalledInv
<1> QED BY <1>1, Invariance, PTL

(* Every operation meets the file it was submitted for: no constructor,    *)
(* move, release, reset or destructor of FileDescriptor that the program   *)
(* runs on its other objects meanwhile closes or reuses the number.        *)
THEOREM OperationsMeetTheirFile == Spec => []UsesOwnFile
<1>1. ASSUME IInv, NEW i \in Ids, Live(i)
      PROVE  target[i].gen # 0 /\ file[target[i].fd] = target[i].gen
  <2>1. i \in Outstanding
    BY <1>1 DEF Outstanding
  <2>2. inUse \in Objs /\ obj[inUse] \in Fds
    BY <1>1, <2>1 DEF IInv, UseInv, TypeOK
  <2>3. target[i] = [fd |-> obj[inUse], gen |-> file[obj[inUse]]]
    BY <1>1 DEF IInv, UseInv
  <2>4. file[obj[inUse]] # 0
    BY <1>1, <2>2 DEF IInv, HolderInv
  <2> QED BY <2>3, <2>4
<1>2. IInv => UsesOwnFile
  BY <1>1 DEF UsesOwnFile, Live, InSubmission
<1> QED BY <1>2, Invariance, PTL

(* The only lookup in the unlocked map that another thread's submission    *)
(* can meet is the repeated one, of a completion whose callback ran        *)
(* already; and only one thread is in submit_io.                           *)
THEOREM TheOnlyRace == Spec => []OnlyRepeatedLookupRaces
<1>1. ASSUME IInv, rpc = "find", NEW t \in Submitters, MapPending(t)
      PROVE  t = Main /\ called[Head(cq)] # 0
  <2>0. TypeOK /\ OpsInv /\ CalledInv
    BY <1>1 DEF IInv
  <2>1. /\ spc[t] # "idle" /\ sid[t] \in Ids /\ sid[t] \notin Completed
        /\ sid[t] \in Outstanding /\ sid[t] \notin iocb
    BY <1>1, <2>0 DEF MapPending, OpsInv, Outstanding, Live, InSubmission
  <2>2. t = Main
    BY <1>1, <2>0, <2>1 DEF OpsInv, Submitters
  <2>3. Head(cq) \in Ids /\ Head(cq) \in Completed
    <3>1. cq \in Seq(Ids) /\ cq # <<>>
      BY <1>1, <2>0 DEF TypeOK, OpsInv
    <3>2. Len(cq) \in Nat /\ Len(cq) # 0 /\ DOMAIN cq = 1 .. Len(cq)
      BY <3>1, EmptySeq, LenProperties
    <3>3. 1 \in DOMAIN cq
      BY <3>2
    <3>4. Head(cq) = cq[1] /\ cq[1] \in Ids
      BY <3>1, <3>2, <3>3, ElementOfSeq, HeadTailProperties
    <3> QED BY <3>3, <3>4 DEF Completed
  <2>4. Head(cq) \notin iocb
    BY <2>0, <2>1, <2>3 DEF OpsInv, Outstanding
  <2> QED BY <1>1, <2>0, <2>2, <2>3, <2>4 DEF CalledInv
<1>2. IInv => \E t \in Submitters : spc[t] = "idle"
  BY BoundsAssumption DEF IInv, OpsInv, Submitters
<1>3. IInv => OnlyRepeatedLookupRaces
  BY <1>1, <1>2 DEF OnlyRepeatedLookupRaces
<1> QED BY <1>3, Invariance, PTL

(* Whatever the program constructs, moves, assigns, releases, resets and   *)
(* destroys, an open file has exactly one holder, a FileDescriptor or a    *)
(* released number, and a closed one has none.                             *)
THEOREM EveryFileHasItsHolder == Spec => []OneHolderPerFile
<1>1. ASSUME IInv, NEW n \in Fds
      PROVE  Cardinality(Holders(n)) = IF file[n] # 0 THEN 1 ELSE 0
  <2>1. /\ \A x, y \in Objs : obj[x] = obj[y] /\ obj[x] \in Fds => x = y
        /\ \A x \in Objs : obj[x] \notin raw
        /\ file[n] # 0 <=> n \in raw \/ \E x \in Objs : obj[x] = n
    BY <1>1 DEF IInv, HolderInv
  <2>2. CASE file[n] = 0
    <3>1. Holders(n) = {}
      BY <2>1, <2>2 DEF Holders
    <3> QED BY <2>2, <3>1, FS_EmptySet
  <2>3. CASE file[n] # 0 /\ n \in raw
    <3>1. Holders(n) = {n}
      BY <2>1, <2>3 DEF Holders
    <3> QED BY <2>3, <3>1, FS_Singleton
  <2>4. ASSUME file[n] # 0, n \notin raw
        PROVE  Cardinality(Holders(n)) = 1
    <3>1. PICK x \in Objs : obj[x] = n
      BY <2>1, <2>4
    <3>2. Holders(n) = {x}
      BY <2>1, <2>4, <3>1 DEF Holders
    <3> QED BY <3>2, FS_Singleton
  <2> QED BY <2>2, <2>3, <2>4
<1>2. IInv => OneHolderPerFile
  BY <1>1 DEF OneHolderPerFile
<1> QED BY <1>2, Invariance, PTL

-----------------------------------------------------------------------------
(* The completion that ran a callback stays at the head of the queue, and  *)
(* the thread with it: from then on it looks the same entry up for ever.   *)
LoopIsHeld ==
    \A i \in Ids : called[i] # 0 =>
        /\ cq # <<>> /\ Head(cq) = i
        /\ rpc \in {"peek", "find", "resumed", "await"}
        /\ mpc # "gone"

HeldInv == /\ LoopIsHeld
           /\ rpc = "callback" => cq # <<>> /\ Head(cq) = cur
           /\ mpc = "gone" => rpc \in {"none", "exited"}

LEMMA HeldStep == IInv /\ HeldInv /\ [Next]_vars => HeldInv'
<1> SUFFICES ASSUME IInv, HeldInv, [Next]_vars PROVE HeldInv'
  OBVIOUS
<1>0. /\ TypeOK /\ LoopIsHeld /\ (rpc = "find" => cq # <<>>)
      /\ \A i \in Ids : called[i] # 0 => i \notin iocb
  BY DEF IInv, OpsInv, CalledInv, Outstanding, HeldInv
<1>1. ASSUME UNCHANGED <<cq, called, rpc, mpc, cur>> PROVE HeldInv'
  BY <1>1 DEF HeldInv, LoopIsHeld
<1>2. CASE UseFiles \/ (\E x \in Objs : Submit(x)) \/ (\E t \in Submitters : InSubmit(t))
           \/ UNCHANGED vars
  BY <1>1, <1>2 DEF UseFiles, Submit, TakeId, InSubmit, vars, reactor, io
<1>3. CASE Control
  <2>1. UNCHANGED <<cq, called, cur>>
    BY <1>3 DEF Control, Run, StopCall, StopPush, Wakeup, Destroy, Finished, Start, Check,
               Poll, PollNothing, BatchDone, Drain, Exec, Peek, CallbackReturn, Dispatch,
               vars, reactor, io
  <2>2. mpc' = "gone" => mpc = "gone" /\ UNCHANGED rpc
    BY <1>3 DEF Control, Run, StopCall, StopPush, Wakeup, Destroy, Finished, Start, Check,
               Poll, PollNothing, BatchDone, Drain, Exec, Peek, CallbackReturn, Dispatch,
               GoTo, MainFree, vars, reactor, HeldInv
  <2>3. rpc' # "callback" \/ UNCHANGED rpc
    BY <1>3 DEF Control, Run, StopCall, StopPush, Wakeup, Destroy, Finished, Start, Check,
               Poll, PollNothing, BatchDone, Drain, Exec, Peek, CallbackReturn, Dispatch,
               GoTo, vars, reactor
  <2>4. rpc \in {"peek", "find", "resumed", "await"} /\ cq # <<>> =>
            rpc' \in {"peek", "find", "resumed", "await"}
    BY <1>3 DEF Control, Run, StopCall, StopPush, Wakeup, Destroy, Finished, Start, Check,
               Poll, PollNothing, BatchDone, Drain, Exec, Peek, CallbackReturn, Dispatch,
               GoTo, vars, reactor
  <2> QED BY <2>1, <2>2, <2>3, <2>4 DEF HeldInv, LoopIsHeld
<1>4. ASSUME NEW i \in Ids, Complete(i) PROVE HeldInv'
  <2>1. cq' = Append(cq, i) /\ UNCHANGED <<called, rpc, mpc, cur>> /\ cq \in Seq(Ids)
    BY <1>0, <1>4 DEF Complete, reactor, TypeOK
  <2>2. cq # <<>> => cq' # <<>> /\ Head(cq') = Head(cq)
    BY <2>1
  <2> QED BY <2>1, <2>2 DEF HeldInv, LoopIsHeld
<1>5. CASE Find
  <2>1. /\ rpc = "find" /\ cur' = Head(cq) /\ UNCHANGED <<cq, called, mpc>>
        /\ rpc' = (IF Head(cq) \in iocb THEN "callback" ELSE "peek")
    BY <1>5 DEF Find, GoTo
  <2> QED BY <1>0, <2>1 DEF HeldInv, LoopIsHeld
<1>6. CASE Callback
  <2>1. /\ rpc = "callback" /\ rpc' = "resumed" /\ UNCHANGED <<cq, cur, mpc>>
        /\ called' = [called EXCEPT ![cur] = @ + 1]
    BY <1>6 DEF Callback, GoTo
  <2>2. \A i \in Ids : called[i] = 0
    BY <1>0, <2>1 DEF LoopIsHeld
  <2>3. \A i \in Ids : called'[i] # 0 => i = cur
    BY <1>0, <2>1, <2>2 DEF TypeOK
  <2> QED BY <2>1, <2>3 DEF HeldInv, LoopIsHeld
<1>7. CASE AwaitNext \/ CoroutineEnds
  <2>1. /\ rpc = "resumed" /\ rpc' \in {"await", "peek"}
        /\ UNCHANGED <<cq, called, mpc, cur>>
    BY <1>7 DEF AwaitNext, TakeId, CoroutineEnds, GoTo, io
  <2> QED BY <2>1 DEF HeldInv, LoopIsHeld
<1>8. CASE Join
  <2>1. rpc \in {"none", "exited"} /\ UNCHANGED <<rpc, called>> /\ mpc' = "gone"
    BY <1>8 DEF Join, reactor
  <2> QED BY <2>1 DEF HeldInv, LoopIsHeld
<1>9. CASE NoEntry \/ \E t \in Submitters : NotSubmitted(t)
  <2>1. UNCHANGED <<cq, called, rpc, cur>> /\ mpc' # "gone"
    BY <1>9 DEF NoEntry, NotSubmitted, Throw, reactor, io
  <2> QED BY <2>1 DEF HeldInv, LoopIsHeld
<1>10. Main \in Submitters /\ Loop \in Submitters
  BY DEF Submitters
<1> QED
  BY <1>2, <1>3, <1>4, <1>5, <1>6, <1>7, <1>8, <1>9, <1>10
  DEF Next, LoopStep, MainStep, Control

(* Once a callback ran, no other operation's callback ever does, no        *)
(* command is executed any more, and the destructor never returns: the     *)
(* handler peeks at the completion and never marks it as seen.             *)
THEOREM FirstCompletionHoldsTheLoop == Spec => []LoopIsHeld
<1>1. Init => HeldInv
  BY DEF Init, HeldInv, LoopIsHeld
<1>2. HeldInv => LoopIsHeld
  BY DEF HeldInv
<1> QED BY <1>1, <1>2, HeldStep, Invariance, PTL DEF Spec
=============================================================================
