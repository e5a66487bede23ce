------------------------------- MODULE Reactor --------------------------------
(***************************************************************************)
(* Epoll::Reactor: a thread that waits in epoll_wait, runs the callbacks   *)
(* of the descriptors that are ready and executes the commands (add, mod,  *)
(* del, unreg, stop) that other threads, and its own callbacks, queue for  *)
(* it.  A post is two steps, the queue and the eventfd; a stop is three,   *)
(* because it clears running_ first; the wakeup handler is drain, swap and *)
(* one step per command.                                                   *)
(*                                                                         *)
(* The descriptor table belongs to the process: a number that was closed   *)
(* may be opened again for something else.  own is the contract between    *)
(* the program and the reactor about who closes what:                      *)
(*    "user"    open, and the program's to close                           *)
(*    "lent"    added: the reactor closes it when it is destroyed          *)
(*    "doomed"  deleted: the reactor closes it when it gets to the command *)
(*    "free"    not open                                                   *)
(* unreg_fd gives a descriptor back to the program as soon as it returns.  *)
(***************************************************************************)
EXTENDS Sequences, Naturals, FiniteSets

CONSTANTS Fds,        \* descriptor numbers
          Clients,    \* the program's threads other than the owner
          Owner,      \* the thread that runs, stops and destroys the reactor
          Loop,       \* the reactor thread, as one that posts from a callback
          Wake,       \* the event of the eventfd
          Requests,   \* which of the commands on descriptors the program uses
          MaxPosts,   \* bound: commands posted
          MaxOpens    \* bound: how often a descriptor number is opened

Posters == Clients \cup {Owner, Loop}
Modes == {"level", "oneshot"}

ASSUME PostersAssumption ==
    /\ Owner \notin Clients /\ Loop \notin Clients /\ Owner # Loop
    /\ Wake \notin [fd : Fds, gen : Nat]
ASSUME ProgramAssumption ==
    /\ Requests \subseteq {"Add", "Mod", "Del", "Unreg"}
    /\ MaxPosts \in Nat /\ MaxOpens \in Nat

VARIABLES running,    \* running_
          wake,       \* the eventfd is readable
          cmdQ,       \* cmd_q_
          local,      \* the commands that handle_wakeup has still to execute
          callbacks,  \* callbacks_: the file a callback was added for, 0: none
          armed,      \* the epoll interest in a descriptor
          own, gen,   \* the descriptor table: who owns it, which file it is
          given,      \* history: the numbers that unreg_fd gave back a file of
          batch,      \* the events that epoll_wait returned, not yet dispatched
          rpc,        \* where the reactor thread is
          ppc,        \* ppc[p]: what is left of the post p is in
          mpc,        \* where the reactor's life is
          stopped,    \* the owner has called stop
          posts       \* commands posted so far

table == <<callbacks, armed, own, gen, given>>
vars == <<running, wake, cmdQ, local, table, batch, rpc, ppc, mpc, stopped, posts>>

Files == [fd : Fds, gen : 1 .. MaxOpens]
Commands == [type : {"Add", "Mod"}, fd : Fds, tag : 1 .. MaxOpens, mode : Modes]
            \cup [type : {"Del", "Unreg"}, fd : Fds, tag : 1 .. MaxOpens,
                  mode : {"none"}]
            \cup {[type |-> "Stop"]}
Events == Files \cup {Wake}

TypeOK ==
    /\ running \in BOOLEAN /\ wake \in BOOLEAN /\ stopped \in BOOLEAN
    /\ cmdQ \in Seq(Commands) /\ local \in Seq(Commands)
    /\ callbacks \in [Fds -> 0 .. MaxOpens]
    /\ armed \in [Fds -> Modes \cup {"off", "disabled"}]
    /\ own \in [Fds -> {"free", "user", "lent", "doomed"}]
    /\ gen \in [Fds -> 0 .. MaxOpens]
    /\ given \subseteq Fds
    /\ batch \subseteq Events
    /\ rpc \in {"none", "start", "check", "poll", "dispatch", "drain", "swap",
                "exec", "callback", "exited"}
    /\ ppc \in [Posters -> {"idle", "stop", "wakeup"}]
    /\ mpc \in {"alive", "join", "destroyed"}
    /\ posts \in 0 .. MaxPosts
    /\ local # <<>> => rpc = "exec"
    /\ batch # {} => rpc \in {"dispatch", "drain", "swap", "exec", "callback"}

Init ==
    /\ running = FALSE /\ wake = FALSE
    /\ cmdQ = <<>> /\ local = <<>> /\ batch = {}
    /\ callbacks = [f \in Fds |-> 0]
    /\ armed = [f \in Fds |-> "off"]
    /\ own = [f \in Fds |-> "free"]
    /\ gen = [f \in Fds |-> 0] /\ given = {}
    /\ rpc = "none" /\ ppc = [p \in Posters |-> "idle"] /\ mpc = "alive"
    /\ stopped = FALSE /\ posts = 0

-----------------------------------------------------------------------------
(* Posting.  The program's threads call the reactor until it is destroyed; *)
(* the reactor thread calls it while it runs a callback.                   *)
MayCall(p) ==
    /\ ppc[p] = "idle"
    /\ IF p = Loop THEN rpc = "callback" ELSE mpc = "alive"

Enqueue(p, c) ==
    /\ cmdQ' = Append(cmdQ, c)
    /\ ppc' = [ppc EXCEPT ![p] = "wakeup"]

Count == posts < MaxPosts /\ posts' = posts + 1

(* The descriptor commands, each with what it does to the contract. *)
ModesOf(type) == IF type \in {"Add", "Mod"} THEN Modes ELSE {"none"}
Allowed(type, f) == own[f] = IF type = "Add" THEN "user" ELSE "lent"
Handover(type) ==
    CASE type = "Del" -> "doomed" [] type = "Unreg" -> "user" [] OTHER -> "lent"

Post(p, type, f, mode) ==
    /\ MayCall(p) /\ Count /\ Allowed(type, f)
    /\ Enqueue(p, [type |-> type, fd |-> f, tag |-> gen[f], mode |-> mode])
    /\ own' = [own EXCEPT ![f] = Handover(type)]
    /\ given' = IF type = "Unreg" THEN given \cup {f} ELSE given
    /\ UNCHANGED <<running, wake, local, callbacks, armed, gen, batch, rpc, mpc,
                   stopped>>

(* The owner's first stop is outside the bound: the program can always end. *)
StopCall(p) ==
    /\ MayCall(p)
    /\ IF p = Owner /\ ~stopped THEN posts' = posts ELSE Count
    /\ running' = FALSE
    /\ ppc' = [ppc EXCEPT ![p] = "stop"]
    /\ stopped' = (stopped \/ p = Owner)
    /\ UNCHANGED <<wake, cmdQ, local, table, batch, rpc, mpc>>

StopPush(p) ==
    /\ ppc[p] = "stop"
    /\ Enqueue(p, [type |-> "Stop"])
    /\ UNCHANGED <<running, wake, local, table, batch, rpc, mpc, stopped, posts>>

(* Mistake: the eventfd is written only while the loop runs. *)
WakeupIfRunning(p) ==
    /\ ppc[p] = "wakeup"
    /\ wake' = (wake \/ running)
    /\ ppc' = [ppc EXCEPT ![p] = "idle"]
    /\ UNCHANGED <<running, cmdQ, local, table, batch, rpc, mpc, stopped, posts>>

Wakeup(p) ==
    /\ ppc[p] = "wakeup"
    /\ wake' = TRUE
    /\ ppc' = [ppc EXCEPT ![p] = "idle"]
    /\ UNCHANGED <<running, cmdQ, local, table, batch, rpc, mpc, stopped, posts>>

(* The program opens a file, and the kernel gives it a free number; it     *)
(* closes one that is its own, and the kernel forgets the interest in it.  *)
Open(f) ==
    /\ own[f] = "free" /\ gen[f] < MaxOpens /\ mpc = "alive"
    /\ own' = [own EXCEPT ![f] = "user"]
    /\ gen' = [gen EXCEPT ![f] = @ + 1]
    /\ UNCHANGED <<running, wake, cmdQ, local, callbacks, armed, given, batch, rpc,
                   ppc, mpc, stopped, posts>>

Close(f) ==
    /\ own[f] = "user"
    /\ own' = [own EXCEPT ![f] = "free"]
    /\ armed' = [armed EXCEPT ![f] = "off"]
    /\ UNCHANGED <<running, wake, cmdQ, local, callbacks, gen, given, batch, rpc,
                   ppc, mpc, stopped, posts>>

-----------------------------------------------------------------------------
(* The reactor thread. *)
Run ==
    /\ rpc = "none" /\ mpc = "alive" /\ ppc[Owner] = "idle"
    /\ rpc' = "start"
    /\ UNCHANGED <<running, wake, cmdQ, local, table, batch, ppc, mpc, stopped, posts>>

Start ==
    /\ rpc = "start"
    /\ running' = TRUE /\ rpc' = "check"
    /\ UNCHANGED <<wake, cmdQ, local, table, batch, ppc, mpc, stopped, posts>>

Check ==
    /\ rpc = "check"
    /\ rpc' = IF running THEN "poll" ELSE "exited"
    /\ UNCHANGED <<running, wake, cmdQ, local, table, batch, ppc, mpc, stopped, posts>>

(* epoll_wait returns some of the descriptors it is interested in, and the *)
(* eventfd if that is readable; a one-shot interest is disabled by that.   *)
Poll(ready) ==
    /\ rpc = "poll" /\ (wake \/ ready # {})
    /\ \A f \in ready : armed[f] \in Modes
    /\ batch' = {[fd |-> f, gen |-> gen[f]] : f \in ready}
                \cup (IF wake THEN {Wake} ELSE {})
    /\ armed' = [f \in Fds |-> IF f \in ready /\ armed[f] = "oneshot"
                                 THEN "disabled" ELSE armed[f]]
    /\ rpc' = "dispatch"
    /\ UNCHANGED <<running, wake, cmdQ, local, callbacks, own, gen, given, ppc, mpc,
                   stopped, posts>>

(* EINTR, or the timeout; with an event at hand epoll_wait reports that. *)
PollNothing ==
    /\ rpc = "poll" /\ ~wake
    /\ rpc' = "check"
    /\ UNCHANGED <<running, wake, cmdQ, local, table, batch, ppc, mpc, stopped, posts>>

Dispatch(e) ==
    /\ rpc = "dispatch" /\ e \in batch
    /\ batch' = batch \ {e}
    /\ rpc' = IF e = Wake THEN "drain"
              ELSE IF callbacks[e.fd] # 0 THEN "callback" ELSE "dispatch"
    /\ UNCHANGED <<running, wake, cmdQ, local, table, ppc, mpc, stopped, posts>>

(* Mistake: the loop leaves the batch as soon as it is stopped. *)
BatchDoneOnStop ==
    /\ rpc = "dispatch" /\ (batch = {} \/ ~running)
    /\ rpc' = "check"
    /\ UNCHANGED <<running, wake, cmdQ, local, table, batch, ppc, mpc, stopped, posts>>

BatchDone ==
    /\ rpc = "dispatch" /\ batch = {}
    /\ rpc' = "check"
    /\ UNCHANGED <<running, wake, cmdQ, local, table, batch, ppc, mpc, stopped, posts>>

CallbackReturn ==
    /\ rpc = "callback" /\ ppc[Loop] = "idle"
    /\ rpc' = "dispatch"
    /\ UNCHANGED <<running, wake, cmdQ, local, table, batch, ppc, mpc, stopped, posts>>

Drain ==
    /\ rpc = "drain"
    /\ wake' = FALSE /\ rpc' = "swap"
    /\ UNCHANGED <<running, cmdQ, local, table, batch, ppc, mpc, stopped, posts>>

Swap ==
    /\ rpc = "swap"
    /\ local' = cmdQ /\ cmdQ' = <<>> /\ rpc' = "exec"
    /\ UNCHANGED <<running, wake, table, batch, ppc, mpc, stopped, posts>>

(* epoll_ctl ADD fails on a closed descriptor and on one it already has;   *)
(* MOD on one it does not have.                                            *)
AddSucceeds(c) == own[c.fd] # "free" /\ armed[c.fd] = "off"

ExecAdd(c) ==
    /\ c.type = "Add"
    /\ IF AddSucceeds(c)
         THEN /\ armed' = [armed EXCEPT ![c.fd] = c.mode]
              /\ callbacks' = [callbacks EXCEPT ![c.fd] = c.tag]
         ELSE UNCHANGED <<armed, callbacks>>
    /\ UNCHANGED <<running, own, gen, given>>

ExecMod(c) ==
    /\ c.type = "Mod"
    /\ armed' = [armed EXCEPT ![c.fd] = IF @ = "off" THEN @ ELSE c.mode]
    /\ UNCHANGED <<running, callbacks, own, gen, given>>

(* Mistake: the callback stays in the map. *)
ExecDelKeeps(c) ==
    /\ c.type = "Del"
    /\ armed' = [armed EXCEPT ![c.fd] = "off"]
    /\ own' = [own EXCEPT ![c.fd] = "free"]
    /\ UNCHANGED <<running, callbacks, gen, given>>

ExecDel(c) ==
    /\ c.type = "Del"
    /\ armed' = [armed EXCEPT ![c.fd] = "off"]
    /\ callbacks' = [callbacks EXCEPT ![c.fd] = 0]
    /\ own' = [own EXCEPT ![c.fd] = "free"]
    /\ UNCHANGED <<running, gen, given>>

(* Mistakes: the callback stays in the map; or the interest in epoll. *)
ExecUnregKeeps(c) ==
    /\ c.type = "Unreg"
    /\ armed' = [armed EXCEPT ![c.fd] = "off"]
    /\ UNCHANGED <<running, callbacks, own, gen, given>>
ExecUnregArmed(c) ==
    /\ c.type = "Unreg"
    /\ callbacks' = [callbacks EXCEPT ![c.fd] = 0]
    /\ UNCHANGED <<running, armed, own, gen, given>>

ExecUnreg(c) ==
    /\ c.type = "Unreg"
    /\ armed' = [armed EXCEPT ![c.fd] = "off"]
    /\ callbacks' = [callbacks EXCEPT ![c.fd] = 0]
    /\ UNCHANGED <<running, own, gen, given>>

(* Mistake: the command does nothing, stop() having cleared running_. *)
ExecStopNothing(c) == c.type = "Stop" /\ UNCHANGED <<running, table>>

ExecStop(c) ==
    /\ c.type = "Stop"
    /\ running' = FALSE
    /\ UNCHANGED table

Exec ==
    /\ rpc = "exec" /\ local # <<>>
    /\ LET c == Head(local) IN
       ExecAdd(c) \/ ExecMod(c) \/ ExecDel(c) \/ ExecUnreg(c) \/ ExecStop(c)
    /\ local' = Tail(local)
    /\ UNCHANGED <<wake, cmdQ, batch, rpc, ppc, mpc, stopped, posts>>

(* Mistake: the handler goes on with what was queued meanwhile. *)
ExecDoneAgain ==
    /\ rpc = "exec" /\ local = <<>>
    /\ rpc' = IF cmdQ # <<>> THEN "swap" ELSE "dispatch"
    /\ UNCHANGED <<running, wake, cmdQ, local, table, batch, ppc, mpc, stopped, posts>>

ExecDone ==
    /\ rpc = "exec" /\ local = <<>>
    /\ rpc' = "dispatch"
    /\ UNCHANGED <<running, wake, cmdQ, local, table, batch, ppc, mpc, stopped, posts>>

-----------------------------------------------------------------------------
(* The destructor: stop if running_, join, close what is registered. *)
Destroy ==
    /\ mpc = "alive" /\ \A p \in Posters \ {Loop} : ppc[p] = "idle"
    /\ mpc' = "join"
    /\ ppc' = IF running THEN [ppc EXCEPT ![Owner] = "stop"] ELSE ppc
    /\ running' = FALSE
    /\ UNCHANGED <<wake, cmdQ, local, table, batch, rpc, stopped, posts>>

CloseAll ==
    /\ mpc = "join" /\ ppc[Owner] = "idle" /\ rpc \in {"none", "exited"}
    /\ mpc' = "destroyed"
    /\ own' = [f \in Fds |-> IF callbacks[f] # 0 THEN "free" ELSE own[f]]
    /\ armed' = [f \in Fds |-> "off"]
    /\ callbacks' = [f \in Fds |-> 0]
    /\ UNCHANGED <<running, wake, cmdQ, local, gen, given, batch, rpc, ppc, stopped,
                   posts>>

Finished == mpc = "destroyed" /\ UNCHANGED vars

-----------------------------------------------------------------------------
InPost(p) == StopPush(p) \/ Wakeup(p)

(* What the reactor thread does when nobody asks it to. *)
LoopStep ==
    \/ Start \/ Check \/ BatchDone \/ CallbackReturn \/ Drain \/ Swap \/ Exec \/ ExecDone
    \/ \E ready \in SUBSET Fds : Poll(ready)
    \/ \E e \in batch : Dispatch(e)

Next ==
    \/ \E p \in Posters :
          \/ \E type \in Requests, f \in Fds : \E mode \in ModesOf(type) :
                Post(p, type, f, mode)
          \/ StopCall(p) \/ InPost(p)
    \/ \E f \in Fds : Open(f) \/ Close(f)
    \/ Run \/ LoopStep \/ PollNothing
    \/ Destroy \/ CloseAll \/ Finished

Spec == Init /\ [][Next]_vars

(* A call of the reactor returns, the reactor thread goes on, callbacks    *)
(* return, and so does a join; nothing obliges epoll_wait to time out.     *)
FairSpec ==
    /\ Spec
    /\ \A p \in Posters : WF_vars(InPost(p))
    /\ WF_vars(LoopStep) /\ WF_vars(CloseAll)

-----------------------------------------------------------------------------
(* A queued command is never left behind: the eventfd is readable, or the  *)
(* handler drained it and has still to take the queue, or the poster has   *)
(* still to write it.                                                      *)
NoLostWakeup ==
    cmdQ # <<>> => wake \/ rpc = "swap" \/ \E p \in Posters : ppc[p] = "wakeup"

(* What the reactor has been told and has not done yet, in order. *)
Pending == local \o cmdQ
IsPending(type, f) ==
    \E i \in DOMAIN Pending : Pending[i].type = type /\ Pending[i].fd = f

(* The reactor's table and the contract agree, up to the pending commands: *)
(* a callback outlives the loan of its descriptor only until the removal   *)
(* is executed, a lent descriptor is registered or about to be, a doomed   *)
(* one is about to be closed.                                              *)
Custody ==
    mpc # "destroyed" =>
        \A f \in Fds :
            /\ callbacks[f] # 0 /\ own[f] \notin {"lent", "doomed"} =>
                 IsPending("Unreg", f)
            /\ own[f] = "lent" => callbacks[f] = gen[f] \/ IsPending("Add", f)
            /\ own[f] = "doomed" => IsPending("Del", f)

(* An add never meets an interest that is still there (EEXIST): whoever    *)
(* follows the contract gets its callback.                                 *)
AddFindsRoom ==
    rpc = "exec" /\ local # <<>> =>
        LET c == Head(local) IN c.type = "Add" => armed[c.fd] = "off"

(* The reactor implements EventLoop.  The steps of a post, of the wakeup    *)
(* handler and of the end of the loop are stutters of it, but for the      *)
(* enqueue, the single commands and the collected events.                  *)
EL == INSTANCE EventLoop WITH
        Tags <- 1 .. MaxOpens, NoTag <- 0,
        pending <- Pending, open <- {f \in Fds : own[f] # "free"},
        events <- {e.fd : e \in batch \ {Wake}}, calling <- rpc = "callback"
IsEventLoop == EL!LoopSpec

(* A callback that is called for an event was added for the file whose      *)
(* event it is, and not for an earlier or later one with the same number,  *)
(* where the reactor closes the files itself (timers: add, then del).      *)
(* unreg_fd gives a file back before its callback is gone, and the program *)
(* may close it and open another: with such a number nothing is promised.  *)
NoStaleEvent ==
    [][\A e \in batch \ batch' :
          rpc' = "callback" => callbacks[e.fd] = e.gen \/ e.fd \in given]_vars

(* The destructor closes no descriptor that is not the reactor's: "fd is   *)
(* user-owned - do NOT close it here" (reactor.hpp:326, also 112).         *)
ClosesOnlyItsOwn ==
    [][mpc' = "destroyed" =>
          \A f \in Fds : callbacks[f] # 0 => own[f] \in {"lent", "doomed"}]_vars

(* Every command is executed unless the loop ends. *)
CommandsExecuted == (cmdQ # <<>> /\ rpc # "none") ~> (cmdQ = <<>> \/ rpc = "exited")

(* The destructor reads running_ to see whether to stop the thread, which  *)
(* sets it when it gets to run: one that comes first joins a thread nobody *)
(* stops, unless a callback does.                                          *)
StopComing ==
    \/ \E i \in DOMAIN Pending : Pending[i].type = "Stop"
    \/ \E p \in Posters : ppc[p] = "stop"
Missed ==
    /\ mpc = "join" /\ ~StopComing
    /\ rpc = "start" \/ (running /\ rpc \notin {"none", "exited"})

(* In every other order of starting, stopping and joining it returns. *)
DestructorReturns == (mpc = "join" /\ ~Missed) ~> (mpc = "destroyed")
=============================================================================
