--------------------------- MODULE FileDescriptor ----------------------------
(***************************************************************************)
(* FileDescriptor: the owner of a descriptor number, and the process's     *)
(* descriptor table it closes numbers in.  A number that was closed may be *)
(* opened again for another file, so closing it once too often closes      *)
(* somebody else's.  The module is passive: a program's threads take its   *)
(* actions.                                                                *)
(***************************************************************************)
EXTENDS Naturals, FiniteSets

CONSTANTS Objs,     \* FileDescriptor variables of the program
          Fds,      \* descriptor numbers
          Invalid,  \* fd_ = -1
          Absent,   \* the variable does not exist (yet, or any more)
          MaxOpens  \* bound: how often a number is opened

VARIABLES obj,      \* obj[x]: fd_
          raw,      \* numbers that the program holds itself, after a release
          file,     \* file[n]: the file that number n stands for, 0: not open
          gen       \* gen[n]: how many files n has stood for

fdVars == <<obj, raw, file, gen>>

FdTypeOK ==
    /\ obj \in [Objs -> Fds \cup {Invalid, Absent}]
    /\ raw \subseteq Fds
    /\ file \in [Fds -> 0 .. MaxOpens] /\ gen \in [Fds -> 0 .. MaxOpens]

FdInit ==
    /\ obj = [x \in Objs |-> Absent] /\ raw = {}
    /\ file = [n \in Fds |-> 0] /\ gen = [n \in Fds |-> 0]

(* ::close; an Invalid number is not passed to it. *)
CloseNumber(n) == file' = IF n \in Fds THEN [file EXCEPT ![n] = 0] ELSE file

(* ::open gives a free number; the constructor refuses -1. *)
Construct(x, n) ==
    /\ obj[x] = Absent /\ file[n] = 0 /\ gen[n] < MaxOpens
    /\ gen' = [gen EXCEPT ![n] = @ + 1]
    /\ file' = [file EXCEPT ![n] = gen[n] + 1]
    /\ obj' = [obj EXCEPT ![x] = n]
    /\ UNCHANGED raw

(* Mistake: the source keeps its number. *)
MoveConstructCopies(x, y) ==
    /\ obj[x] = Absent /\ obj[y] # Absent
    /\ obj' = [obj EXCEPT ![x] = obj[y]]
    /\ UNCHANGED <<raw, file, gen>>

MoveConstruct(x, y) ==
    /\ obj[x] = Absent /\ obj[y] # Absent
    /\ obj' = [obj EXCEPT ![x] = obj[y], ![y] = Invalid]
    /\ UNCHANGED <<raw, file, gen>>

(* Mistake: the target does not close what it had. *)
MoveAssignLeaks(x, y) ==
    /\ obj[x] # Absent /\ obj[y] # Absent /\ x # y
    /\ obj' = [obj EXCEPT ![x] = obj[y], ![y] = Invalid]
    /\ UNCHANGED <<raw, file, gen>>

(* The assignment of a variable to itself does nothing. *)
MoveAssign(x, y) ==
    /\ obj[x] # Absent /\ obj[y] # Absent /\ x # y
    /\ CloseNumber(obj[x])
    /\ obj' = [obj EXCEPT ![x] = obj[y], ![y] = Invalid]
    /\ UNCHANGED <<raw, gen>>

Release(x) ==
    /\ obj[x] \in Fds
    /\ raw' = raw \cup {obj[x]}
    /\ obj' = [obj EXCEPT ![x] = Invalid]
    /\ UNCHANGED <<file, gen>>

CloseRaw(n) ==
    /\ n \in raw
    /\ CloseNumber(n) /\ raw' = raw \ {n}
    /\ UNCHANGED <<obj, gen>>

CloseFd(x) ==
    /\ obj[x] # Absent
    /\ CloseNumber(obj[x])
    /\ obj' = [obj EXCEPT ![x] = Invalid]
    /\ UNCHANGED <<raw, gen>>

DestroyFd(x) ==
    /\ obj[x] # Absent
    /\ CloseNumber(obj[x])
    /\ obj' = [obj EXCEPT ![x] = Absent]
    /\ UNCHANGED <<raw, gen>>

(* An open file has one holder, a closed one none: nobody closes a number  *)
(* that has become another file's, and no file stays open without a holder.*)
Holders(n) == {x \in Objs : obj[x] = n} \cup ({n} \cap raw)
OneHolderPerFile ==
    \A n \in Fds : Cardinality(Holders(n)) = IF file[n] # 0 THEN 1 ELSE 0
=============================================================================
