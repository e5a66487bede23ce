------------------------------- MODULE MCTasks --------------------------------
(* Tasks on small programs.  Thread m1 calls a, which awaits the pool and     *)
(* then k, which awaits the pool and may throw; thread m2 calls d, which      *)
(* awaits e, which awaits the pool and may throw, before it or after.         *)
EXTENDS Tasks, TLC

CONSTANTS m1, m2, a, k, d, e

MCCoros == {a, k, d, e}
MCBody == a :> <<Pool, k>> @@ k :> <<Pool>> @@ d :> <<e>> @@ e :> <<Pool>>
MCRoots == m1 :> {a} @@ m2 :> {d}
=============================================================================
