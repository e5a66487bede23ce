-------------------------- MODULE MCConcurrentQueue --------------------------
(* ConcurrentQueue on small instances: threads and values are model values. *)
EXTENDS ConcurrentQueue, TLC

(* Threads are interchangeable, and so are values: no property names one. *)
ThreadSymmetry == Permutations(Threads) \cup Permutations(Values)
=============================================================================
