---------------------------- MODULE MCDurableRun ----------------------------
(* Instances of DurableRun small enough for TLC: model values for the tasks  *)
(* and the requests, which are interchangeable.                              *)
EXTENDS DurableRun, TLC

Symmetry == Permutations(Tasks) \cup Permutations(Requests)
=============================================================================
